-------------------------- MODULE SettlementProofs --------------------------
(***************************************************************************)
(* Theorems about Settlement, for every tree, catalogue and set of orders: *)
(* first how balances, notes and rows move together; then what the tables  *)
(* add up to, and what the pages show of them.                             *)
(***************************************************************************)
EXTENDS SettlementPages, SumProofs

-----------------------------------------------------------------------------
(***************************************************************************)
(* Balances                                                                *)
(***************************************************************************)

\* The amount posted under one source is a number.
LEMMA PostedInt ==
    ASSUME NEW R, \A r \in R : r.amount \in Int, NEW a, NEW src
    PROVE  Posted(R, a, src) \in Int
<1> DEFINE rows == {r \in R : r.accountid = a /\ r.source = src}
<1>1. CASE rows = {}
  BY <1>1 DEF Posted
<1>2. CASE rows # {}
  <2>1. (CHOOSE r \in rows : TRUE) \in rows
    BY <1>2
  <2> QED
    BY <1>2, <2>1 DEF Posted
<1> QED
  BY <1>1, <1>2

\* What rows post to a column of an account is a number.
LEMMA InflowInt ==
    ASSUME NEW R, \A r \in R : r.amount \in Int, NEW a, NEW c
    PROVE  Inflow(R, a, c) \in Int
<1>1. \A src : Posted(R, a, src) \in Int
  BY PostedInt
<1>2. /\ Posted(R, a, "commission") + Posted(R, a, "conversion")
         + Posted(R, a, "earnest") + Posted(R, a, "fee")
         + Posted(R, a, "crossAward") + Posted(R, a, "crossEarnest")
         + Posted(R, a, "delivery") \in Int
      /\ Posted(R, a, "earnestDebt") + Posted(R, a, "crossEarnestDebt") \in Int
  BY <1>1
<1> QED
  BY <1>1, <1>2 DEF Inflow

\* Posting rows, or undoing them, leaves numbers in every column.
LEMMA LedgerType ==
    ASSUME NEW account \in [Account -> [Column -> Int]],
           NEW R, \A r \in R : r.amount \in Int
    PROVE  /\ Credit(account, R) \in [Account -> [Column -> Int]]
           /\ Debit(account, R) \in [Account -> [Column -> Int]]
<1>1. \A a \in Account, c \in Column :
         account[a][c] + Inflow(R, a, c) \in Int /\ account[a][c] - Inflow(R, a, c) \in Int
  BY InflowInt
<1> QED
  BY <1>1 DEF Credit, Debit

-----------------------------------------------------------------------------
(***************************************************************************)
(* Orders                                                                  *)
(***************************************************************************)

\* An order id without an order is told apart from every order.
LEMMA NullIsNoOrder == NULL \notin OrderRow
BY PricingAssumption

\* A generated order has a row with columns.
LEMMA GeneratedRow ==
    ASSUME NEW d \in Database, NEW o \in Generated(d)
    PROVE  o \in Order /\ d.orders[o] \in OrderRow
BY DEF Generated, Database

\* What SetStatus does to the orders: the order gets the status, an open one of the
\* same student and product may fail with it, and no order changes its student,
\* product, price or method.
LEMMA SetStatusOrders ==
    ASSUME NEW d \in Database, NEW o \in Generated(d), NEW st \in Status,
           NEW e, e = SetStatus(d, o, st)
    PROVE  /\ e = [d EXCEPT !.orders = e.orders]
           /\ e.orders \in [Order -> OrderRow \cup {NULL}]
           /\ Generated(e) = Generated(d)
           /\ e.orders[o].status = st
           /\ e.orders[o].couponcode \in {d.orders[o].couponcode, NULL}
           /\ \A x \in Generated(d) \ {o} :
                  \/ e.orders[x] = d.orders[x]
                  \/ /\ d.orders[x].status \in OpenStatus
                     /\ e.orders[x].status = "failed" /\ e.orders[x].couponcode = NULL
<1> DEFINE d1 == [d EXCEPT !.orders[o].status = st]
           limit == Pricing[d.orders[o].productid].purchaselimit
           bought == SamePurchase(d1, o) \cap OrdersIn(d1, PurchasedStatus \cup {"uncommisioned"})
           crowded == IF /\ StatusOf(d, o) \in OpenStatus /\ st \in PurchasedStatus
                         /\ LimitReached(limit, Cardinality(bought))
                      THEN (SamePurchase(d1, o) \cap OrdersIn(d1, OpenStatus)) \ {o}
                      ELSE {}
           died == IF st \in DeadStatus /\ st # StatusOf(d, o) THEN {o} ELSE {}
           orders1 == [d.orders EXCEPT ![o] = [@ EXCEPT !.status = st]]
           orders2 == [x \in Order |->
               IF x \in crowded THEN [orders1[x] EXCEPT !.status = "failed", !.couponcode = NULL]
               ELSE IF x \in died THEN [orders1[x] EXCEPT !.couponcode = NULL]
               ELSE orders1[x]]
<1>1. o \in Order /\ d.orders[o] \in OrderRow
  BY GeneratedRow
<1>2. d1 = [d EXCEPT !.orders = orders1] /\ d1.orders = orders1
  BY DEF Database
<1>3. e = [d EXCEPT !.orders = orders2] /\ e.orders = orders2
  <2> HIDE DEF orders1, crowded, died
  <2>1. e = [d1 EXCEPT !.orders = orders2]
    BY <1>2 DEF SetStatus, crowded, died, Database
  <2> QED
    BY <2>1, <1>2 DEF Database
<1>4. \A x \in crowded : /\ x \in Generated(d) \ {o}
                         /\ d.orders[x].status \in OpenStatus /\ orders1[x] = d.orders[x]
  <2>1. \A x \in crowded : x \in Order /\ x # o /\ orders1[x] # NULL
                           /\ orders1[x].status \in OpenStatus
    BY <1>2 DEF SamePurchase, OrdersIn, StatusOf, Generated
  <2> QED
    BY <2>1 DEF Generated, Database
<1>5. orders1[o] \in OrderRow /\ orders1[o] = [d.orders[o] EXCEPT !.status = st]
  BY <1>1 DEF OrderRow, Database
<1>6. \A x \in Order \ {o} : orders1[x] = d.orders[x]
  BY DEF Database
<1>7. \A r \in OrderRow : /\ [r EXCEPT !.status = "failed", !.couponcode = NULL] \in OrderRow
                          /\ [r EXCEPT !.couponcode = NULL] \in OrderRow
  BY DEF OrderRow, Status, FinalStatus
<1> HIDE DEF crowded, died, orders1
<1>8. \A x \in Order : orders2[x] \in OrderRow \cup {NULL} /\ (orders2[x] = NULL <=> d.orders[x] = NULL)
  <2> TAKE x \in Order
  <2>1. CASE x \in crowded
    <3>1. d.orders[x] \in OrderRow
      BY <2>1, <1>4, GeneratedRow
    <3>2. orders2[x] = [d.orders[x] EXCEPT !.status = "failed", !.couponcode = NULL]
      BY <2>1, <1>4
    <3> HIDE DEF orders2
    <3> QED
      BY <3>1, <3>2, <1>7, NullIsNoOrder
  <2>2. CASE x = o
    BY <2>2, <1>1, <1>4, <1>5, <1>7, NullIsNoOrder DEF died
  <2>3. CASE x \notin crowded /\ x # o
    BY <2>3, <1>6 DEF died, Database
  <2> QED
    BY <2>1, <2>2, <2>3
<1>9. orders2[o].status = st /\ orders2[o].couponcode \in {d.orders[o].couponcode, NULL}
  BY <1>1, <1>4, <1>5 DEF OrderRow
<1>10. ASSUME NEW x \in Generated(d) \ {o}
       PROVE  \/ orders2[x] = d.orders[x]
              \/ /\ d.orders[x].status \in OpenStatus
                 /\ orders2[x].status = "failed" /\ orders2[x].couponcode = NULL
  <2>1. d.orders[x] \in OrderRow /\ x \in Order
    BY GeneratedRow
  <2>2. CASE x \in crowded
    BY <2>1, <2>2, <1>4 DEF OrderRow
  <2>3. CASE x \notin crowded
    BY <2>1, <2>3, <1>6 DEF died
  <2> QED
    BY <2>2, <2>3
<1> QED
  <2>1. Generated(e) = Generated(d)
    BY <1>3, <1>8 DEF Generated
  <2>2. orders2 \in [Order -> OrderRow \cup {NULL}]
    BY <1>8
  <2> HIDE DEF orders2
  <2> QED
    BY <2>1, <2>2, <1>3, <1>9, <1>10

\* SetStatus touches nothing but the orders.
LEMMA SetStatusType ==
    ASSUME NEW d \in Database, NEW o \in Generated(d), NEW st \in Status
    PROVE  LET e == SetStatus(d, o, st)
           IN  e \in Database /\ e.activity = d.activity /\ e.delivery = d.delivery
<1> DEFINE e == SetStatus(d, o, st)
<1>1. e = [d EXCEPT !.orders = e.orders] /\ e.orders \in [Order -> OrderRow \cup {NULL}]
  BY SetStatusOrders
<1> HIDE DEF e
<1>2. e \in Database /\ e.activity = d.activity /\ e.delivery = d.delivery
  BY <1>1 DEF Database
<1> QED
  BY <1>2 DEF e

-----------------------------------------------------------------------------
(***************************************************************************)
(* Payment                                                                 *)
(***************************************************************************)

\* The student and the product of a generated order exist, and so does the account
\* above the student.
LEMMA StudentOfOrder ==
    ASSUME NEW d \in Database, NEW o \in Generated(d)
    PROVE  /\ d.orders[o].studentid \in Student /\ d.orders[o].productid \in Product
           /\ Upstream[d.orders[o].studentid] \in Account
           /\ HasDirectAgent(d.orders[o].studentid)
                  => Upstream[d.orders[o].studentid] \in Agent
<1>1. d.orders[o].studentid \in Student /\ d.orders[o].productid \in Product
  BY GeneratedRow DEF OrderRow
<1> QED
  BY <1>1, TreeAssumption DEF HasDirectAgent, Account

\* Granting what the product of an order brings touches neither orders nor money.
LEMMA EntitleType ==
    ASSUME NEW d \in Database, NEW o \in Generated(d), today \in Int
    PROVE  LET e == Entitle(d, o)
           IN  /\ e \in Database
               /\ e.orders = d.orders /\ e.activity = d.activity
               /\ \A x \in Order \ {o} : e.delivery[x] = d.delivery[x]
<1> DEFINE s == d.orders[o].studentid
           p == Pricing[d.orders[o].productid]
           extended == [t \in EntitlementType |->
               IF p.validdays[t] = 0 THEN d.entitlement[s][t]
               ELSE ExtendedTo(d.entitlement[s][t], p.validdays[t])]
           assigned == IF /\ VideoCourse \in EntitlementType /\ p.validdays[VideoCourse] > 0
                          /\ Cardinality(d.qianliao) < QianliaoPool
                       THEN {s} ELSE {}
           status == IF p.delivery > 0 THEN "PENDING" ELSE d.delivery[o]
<1>1. s \in Student /\ p.validdays \in [EntitlementType -> Nat] /\ o \in Order
  BY StudentOfOrder, GeneratedRow, PricingAssumption
<1>2. extended \in [EntitlementType -> Int]
  <2>1. \A t \in EntitlementType : d.entitlement[s][t] \in Int
    BY <1>1 DEF Database
  <2>2. \A t \in EntitlementType : p.validdays[t] \in Int
    BY <1>1
  <2> HIDE DEF p, s
  <2> QED
    BY <2>1, <2>2 DEF ExtendedTo
<1>3. assigned \subseteq Student
  BY <1>1
<1>4. status \in DeliveryStatus
  BY <1>1 DEF Database, DeliveryStatus
<1>5. Entitle(d, o) = [d EXCEPT !.entitlement = [@ EXCEPT ![s] = extended],
                                !.qianliao = @ \cup assigned,
                                !.delivery = [@ EXCEPT ![o] = status]]
  BY DEF Entitle, Database
<1> DEFINE e == [d EXCEPT !.entitlement = [@ EXCEPT ![s] = extended],
                          !.qianliao = @ \cup assigned,
                          !.delivery = [@ EXCEPT ![o] = status]]
<1> HIDE DEF s, p, extended, assigned, status
<1>6. /\ e.entitlement \in [Student -> [EntitlementType -> Int]]
      /\ e.qianliao \in SUBSET Student
      /\ e.delivery \in [Order -> DeliveryStatus]
      /\ \A x \in Order \ {o} : e.delivery[x] = d.delivery[x]
  BY <1>1, <1>2, <1>3, <1>4 DEF Database
<1>7. e = [d EXCEPT !.entitlement = e.entitlement, !.qianliao = e.qianliao, !.delivery = e.delivery]
  BY DEF Database
<1>8. e \in Database /\ e.orders = d.orders /\ e.activity = d.activity
  <2> HIDE DEF e
  <2> QED
    BY <1>6, <1>7 DEF Database
<1> QED
  BY <1>5, <1>6, <1>8

\* What a payment inserts, source by source.
LEMMA PayoutRowsShape ==
    ASSUME NEW d \in Database, NEW o \in Generated(d), NEW r \in PayoutRows(d, o)
    PROVE  LET order == d.orders[o]
               p == Pricing[order.productid]
               u == Upstream[order.studentid]
               Paid(a, src, amount) ==
                   [orderid |-> o, accountid |-> a, source |-> src, amount |-> amount,
                    mark |-> "plain"]
           IN  /\ order.price # 0 /\ HasDirectAgent(order.studentid)
               /\ \/ /\ order.price # NULL
                     /\ r = Paid(u, "commission", order.price - p.purchase[AccountType[u]])
                  \/ /\ order.couponcode # NULL
                     /\ r = Paid(CouponTerms[order.couponcode].agentid, "conversion", p.conversion)
                  \/ r \in {Paid(u, "earnest", p.earnest), Paid(u, "earnestDebt", -p.earnest)}
                  \/ order.price # NULL /\ r = Paid(u, "fee", -WechatFee(order.price))
                  \/ \E a \in Agent :
                        r \in {Paid(a, "crossAward", p.direct[AccountType[a]]),
                              Paid(a, "crossEarnest", p.earnest),
                              Paid(a, "crossEarnestDebt", -p.earnest),
                              Paid(a, "extensionL", p.extension),
                              Paid(a, "extensionR", p.extension)}
BY DEF PayoutRows

\* Every row a payment inserts is a live award of the order itself.
LEMMA PayoutRowsType ==
    ASSUME NEW d \in Database, NEW o \in Generated(d)
    PROVE  PayoutRows(d, o) \subseteq
               {r \in Row : r.orderid = o /\ r.mark = "plain" /\ r.source # "delivery"}
<1> SUFFICES ASSUME NEW r \in PayoutRows(d, o)
             PROVE  r \in Row /\ r.orderid = o /\ r.mark = "plain" /\ r.source # "delivery"
  OBVIOUS
<1> DEFINE order == d.orders[o]
           p == Pricing[order.productid]
           u == Upstream[order.studentid]
           Paid(a, src, amount) ==
               [orderid |-> o, accountid |-> a, source |-> src, amount |-> amount,
                mark |-> "plain"]
           agent == CouponTerms[order.couponcode].agentid
           award == order.price - p.purchase[AccountType[u]]
           fee == -WechatFee(order.price)
<1>1. /\ order \in OrderRow /\ o \in Order
      /\ order.price \in Nat \cup {NULL} /\ order.couponcode \in Coupon \cup {NULL}
  BY GeneratedRow DEF OrderRow
<1>2. /\ p.purchase \in [AgentType \cup {"HEAD_QUARTER"} -> Nat] /\ p.direct \in [AgentType -> Nat]
      /\ p.conversion \in Nat /\ p.extension \in Nat /\ p.earnest \in Nat
      /\ \A c \in Coupon : CouponTerms[c].agentid \in Account
  BY StudentOfOrder, PricingAssumption
<1>3. u \in Agent /\ Agent \subseteq Account /\ \A a \in Agent : AccountType[a] \in AgentType
  BY PayoutRowsShape, StudentOfOrder, TreeAssumption DEF Account
<1>4. /\ order.price # NULL => award \in Int /\ fee \in Int
      /\ order.couponcode # NULL => agent \in Account
      /\ \A a \in Agent : p.direct[AccountType[a]] \in Int
      /\ p.conversion \in Int /\ p.extension \in Int /\ p.earnest \in Int /\ -p.earnest \in Int
  <2>1. p.purchase[AccountType[u]] \in Nat /\ \A a \in Agent : p.direct[AccountType[a]] \in Int
    BY <1>2, <1>3
  <2>2. ASSUME order.price # NULL PROVE award \in Int /\ fee \in Int
    <3>1. order.price \in Nat
      BY <1>1, <2>2
    <3> HIDE DEF order, p, u
    <3> QED
      BY <3>1, <2>1 DEF WechatFee
  <2> HIDE DEF order, p, u
  <2>3. order.couponcode # NULL => agent \in Account
    BY <1>1, <1>2
  <2> HIDE DEF award, fee
  <2> QED
    BY <2>1, <2>2, <2>3, <1>2
<1>5. \/ order.price # NULL /\ r = Paid(u, "commission", award)
      \/ order.couponcode # NULL /\ r = Paid(agent, "conversion", p.conversion)
      \/ r \in {Paid(u, "earnest", p.earnest), Paid(u, "earnestDebt", -p.earnest)}
      \/ order.price # NULL /\ r = Paid(u, "fee", fee)
      \/ \E a \in Agent :
            r \in {Paid(a, "crossAward", p.direct[AccountType[a]]),
                  Paid(a, "crossEarnest", p.earnest), Paid(a, "crossEarnestDebt", -p.earnest),
                  Paid(a, "extensionL", p.extension), Paid(a, "extensionR", p.extension)}
  BY PayoutRowsShape
<1> HIDE DEF order, p, u, agent, award, fee
<1>6. \E a \in Account, src \in Source \ {"delivery"}, amount \in Int : r = Paid(a, src, amount)
  BY <1>3, <1>4, <1>5 DEF Source
<1> QED
  BY <1>1, <1>6 DEF Row, Source

\* A payment inserts at most one row for an account and a source.
LEMMA PayoutRowsOnce ==
    ASSUME NEW d \in Database, NEW o \in Generated(d),
           NEW r1 \in PayoutRows(d, o), NEW r2 \in PayoutRows(d, o),
           r1.accountid = r2.accountid, r1.source = r2.source
    PROVE  r1 = r2
<1> DEFINE order == d.orders[o]
           p == Pricing[order.productid]
           u == Upstream[order.studentid]
           Amount(a, src) ==
               CASE src = "commission" -> order.price - p.purchase[AccountType[u]]
                 [] src = "conversion" -> p.conversion
                 [] src = "fee" -> -WechatFee(order.price)
                 [] src \in {"earnestDebt", "crossEarnestDebt"} -> -p.earnest
                 [] src = "crossAward" -> p.direct[AccountType[a]]
                 [] src \in {"extensionL", "extensionR"} -> p.extension
                 [] OTHER -> p.earnest
<1>1. \A r \in PayoutRows(d, o) :
         \E a, src : r = [orderid |-> o, accountid |-> a, source |-> src,
                         amount |-> Amount(a, src), mark |-> "plain"]
  <2> TAKE r \in PayoutRows(d, o)
  <2> DEFINE Paid(a, src, amount) ==
                 [orderid |-> o, accountid |-> a, source |-> src, amount |-> amount,
                  mark |-> "plain"]
  <2>1. \/ r = Paid(u, "commission", order.price - p.purchase[AccountType[u]])
        \/ r = Paid(CouponTerms[order.couponcode].agentid, "conversion", p.conversion)
        \/ r \in {Paid(u, "earnest", p.earnest), Paid(u, "earnestDebt", -p.earnest)}
        \/ r = Paid(u, "fee", -WechatFee(order.price))
        \/ \E a \in Agent :
              r \in {Paid(a, "crossAward", p.direct[AccountType[a]]),
                    Paid(a, "crossEarnest", p.earnest), Paid(a, "crossEarnestDebt", -p.earnest),
                    Paid(a, "extensionL", p.extension), Paid(a, "extensionR", p.extension)}
    BY PayoutRowsShape
  <2> HIDE DEF order, p, u
  <2>2. \E a, src : r = Paid(a, src, Amount(a, src))
    BY <2>1
  <2> QED
    BY <2>2
<1> HIDE DEF Amount
<1> QED
  BY <1>1

\* Moving money between the triple balances keeps numbers in the columns.
LEMMA UnlockType ==
    ASSUME NEW account \in [Account -> [Column -> Int]], NEW a \in Account, NEW amount \in Int
    PROVE  Unlock(account, a, amount) \in [Account -> [Column -> Int]]
<1> DEFINE row == account[a]
           row1 == [row EXCEPT !["balancetriple"] = row["balancetriple"] + amount]
           row2 == [row1 EXCEPT !["balancetriplelock"] = row1["balancetriplelock"] - amount]
<1>1. row \in [Column -> Int]
  OBVIOUS
<1>2. Unlock(account, a, amount) = [account EXCEPT ![a] = row2]
  BY <1>1 DEF Unlock
<1> HIDE DEF row
<1>3. row1 \in [Column -> Int]
  BY <1>1 DEF Column
<1> HIDE DEF row1
<1>4. row2 \in [Column -> Int]
  BY <1>3 DEF Column
<1> HIDE DEF row2
<1> QED
  BY <1>2, <1>4

\* So does logging a change, whatever order it is logged under.
LEMMA LoggedType ==
    ASSUME NEW history \in [Linked -> [Order -> Int]], NEW a \in Linked, NEW o, NEW delta \in Int
    PROVE  Logged(history, a, o, delta) \in [Linked -> [Order -> Int]]
<1> DEFINE log == history[a]
           log1 == [log EXCEPT ![o] = log[o] + delta]
<1>1. log \in [Order -> Int]
  OBVIOUS
<1>2. Logged(history, a, o, delta) = [history EXCEPT ![a] = log1]
  BY DEF Logged
<1> HIDE DEF log
<1>3. \A x \in Order : log[x] \in Int /\ (x = o => log[o] + delta \in Int)
  BY <1>1
<1>4. log1 = [x \in Order |-> IF x = o THEN log[o] + delta ELSE log[x]]
  BY <1>1
<1> HIDE DEF log1
<1>5. log1 \in [Order -> Int]
  BY <1>3, <1>4
<1> QED
  BY <1>2, <1>5

\* A change of an award moves money between the triple balances and nothing else.
LEMMA MoveAwardType ==
    ASSUME NEW d \in Database, NEW a \in Linked, NEW delta \in Int
    PROVE  LET e == MoveAward(d, a, delta)
           IN  /\ e \in Database
               /\ e.orders = d.orders /\ e.activity = d.activity /\ e.delivery = d.delivery
<1> DEFINE old == d.award[a].pendingreturn
           freed == Freed(old, old + delta, AwardAmount[a])
           award == [d.award EXCEPT ![a].pendingreturn = old + delta]
           history == Logged(d.awardhistory, a, d.award[a].lastorderid, delta)
           account == Unlock(d.account, Upstream[a], freed)
           e == MoveAward(d, a, delta)
<1>1. old \in Int /\ AwardAmount[a] \in Int /\ Upstream[a] \in Account
  BY OpeningAssumption, TreeAssumption DEF Database
<1>2. freed \in Int
  <2> HIDE DEF old
  <2> QED
    BY <1>1 DEF Freed
<1>3. account \in [Account -> [Column -> Int]]
  BY <1>1, <1>2, UnlockType DEF Database
<1>4. award \in [Linked -> [pendingreturn : Int, lastorderid : Order \cup {NULL}]]
  <2>1. d.award \in [Linked -> [pendingreturn : Int, lastorderid : Order \cup {NULL}]]
    BY DEF Database
  <2> HIDE DEF old
  <2> QED
    BY <2>1, <1>1
<1>5. history \in [Linked -> [Order -> Int]]
  BY LoggedType DEF Database
<1>6. e = [d EXCEPT !.award = award, !.awardhistory = history, !.account = account]
  BY DEF MoveAward, Database
<1> HIDE DEF account, award, history, e
<1>7. e \in Database /\ e.orders = d.orders /\ e.activity = d.activity /\ e.delivery = d.delivery
  BY <1>3, <1>4, <1>5, <1>6 DEF Database
<1> QED
  BY <1>7 DEF e

\* The redundant copy of the extension awards has its type.
LEMMA PartitionAwardsType ==
    ASSUME NEW R, R \subseteq Row
    PROVE  PartitionAwards(R) \subseteq PartitionAward
BY DEF PartitionAwards, PartitionAward, Row

\* A unit of stock that is taken or given back.
LEMMA StockType ==
    ASSUME NEW d \in Database, NEW a \in Agent, NEW p \in Product, NEW n \in Int,
           NEW e, e = [d EXCEPT !.inventory[a][p] = @ + n]
    PROVE  /\ e \in Database /\ e.orders = d.orders /\ e.activity = d.activity
           /\ e.delivery = d.delivery /\ e.partitionaward = d.partitionaward
           /\ e.account = d.account
<1> DEFINE stock == d.inventory[a]
           stock1 == [stock EXCEPT ![p] = stock[p] + n]
           inventory == [d.inventory EXCEPT ![a] = stock1]
<1>1. inventory \in [Agent -> [Product -> Int]]
  BY DEF Database
<1>2. e = [d EXCEPT !.inventory = inventory]
  BY DEF Database
<1> HIDE DEF inventory
<1> QED
  BY <1>1, <1>2 DEF Database

\* The settlement of an order adds its payout rows and changes no order.
LEMMA DistributeType ==
    ASSUME NEW d \in Database, NEW o \in Generated(d)
    PROVE  LET e == Distribute(d, o)
           IN  /\ e \in Database
               /\ e.orders = d.orders /\ e.delivery = d.delivery
               /\ e.activity = d.activity \cup PayoutRows(d, o)
<1> DEFINE s == d.orders[o].studentid
           u == Upstream[s]
           pid == d.orders[o].productid
           R == PayoutRows(d, o)
           taken == IF TakesStock(d, o) THEN [d EXCEPT !.inventory[u][pid] = @ - 1] ELSE d
           posted == [taken EXCEPT !.account = Credit(@, R),
                                   !.activity = @ \cup R,
                                   !.partitionaward = @ \cup PartitionAwards(R)]
<1>1. R \subseteq Row /\ \A r \in R : r.amount \in Int
  BY PayoutRowsType DEF Row
<1>2. /\ taken \in Database /\ taken.orders = d.orders /\ taken.delivery = d.delivery
      /\ taken.activity = d.activity
  <2>1. CASE TakesStock(d, o)
    <3>1. u \in Agent /\ pid \in Product
      BY <2>1, StudentOfOrder DEF TakesStock
    <3>2. taken = [d EXCEPT !.inventory[u][pid] = @ + (-1)]
      <4>1. d.inventory[u][pid] \in Int
        BY <3>1 DEF Database
      <4> HIDE DEF u, pid
      <4> QED
        BY <2>1, <3>1, <4>1
    <3>3. -1 \in Int
      OBVIOUS
    <3> HIDE DEF taken, u, pid
    <3> QED
      BY <3>1, <3>2, <3>3, StockType
  <2>2. CASE ~ TakesStock(d, o)
    BY <2>2
  <2> QED
    BY <2>1, <2>2
<1> HIDE DEF taken, R
<1>3. /\ posted \in Database /\ posted.orders = d.orders /\ posted.delivery = d.delivery
      /\ posted.activity = d.activity \cup R
  <2>1. /\ Credit(taken.account, R) \in [Account -> [Column -> Int]]
        /\ taken.activity \cup R \in SUBSET Row
        /\ taken.partitionaward \cup PartitionAwards(R) \in SUBSET PartitionAward
    BY <1>1, <1>2, LedgerType, PartitionAwardsType DEF Database
  <2> QED
    BY <1>2, <2>1 DEF Database
<1> HIDE DEF posted
<1>4. Distribute(d, o) = UnlockTriple(posted, o, R)
  BY DEF Distribute, taken, posted, R
<1>5. CASE u \in Linked /\ Posted(R, u, "earnest") # 0
  <2> DEFINE named == [posted EXCEPT !.award[u].lastorderid = o]
             amount == Posted(R, u, "earnest")
  <2>1. o \in Order /\ amount \in Int
    BY <1>1, GeneratedRow, PostedInt
  <2>2. /\ named \in Database /\ named.orders = d.orders /\ named.delivery = d.delivery
        /\ named.activity = d.activity \cup R
    <3> DEFINE award == [posted.award EXCEPT ![u].lastorderid = o]
    <3>1. posted.award \in [Linked -> [pendingreturn : Int, lastorderid : Order \cup {NULL}]]
      BY <1>3 DEF Database
    <3>2. award \in [Linked -> [pendingreturn : Int, lastorderid : Order \cup {NULL}]]
      BY <1>5, <2>1, <3>1
    <3>3. named = [posted EXCEPT !.award = award]
      BY <1>3 DEF Database
    <3> HIDE DEF award, named
    <3> QED
      BY <1>3, <3>2, <3>3 DEF Database
  <2>3. UnlockTriple(posted, o, R) = MoveAward(named, u, -amount)
    BY <1>3, <1>5 DEF UnlockTriple
  <2>4. -amount \in Int
    BY <2>1
  <2> HIDE DEF named, amount
  <2> QED
    BY <1>4, <1>5, <2>2, <2>3, <2>4, MoveAwardType DEF R
<1>6. CASE ~ (u \in Linked /\ Posted(R, u, "earnest") # 0)
  BY <1>3, <1>4, <1>6 DEF UnlockTriple, R
<1> QED
  BY <1>5, <1>6

\* The log of an update of o changes nothing else.
Gratis(d, o) == IF /\ d.orders[o].paymentmethod \in InventoryMethod
                   /\ d.orders[o].price = 0
                THEN {o} ELSE {}

LEMMA AuditedType ==
    ASSUME NEW d \in Database, NEW o \in Generated(d), NEW e, e = Audited(d, o)
    PROVE  /\ e \in Database /\ e = [d EXCEPT !.auditlog = d.auditlog \cup Gratis(d, o)]
           /\ e.orders = d.orders /\ e.delivery = d.delivery /\ e.activity = d.activity
           /\ e.account = d.account /\ e.partitionaward = d.partitionaward
           /\ e.award = d.award /\ e.awardhistory = d.awardhistory
           /\ e.inventory = d.inventory /\ e.entitlement = d.entitlement
           /\ e.auditlog = d.auditlog \cup Gratis(d, o)
<1> DEFINE log == d.auditlog \cup Gratis(d, o)
<1>1. log \in SUBSET Order
  BY GeneratedRow DEF Gratis, Database
<1>2. e = [d EXCEPT !.auditlog = log]
  BY DEF Audited, Gratis, Database
<1> HIDE DEF log
<1>3. /\ e \in Database
      /\ e.orders = d.orders /\ e.delivery = d.delivery /\ e.activity = d.activity
      /\ e.account = d.account /\ e.partitionaward = d.partitionaward
      /\ e.award = d.award /\ e.awardhistory = d.awardhistory
      /\ e.inventory = d.inventory /\ e.entitlement = d.entitlement
      /\ e.auditlog = log
  BY <1>1, <1>2 DEF Database
<1> QED
  BY <1>2, <1>3 DEF log

\* The orders of e are those of d, but for o and for open orders that failed.
OthersKept(d, e, o) ==
    /\ Generated(e) = Generated(d)
    /\ \A x \in Generated(d) \ {o} :
           \/ e.orders[x] = d.orders[x]
           \/ /\ d.orders[x].status \in OpenStatus
              /\ e.orders[x].status = "failed" /\ e.orders[x].couponcode = NULL
    /\ \A x \in Order \ {o} : e.delivery[x] = d.delivery[x]

\* A payment ends in status paid or settled, and adds its payout rows or nothing.
LEMMA PayEffect ==
    ASSUME NEW d \in Database, NEW o \in Generated(d), NEW force, today \in Int,
           NEW e, e = Pay(d, o, force)
    PROVE  /\ e \in Database /\ OthersKept(d, e, o)
           /\ e.orders[o].status \in PurchasedStatus
           /\ \E g \in Database :
                  /\ g.orders = d.orders
                  /\ e.activity \in {d.activity, d.activity \cup PayoutRows(g, o)}
<1> DEFINE granted == IF StatusOf(d, o) = "paid" THEN d ELSE Entitle(d, o)
           paid == IF Distributes(d, o, force) THEN Distribute(granted, o) ELSE granted
           settled == Audited(paid, o)
           st == PaidStatus(d.orders[o].paymentmethod, force)
<1>1. /\ granted \in Database /\ granted.orders = d.orders /\ granted.activity = d.activity
      /\ \A x \in Order \ {o} : granted.delivery[x] = d.delivery[x]
  BY EntitleType
<1> HIDE DEF granted
<1>2. o \in Generated(granted)
  BY <1>1 DEF Generated
<1>3. /\ settled \in Database /\ settled.orders = d.orders
      /\ settled.delivery = granted.delivery
      /\ settled.activity \in {d.activity, d.activity \cup PayoutRows(granted, o)}
  <2>1. /\ paid \in Database /\ paid.orders = d.orders /\ paid.delivery = granted.delivery
        /\ paid.activity \in {d.activity, d.activity \cup PayoutRows(granted, o)}
    BY <1>1, <1>2, DistributeType
  <2> HIDE DEF paid
  <2>2. o \in Generated(paid)
    BY <2>1 DEF Generated
  <2> QED
    BY <2>1, <2>2, AuditedType
<1> HIDE DEF settled, paid
<1>4. o \in Generated(settled) /\ Generated(settled) = Generated(d)
  BY <1>3 DEF Generated
<1>5. st \in PurchasedStatus /\ st \in Status
  BY DEF PaidStatus, PurchasedStatus, Status, FinalStatus
<1> HIDE DEF st
<1>6. e = SetStatus(settled, o, st)
  BY DEF Pay, granted, paid, settled, st
<1>7. e \in Database /\ e.activity = settled.activity /\ e.delivery = settled.delivery
  BY <1>3, <1>4, <1>5, <1>6, SetStatusType
<1>8. /\ Generated(e) = Generated(settled) /\ e.orders[o].status = st
      /\ \A x \in Generated(settled) \ {o} :
             \/ e.orders[x] = settled.orders[x]
             \/ /\ settled.orders[x].status \in OpenStatus
                /\ e.orders[x].status = "failed" /\ e.orders[x].couponcode = NULL
  BY <1>3, <1>4, <1>5, <1>6, SetStatusOrders
<1> QED
  BY <1>1, <1>3, <1>4, <1>5, <1>7, <1>8 DEF OthersKept

-----------------------------------------------------------------------------
(***************************************************************************)
(* Revocation                                                              *)
(***************************************************************************)

\* Paying a delivery partner adds the one row of it and changes no order.
LEMMA PostDeliveryType ==
    ASSUME NEW d \in Database, NEW o \in Generated(d), NEW amount \in Int,
           NEW mark \in {"plain", "reversal"}, NEW st \in DeliveryStatus,
           NEW e, e = PostDelivery(d, o, amount, mark, st)
    PROVE  /\ e \in Database
           /\ e.orders = d.orders
           /\ e.delivery = [d.delivery EXCEPT ![o] = st]
           /\ e.activity = d.activity \cup
                  {[orderid |-> o, source |-> "delivery", amount |-> amount, mark |-> mark,
                    accountid |-> Pricing[d.orders[o].productid].deliveryaccount]}
<1> DEFINE R == {[orderid |-> o, source |-> "delivery", amount |-> amount, mark |-> mark,
                  accountid |-> Pricing[d.orders[o].productid].deliveryaccount]}
<1>1. R \subseteq Row /\ \A r \in R : r.amount \in Int
  <2>1. Pricing[d.orders[o].productid].deliveryaccount \in Account
    BY StudentOfOrder, PricingAssumption
  <2> QED
    BY <2>1, GeneratedRow DEF Row, Source
<1>2. e = [d EXCEPT !.account = Credit(@, R), !.activity = @ \cup R,
                    !.delivery = [@ EXCEPT ![o] = st]]
  BY DEF PostDelivery, Database
<1> HIDE DEF R
<1>3. /\ Credit(d.account, R) \in [Account -> [Column -> Int]]
      /\ [d.delivery EXCEPT ![o] = st] \in [Order -> DeliveryStatus]
  BY <1>1, LedgerType DEF Database
<1>4. /\ e \in Database /\ e.orders = d.orders /\ e.activity = d.activity \cup R
      /\ e.delivery = [d.delivery EXCEPT ![o] = st]
  BY <1>1, <1>2, <1>3 DEF Database
<1> QED
  BY <1>4 DEF R

\* A row marked 【已撤销】, and the revoked row that a reversal undid.
Revoked(r) == [r EXCEPT !.mark = "revoked"]
Undone(r) == [r EXCEPT !.mark = "revoked", !.amount = -r.amount]

\* Marking a row and undoing its reversal give the same row.
LEMMA Opposites ==
    ASSUME NEW r \in Row
    PROVE  /\ Revoked(r) \in Row /\ Reversal(r) \in Row
           /\ Revoked(r).orderid = r.orderid /\ Revoked(r).accountid = r.accountid
           /\ Revoked(r).source = r.source /\ Revoked(r).mark = "revoked"
           /\ Reversal(r).orderid = r.orderid /\ Reversal(r).source = r.source
           /\ Reversal(r).mark = "reversal" /\ Undone(r).mark = "revoked"
           /\ Reversal(Revoked(r)) = Reversal(r) /\ Undone(Reversal(r)) = Revoked(r)
<1>1. PICK o \in Order, a \in Account, src \in Source, n \in Int,
           k \in {"plain", "revoked", "reversal"} :
          r = [orderid |-> o, accountid |-> a, source |-> src, amount |-> n, mark |-> k]
  BY DEF Row
<1> DEFINE Copy(amount, mark) == [orderid |-> o, accountid |-> a, source |-> src,
                                  amount |-> amount, mark |-> mark]
<1>2. PICK m \in Int : m = -n /\ n = -m
  <2>1. -n \in Int /\ n = -(-n)
    OBVIOUS
  <2> QED
    BY <2>1
<1>4. r = Copy(n, k)
  BY <1>1
<1>5. Revoked(r) = Copy(n, "revoked")
  BY <1>1 DEF Revoked
<1>6. ASSUME NEW x \in Int, NEW y \in Int, y = -x, NEW k1
      PROVE  Reversal(Copy(x, k1)) = Copy(y, "reversal") /\ Undone(Copy(x, k1)) = Copy(y, "revoked")
  <2> DEFINE c == Copy(x, k1)
  <2>1. -c.amount = y
    BY <1>6
  <2>2. c = [orderid |-> o, accountid |-> a, source |-> src, amount |-> x, mark |-> k1]
    OBVIOUS
  <2> HIDE DEF c
  <2>4. ASSUME NEW k2 PROVE [c EXCEPT !.mark = k2, !.amount = y] = Copy(y, k2)
    <3> DEFINE c2 == Copy(x, k2)
    <3>1. [c EXCEPT !.mark = k2] = c2
      BY <2>2
    <3>2. [c2 EXCEPT !.amount = y] = Copy(y, k2)
      OBVIOUS
    <3> HIDE DEF c2
    <3> QED
      BY <3>1, <3>2
  <2>3. /\ Reversal(c) = [c EXCEPT !.mark = "reversal", !.amount = y]
        /\ Undone(c) = [c EXCEPT !.mark = "revoked", !.amount = y]
    BY <2>1 DEF Reversal, Undone
  <2> QED
    BY <2>3, <2>4 DEF c
<1> HIDE DEF Copy
<1>7. /\ \A k1 : Reversal(Copy(n, k1)) = Copy(m, "reversal")
      /\ \A k1 : Undone(Copy(n, k1)) = Copy(m, "revoked")
      /\ \A k1 : Undone(Copy(m, k1)) = Copy(n, "revoked")
  BY <1>2, <1>6
<1>8. Reversal(Revoked(r)) = Reversal(r) /\ Undone(Reversal(r)) = Revoked(r)
  BY <1>4, <1>5, <1>6, <1>7
<1>9. /\ Revoked(r) = Copy(n, "revoked") /\ Reversal(r) = Copy(m, "reversal")
      /\ Undone(r) = Copy(m, "revoked")
  BY <1>4, <1>5, <1>6, <1>7
<1> QED
  BY <1>1, <1>2, <1>4, <1>8, <1>9 DEF Row, Copy

\* The rows of d after its live awards for o are revoked.
ReversedActivity(d, o) ==
    (d.activity \ RevocableRows(d, o))
        \cup {Revoked(r) : r \in RevocableRows(d, o)}
        \cup {Reversal(r) : r \in RevocableRows(d, o)}

\* Undoing the live awards of an order keeps the types.
LEMMA ReverseRowsType ==
    ASSUME NEW d \in Database, NEW o \in Generated(d), NEW e, e = ReverseRows(d, o)
    PROVE  /\ e \in Database
           /\ e.orders = d.orders /\ e.delivery = d.delivery
           /\ e.activity = ReversedActivity(d, o)
<1> DEFINE live == RevocableRows(d, o)
<1>1. live \subseteq Row /\ \A r \in live : r.amount \in Int
  BY DEF RevocableRows, RowsOf, Database, Row
<1>2. ReversedActivity(d, o) \subseteq Row
  <2>1. \A r \in Row : Revoked(r) \in Row /\ Reversal(r) \in Row
    BY Opposites
  <2> QED
    BY <1>1, <2>1 DEF ReversedActivity, Database
<1>3. e = [d EXCEPT !.account = Debit(@, live), !.activity = ReversedActivity(d, o),
                    !.partitionaward = DropPartitionAwards(@, o)]
  BY DEF ReverseRows, ReversedActivity, Revoked, Database
<1>4. /\ Debit(d.account, live) \in [Account -> [Column -> Int]]
      /\ DropPartitionAwards(d.partitionaward, o) \in SUBSET PartitionAward
  BY <1>1, LedgerType DEF Database, DropPartitionAwards
<1> HIDE DEF live
<1> QED
  BY <1>2, <1>3, <1>4 DEF Database

\* Rolling the award back moves money between the triple balances and nothing else.
LEMMA RollBackTripleType ==
    ASSUME NEW d \in Database, NEW o \in Generated(d), NEW e, e = RollBackTriple(d, o)
    PROVE  /\ e \in Database
           /\ e.orders = d.orders /\ e.activity = d.activity /\ e.delivery = d.delivery
<1> DEFINE u == Upstream[d.orders[o].studentid]
           delta == d.awardhistory[u][o]
<1>1. CASE u \in Linked /\ delta # 0
  <2>1. delta \in Int
    <3>1. o \in Order /\ d.awardhistory \in [Linked -> [Order -> Int]]
      BY GeneratedRow DEF Database
    <3> HIDE DEF u
    <3> QED
      BY <1>1, <3>1
  <2>2. e = MoveAward(d, u, delta)
    BY <1>1 DEF RollBackTriple
  <2> HIDE DEF u, delta
  <2> QED
    BY <1>1, <2>1, <2>2, MoveAwardType
<1>2. CASE ~ (u \in Linked /\ delta # 0)
  BY <1>2 DEF RollBackTriple
<1> QED
  BY <1>1, <1>2

\* Withdrawing what an order brought frees its coupon.
LEMMA WithdrawEntitlementType ==
    ASSUME NEW d \in Database, NEW o \in Generated(d), NEW e, e = WithdrawEntitlement(d, o)
    PROVE  /\ e \in Database
           /\ e.orders = [d.orders EXCEPT ![o] = [@ EXCEPT !.couponcode = NULL]]
           /\ e.activity = d.activity /\ e.delivery = d.delivery
<1> DEFINE order == d.orders[o]
           s == order.studentid
           p == order.productid
           u == Upstream[s]
           days == [t \in EntitlementType |-> d.entitlement[s][t] - Pricing[p].validdays[t]]
           entitlement == [d.entitlement EXCEPT ![s] = days]
           orders == [d.orders EXCEPT ![o] = [@ EXCEPT !.couponcode = NULL]]
           d1 == [d EXCEPT !.entitlement = entitlement, !.orders = orders]
           back == order.paymentmethod \in InventoryMethod /\ HasDirectAgent(s)
<1>1. /\ o \in Order /\ order \in OrderRow /\ s \in Student /\ p \in Product
      /\ Pricing[p].validdays \in [EntitlementType -> Nat]
  BY GeneratedRow, StudentOfOrder, PricingAssumption
<1>2. entitlement \in [Student -> [EntitlementType -> Int]]
  <2>1. days \in [EntitlementType -> Int]
    <3>1. /\ d.entitlement[s] \in [EntitlementType -> Int]
          /\ d.entitlement \in [Student -> [EntitlementType -> Int]]
      BY <1>1 DEF Database
    <3> HIDE DEF s, p
    <3> QED
      BY <1>1, <3>1
  <2> HIDE DEF days
  <2> QED
    BY <1>1, <2>1 DEF Database
<1>3. orders \in [Order -> OrderRow \cup {NULL}]
  <2>1. [order EXCEPT !.couponcode = NULL] \in OrderRow
    BY <1>1 DEF OrderRow
  <2> QED
    BY <1>1, <2>1 DEF Database
<1>4. /\ d1 \in Database /\ d1.orders = orders /\ d1.activity = d.activity
      /\ d1.delivery = d.delivery
  <2> HIDE DEF entitlement, orders
  <2> QED
    BY <1>2, <1>3 DEF Database
<1>5. e = IF back THEN [d1 EXCEPT !.inventory[u][p] = @ + 1] ELSE d1
  <2>1. d1 = [d EXCEPT !.entitlement[s] =
                         [t \in EntitlementType |-> @[t] - Pricing[p].validdays[t]],
                       !.orders[o].couponcode = NULL]
    BY DEF Database
  <2> HIDE DEF d1
  <2> QED
    BY <2>1 DEF WithdrawEntitlement
<1> HIDE DEF d1, orders
<1>6. CASE back
  <2>1. u \in Agent /\ 1 \in Int
    BY <1>6, StudentOfOrder
  <2> HIDE DEF u, p
  <2> QED
    BY <1>1, <1>4, <1>5, <1>6, <2>1, StockType DEF orders
<1>7. CASE ~ back
  BY <1>4, <1>5, <1>7 DEF orders
<1> QED
  BY <1>6, <1>7

\* What revoke_pay does: it replaces the live awards of the order, takes the delivery
\* back, and ends in a status no award lives in.
LEMMA RevokeEffect ==
    ASSUME NEW d \in Database, NEW o \in Generated(d), NEW retain \in BOOLEAN,
           CanRevoke(d, o), NEW e, e = Revoke(d, o, retain)
    PROVE  /\ e \in Database /\ OthersKept(d, e, o)
           /\ e.orders[o].status = IF retain THEN "uncommisioned" ELSE "refunded"
           /\ ~ retain => e.orders[o].couponcode = NULL
           /\ e.delivery[o] = IF d.delivery[o] = "none" THEN "none" ELSE "REFUNDED"
           /\ \E D \in SUBSET {r \in Row : /\ r.orderid = o /\ r.source = "delivery"
                                          /\ r.mark = "reversal"} :
                  e.activity = ReversedActivity(d, o) \cup D
<1> DEFINE d1 == ReverseRows(d, o)
           d2 == RollBackTriple(d1, o)
           d3 == IF retain THEN d2 ELSE WithdrawEntitlement(d2, o)
           d4 == RevokeDeliveryOf(d3, o)
           st == IF retain THEN "uncommisioned" ELSE "refunded"
<1>1. /\ d1 \in Database /\ d1.orders = d.orders /\ d1.delivery = d.delivery
      /\ d1.activity = ReversedActivity(d, o)
  BY ReverseRowsType
<1> HIDE DEF d1
<1>2. /\ d2 \in Database /\ d2.orders = d.orders /\ d2.delivery = d.delivery
      /\ d2.activity = ReversedActivity(d, o)
  <2>1. o \in Generated(d1)
    BY <1>1 DEF Generated
  <2> QED
    BY <1>1, <2>1, RollBackTripleType
<1> HIDE DEF d2
<1>3. /\ d3 \in Database /\ d3.delivery = d.delivery /\ d3.activity = ReversedActivity(d, o)
      /\ Generated(d3) = Generated(d)
      /\ \A x \in Order \ {o} : d3.orders[x] = d.orders[x]
      /\ ~ retain => d3.orders[o].couponcode = NULL
  <2>1. o \in Generated(d2) /\ o \in Order /\ d.orders[o] \in OrderRow
    BY <1>2, GeneratedRow DEF Generated
  <2>2. CASE retain
    BY <1>2, <2>2 DEF Generated
  <2>3. CASE ~ retain
    <3>1. /\ d3 \in Database /\ d3.delivery = d.delivery
          /\ d3.activity = ReversedActivity(d, o)
          /\ d3.orders = [d.orders EXCEPT ![o] = [@ EXCEPT !.couponcode = NULL]]
      BY <1>2, <2>1, <2>3, WithdrawEntitlementType
    <3>2. [d.orders[o] EXCEPT !.couponcode = NULL] \in OrderRow
      BY <2>1 DEF OrderRow
    <3> HIDE DEF d3
    <3>3. /\ d3.orders[o] = [d.orders[o] EXCEPT !.couponcode = NULL]
          /\ \A x \in Order \ {o} : d3.orders[x] = d.orders[x]
      BY <2>1, <3>1 DEF Database
    <3>4. d3.orders[o].couponcode = NULL
      BY <2>1, <3>3 DEF OrderRow
    <3>5. Generated(d3) = Generated(d)
      BY <2>1, <3>2, <3>3, NullIsNoOrder DEF Generated
    <3> QED
      BY <3>1, <3>3, <3>4, <3>5
  <2> QED
    BY <2>2, <2>3
<1> HIDE DEF d3
<1>4. o \in Generated(d3) /\ o \in Order
  BY <1>3, GeneratedRow
<1>5. /\ d4 \in Database /\ d4.orders = d3.orders
      /\ \A x \in Order \ {o} : d4.delivery[x] = d.delivery[x]
      /\ d4.delivery[o] = IF d.delivery[o] = "none" THEN "none" ELSE "REFUNDED"
      /\ \E D \in SUBSET {r \in Row : /\ r.orderid = o /\ r.source = "delivery"
                                     /\ r.mark = "reversal"} :
             d4.activity = ReversedActivity(d, o) \cup D
  <2>1. CASE d3.delivery[o] = "none"
    <3>1. d4 = d3
      BY <2>1 DEF RevokeDeliveryOf
    <3>2. d4.activity = ReversedActivity(d, o) \cup {}
      BY <3>1, <1>3
    <3> HIDE DEF d4
    <3> QED
      BY <2>1, <3>1, <3>2, <1>3
  <2>2. CASE d3.delivery[o] # "none"
    <3> DEFINE amount == -Pricing[d3.orders[o].productid].delivery
               row == [orderid |-> o, source |-> "delivery", amount |-> amount,
                       mark |-> "reversal",
                       accountid |-> Pricing[d3.orders[o].productid].deliveryaccount]
    <3>1. amount \in Int /\ Pricing[d3.orders[o].productid].deliveryaccount \in Account
      BY <1>3, <1>4, StudentOfOrder, PricingAssumption
    <3>2. d4 = PostDelivery(d3, o, amount, "reversal", "REFUNDED")
      BY <2>2 DEF RevokeDeliveryOf
    <3> HIDE DEF amount, d4
    <3>3. "REFUNDED" \in DeliveryStatus
      BY DEF DeliveryStatus
    <3>4. /\ d4 \in Database /\ d4.orders = d3.orders
          /\ d4.delivery = [d3.delivery EXCEPT ![o] = "REFUNDED"]
          /\ d4.activity = d3.activity \cup {row}
      BY <1>3, <1>4, <3>1, <3>2, <3>3, PostDeliveryType
    <3>5. row \in Row /\ row.orderid = o /\ row.source = "delivery" /\ row.mark = "reversal"
      BY <1>4, <3>1 DEF Row, Source
    <3> HIDE DEF row
    <3>6. d4.activity = ReversedActivity(d, o) \cup {row}
      BY <1>3, <3>4
    <3>7. d4.delivery[o] = "REFUNDED" /\ \A x \in Order \ {o} : d4.delivery[x] = d3.delivery[x]
      BY <1>3, <1>4, <3>4 DEF Database
    <3> QED
      BY <1>3, <2>2, <3>4, <3>5, <3>6, <3>7
  <2> QED
    BY <2>1, <2>2
<1> HIDE DEF d4
<1>6. o \in Generated(d4) /\ Generated(d4) = Generated(d)
  BY <1>3, <1>4, <1>5 DEF Generated
<1>7. st \in Status /\ st \in {"uncommisioned", "refunded"}
  BY DEF Status, FinalStatus
<1>8. e = SetStatus(d4, o, st)
  BY DEF Revoke, d1, d2, d3, d4
<1> HIDE DEF st
<1>9. e \in Database /\ e.activity = d4.activity /\ e.delivery = d4.delivery
  BY <1>5, <1>6, <1>7, <1>8, SetStatusType
<1>10. /\ Generated(e) = Generated(d4) /\ e.orders[o].status = st
       /\ e.orders[o].couponcode \in {d4.orders[o].couponcode, NULL}
       /\ \A x \in Generated(d4) \ {o} :
              \/ e.orders[x] = d4.orders[x]
              \/ /\ d4.orders[x].status \in OpenStatus
                 /\ e.orders[x].status = "failed" /\ e.orders[x].couponcode = NULL
  BY <1>5, <1>6, <1>7, <1>8, SetStatusOrders
<1>11. \A x \in Generated(d) \ {o} : d4.orders[x] = d.orders[x]
  BY <1>3, <1>5 DEF Generated
<1>12. OthersKept(d, e, o)
  BY <1>5, <1>6, <1>9, <1>10, <1>11 DEF OthersKept
<1> QED
  BY <1>3, <1>5, <1>9, <1>10, <1>12 DEF st

-----------------------------------------------------------------------------
(***************************************************************************)
(* The invariant, of any database: the transactions that call one another  *)
(* pass through databases that are never db.                               *)
(***************************************************************************)

Unpaid == {"refunded", "uncommisioned"}

Owned(d) ==
    /\ \A r \in d.activity : r.orderid \in Generated(d)
    /\ \A o \in Order : d.delivery[o] # "none" => o \in Generated(d)
    /\ \A r \in d.activity :
           r.source = "delivery" /\ r.mark # "reversal"
               => d.delivery[r.orderid] \notin {"none", "PENDING"}

PaysNobody(d) ==
    \A r \in d.activity :
        StatusOf(d, r.orderid) \in Unpaid => r.mark # "plain" \/ r.source = "delivery"

Matched(d) ==
    \A r \in d.activity : r.source # "delivery" =>
        /\ r.mark = "revoked" => Reversal(r) \in d.activity
        /\ r.mark = "reversal" => Undone(r) \in d.activity

Once(d) ==
    \A r1, r2 \in d.activity :
        /\ r1.orderid = r2.orderid /\ r1.accountid = r2.accountid
        /\ r1.source = r2.source
        /\ r1.mark # "reversal" /\ r2.mark # "reversal"
        => r1 = r2

Released(d) ==
    \A o \in Generated(d) : StatusOf(d, o) = "refunded" =>
        d.delivery[o] \in {"none", "REFUNDED"} /\ d.orders[o].couponcode = NULL

Sound(d) == Owned(d) /\ PaysNobody(d) /\ Matched(d) /\ Once(d) /\ Released(d)

\* Sound speaks of any database, Consistent of the tables.
LEMMA ConsistentIsSound == Consistent <=> TypeOK /\ Sound(db)
BY DEF Consistent, NoOrphans, RevokedOrdersPayNobody, ReversalsMatch, PaidOnce,
       RefundReleasesOrder, Sound, Owned, PaysNobody, Matched, Reversal, Undone, Once,
       Released, Unpaid, OrdersIn, StatusOf

\* A statement that posts nothing, and puts no order in a status that pays nobody.
LEMMA QuietSound ==
    ASSUME NEW d \in Database, Sound(d), NEW e \in Database,
           e.activity = d.activity, e.delivery = d.delivery,
           Generated(d) \subseteq Generated(e),
           \A x \in Generated(e) :
               \/ e.orders[x].status \notin Unpaid
               \/ /\ x \in Generated(d) /\ e.orders[x].status = d.orders[x].status
                  /\ e.orders[x].couponcode = d.orders[x].couponcode
    PROVE  Sound(e)
<1>1. Owned(e)
  BY DEF Sound, Owned
<1>2. PaysNobody(e)
  BY <1>1 DEF Sound, Owned, PaysNobody, StatusOf
<1>3. Matched(e) /\ Once(e)
  BY DEF Sound, Matched, Once
<1>4. Released(e)
  BY DEF Sound, Released, StatusOf, Unpaid
<1> QED
  BY <1>1, <1>2, <1>3, <1>4 DEF Sound

\* An order enters a status; the ones its purchase crowds out fail.
LEMMA SetStatusSound ==
    ASSUME NEW d \in Database, Sound(d), NEW o \in Generated(d), NEW st \in Status \ Unpaid,
           NEW e, e = SetStatus(d, o, st)
    PROVE  e \in Database /\ Sound(e)
<1>1. e \in Database /\ e.activity = d.activity /\ e.delivery = d.delivery
  BY SetStatusType
<1>2. /\ Generated(e) = Generated(d) /\ e.orders[o].status = st
      /\ \A x \in Generated(d) \ {o} :
             e.orders[x] = d.orders[x] \/ e.orders[x].status = "failed"
  BY SetStatusOrders
<1> QED
  BY <1>1, <1>2, QuietSound DEF Unpaid

\* An order that is generated, or edited but for its status and coupon.
LEMMA EditSound ==
    ASSUME NEW d \in Database, Sound(d), NEW o \in Order, NEW row \in OrderRow,
           NEW e, e = [d EXCEPT !.orders = [@ EXCEPT ![o] = row]],
           o \in Generated(d) =>
               row.status = d.orders[o].status /\ row.couponcode = d.orders[o].couponcode,
           o \notin Generated(d) => row.status = "created"
    PROVE  /\ e \in Database /\ Sound(e) /\ Generated(e) = Generated(d) \cup {o}
           /\ e.activity = d.activity /\ e.orders[o] = row
<1>1. /\ e \in Database /\ e.activity = d.activity /\ e.delivery = d.delivery
      /\ e.orders = [d.orders EXCEPT ![o] = row]
  BY DEF Database
<1>2. e.orders[o] = row /\ \A x \in Order \ {o} : e.orders[x] = d.orders[x]
  BY <1>1 DEF Database
<1>3. Generated(e) = Generated(d) \cup {o}
  BY <1>2, NullIsNoOrder DEF Generated
<1>4. ASSUME NEW x \in Generated(e)
      PROVE  \/ e.orders[x].status \notin Unpaid
             \/ /\ x \in Generated(d) /\ e.orders[x].status = d.orders[x].status
                /\ e.orders[x].couponcode = d.orders[x].couponcode
  <2>1. CASE x = o
    BY <1>2, <2>1 DEF Unpaid
  <2>2. CASE x # o
    BY <1>2, <1>3, <2>2 DEF Generated
  <2> QED
    BY <2>1, <2>2
<1>5. Sound(e)
  BY <1>1, <1>3, <1>4, QuietSound
<1> QED
  BY <1>1, <1>2, <1>3, <1>5

\* A payment of an order without rows.
LEMMA PaySound ==
    ASSUME NEW d \in Database, Sound(d), NEW o \in Generated(d), ~ HasActivity(d, o),
           NEW force, today \in Int, NEW e, e = Pay(d, o, force)
    PROVE  e \in Database /\ Sound(e)
<1>1. /\ e \in Database /\ OthersKept(d, e, o)
      /\ e.orders[o].status \in PurchasedStatus
  BY PayEffect
<1>2. PICK g \in Database :
          /\ g.orders = d.orders
          /\ e.activity \in {d.activity, d.activity \cup PayoutRows(g, o)}
  BY PayEffect
<1>3. o \in Generated(g)
  BY <1>2 DEF Generated
<1>4. /\ \A r \in PayoutRows(g, o) :
             r.orderid = o /\ r.mark = "plain" /\ r.source # "delivery"
      /\ \A r1, r2 \in PayoutRows(g, o) :
             r1.accountid = r2.accountid /\ r1.source = r2.source => r1 = r2
  BY <1>3, PayoutRowsType, PayoutRowsOnce
<1>5. \A r \in d.activity : r.orderid # o
  BY DEF HasActivity, RowsOf
<1> DEFINE R == PayoutRows(g, o)
<1> HIDE DEF R
<1>6. d.activity \subseteq e.activity /\ e.activity \subseteq d.activity \cup R
  BY <1>2 DEF R
<1>7. /\ \A r \in R : r.orderid = o /\ r.mark = "plain" /\ r.source # "delivery"
      /\ \A r1, r2 \in R : r1.accountid = r2.accountid /\ r1.source = r2.source => r1 = r2
  BY <1>4 DEF R
<1>8. Owned(e)
  <2>1. \A r \in e.activity : r.orderid \in Generated(e)
    BY <1>1, <1>6, <1>7 DEF Sound, Owned, OthersKept
  <2>2. \A x \in Order : e.delivery[x] # "none" => x \in Generated(e)
    BY <1>1 DEF Sound, Owned, OthersKept
  <2>3. \A r \in e.activity : r.source = "delivery" /\ r.mark # "reversal"
                               => e.delivery[r.orderid] \notin {"none", "PENDING"}
    BY <1>1, <1>5, <1>6, <1>7 DEF Sound, Owned, OthersKept, Generated
  <2> QED
    BY <2>1, <2>2, <2>3 DEF Owned
<1>9. PaysNobody(e)
  <2> SUFFICES ASSUME NEW r \in e.activity, e.orders[r.orderid].status \in Unpaid
               PROVE  r.mark # "plain" \/ r.source = "delivery"
    BY DEF PaysNobody, StatusOf
  <2>1. r.orderid # o
    BY <1>1 DEF PurchasedStatus, Unpaid
  <2>2. r \in d.activity /\ r.orderid \in Generated(d)
    BY <1>6, <1>7, <2>1 DEF Sound, Owned
  <2>3. d.orders[r.orderid].status \in Unpaid
    BY <1>1, <2>1, <2>2 DEF OthersKept, Unpaid
  <2> QED
    BY <2>2, <2>3 DEF Sound, PaysNobody, StatusOf
<1>10. Matched(e)
  BY <1>6, <1>7 DEF Sound, Matched
<1>11. Once(e)
  BY <1>5, <1>6, <1>7 DEF Sound, Once
<1>12. Released(e)
  <2> SUFFICES ASSUME NEW x \in Generated(e), e.orders[x].status = "refunded"
               PROVE  e.delivery[x] \in {"none", "REFUNDED"} /\ e.orders[x].couponcode = NULL
    BY DEF Released, StatusOf
  <2>1. x # o
    BY <1>1 DEF PurchasedStatus
  <2>2. x \in Generated(d) /\ e.orders[x] = d.orders[x] /\ e.delivery[x] = d.delivery[x]
    BY <1>1, <2>1 DEF OthersKept, Generated
  <2> QED
    BY <2>2 DEF Sound, Released, StatusOf
<1> QED
  BY <1>1, <1>8, <1>9, <1>10, <1>11, <1>12 DEF Sound

\* A revocation.
LEMMA RevokeSound ==
    ASSUME NEW d \in Database, Sound(d), NEW o \in Generated(d), CanRevoke(d, o),
           NEW retain \in BOOLEAN, NEW e, e = Revoke(d, o, retain)
    PROVE  e \in Database /\ Sound(e)
<1> DEFINE live == RevocableRows(d, o)
           kept == d.activity \ live
           marked == {Revoked(r) : r \in live}
           opposite == {Reversal(r) : r \in live}
<1>1. /\ e \in Database /\ OthersKept(d, e, o)
      /\ e.orders[o].status \in Unpaid
      /\ e.orders[o].status = "refunded" => e.orders[o].couponcode = NULL
      /\ e.delivery[o] = IF d.delivery[o] = "none" THEN "none" ELSE "REFUNDED"
  BY RevokeEffect DEF Unpaid
<1>2. PICK D \in SUBSET {r \in Row : /\ r.orderid = o /\ r.source = "delivery"
                                    /\ r.mark = "reversal"} :
          e.activity = ReversedActivity(d, o) \cup D
  BY RevokeEffect
<1>3. /\ \A r \in D : r.orderid = o /\ r.source = "delivery" /\ r.mark = "reversal"
      /\ \A r \in live : /\ r \in d.activity /\ r \in Row /\ r.orderid = o
                         /\ r.mark = "plain" /\ r.source # "delivery"
      /\ \A r \in kept : /\ r \in d.activity
                         /\ r.orderid = o => r.mark # "plain" \/ r.source = "delivery"
  BY <1>2 DEF RevocableRows, RowsOf, Database
<1>4. d.activity \subseteq Row
  BY DEF Database
<1>5. e.activity = kept \cup marked \cup opposite \cup D
  BY <1>2 DEF ReversedActivity
<1>6. \A v \in marked : \E r \in live :
         /\ v = Revoked(r) /\ v.orderid = o /\ v.accountid = r.accountid
         /\ v.source = r.source /\ v.mark = "revoked" /\ Reversal(v) \in opposite
  BY <1>3, Opposites
<1>7. \A w \in opposite : \E r \in live :
         /\ w.orderid = o /\ w.source = r.source /\ w.mark = "reversal"
         /\ Undone(w) \in marked
  BY <1>3, Opposites
<1> HIDE DEF live, marked, opposite
<1>8. o \in Order /\ Generated(e) = Generated(d)
  BY <1>1, GeneratedRow DEF OthersKept
<1> HIDE DEF kept
<1>9. Owned(e)
  <2>1. \A r \in e.activity : r.orderid \in Generated(e)
    BY <1>3, <1>5, <1>6, <1>7, <1>8 DEF Sound, Owned
  <2>2. \A x \in Order : e.delivery[x] # "none" => x \in Generated(e)
    BY <1>1, <1>8 DEF Sound, Owned, OthersKept
  <2>3. ASSUME NEW r \in e.activity, r.source = "delivery", r.mark # "reversal"
        PROVE  e.delivery[r.orderid] \notin {"none", "PENDING"}
    <3>1. r \in d.activity
      BY <1>3, <1>5, <1>6, <1>7, <2>3
    <3>2. d.delivery[r.orderid] \notin {"none", "PENDING"} /\ r.orderid \in Order
      BY <2>3, <3>1 DEF Sound, Owned, Generated
    <3>3. CASE r.orderid = o
      BY <1>1, <3>2, <3>3
    <3>4. CASE r.orderid # o
      BY <1>1, <3>2, <3>4 DEF OthersKept
    <3> QED
      BY <3>3, <3>4
  <2> QED
    BY <2>1, <2>2, <2>3 DEF Owned
<1>10. PaysNobody(e)
  <2> SUFFICES ASSUME NEW r \in e.activity, e.orders[r.orderid].status \in Unpaid
               PROVE  r.mark # "plain" \/ r.source = "delivery"
    BY DEF PaysNobody, StatusOf
  <2>1. CASE r.orderid = o
    BY <1>3, <1>5, <1>6, <1>7, <2>1
  <2>2. CASE r.orderid # o
    <3>1. r \in d.activity /\ r.orderid \in Generated(d)
      BY <1>3, <1>5, <1>6, <1>7, <2>2 DEF Sound, Owned
    <3>2. d.orders[r.orderid].status \in Unpaid
      BY <1>1, <2>2, <3>1 DEF OthersKept, Unpaid
    <3> QED
      BY <3>1, <3>2 DEF Sound, PaysNobody, StatusOf
  <2> QED
    BY <2>1, <2>2
<1>11. Matched(e)
  <2> SUFFICES ASSUME NEW r \in e.activity, r.source # "delivery"
               PROVE  /\ r.mark = "revoked" => Reversal(r) \in e.activity
                      /\ r.mark = "reversal" => Undone(r) \in e.activity
    BY DEF Matched
  <2>1. CASE r \in kept
    <3>1. r \in d.activity /\ r \in Row
      BY <1>3, <1>4, <2>1
    <3>2. /\ r.mark = "revoked" => Reversal(r) \in d.activity
          /\ r.mark = "reversal" => Undone(r) \in d.activity
      BY <3>1 DEF Sound, Matched
    <3>3. Reversal(r) \notin live /\ Undone(r) \notin live
      BY <1>3, <3>1, Opposites
    <3> QED
      BY <1>5, <3>2, <3>3 DEF kept
  <2>2. CASE r \in marked
    BY <1>5, <1>6, <2>2
  <2>3. CASE r \in opposite
    BY <1>5, <1>7, <2>3
  <2> QED
    BY <1>3, <1>5, <2>1, <2>2, <2>3
<1>12. Once(e)
  <2> SUFFICES ASSUME NEW r1 \in e.activity, NEW r2 \in e.activity,
                      r1.orderid = r2.orderid, r1.accountid = r2.accountid,
                      r1.source = r2.source, r1.mark # "reversal", r2.mark # "reversal"
               PROVE  r1 = r2
    BY DEF Once
  <2>1. r1 \in kept \cup marked /\ r2 \in kept \cup marked
    BY <1>3, <1>5, <1>7
  <2>2. ASSUME NEW r \in d.activity, NEW x \in d.activity,
               r.orderid = x.orderid, r.accountid = x.accountid, r.source = x.source,
               r.mark # "reversal", x.mark # "reversal"
        PROVE  r = x
    BY <2>2 DEF Sound, Once
  <2>3. CASE r1 \in kept /\ r2 \in kept
    BY <1>3, <2>2, <2>3
  <2>4. ASSUME NEW x \in kept, NEW v \in marked, x.orderid = v.orderid,
               x.accountid = v.accountid, x.source = v.source, x.mark # "reversal"
        PROVE  FALSE
    <3>1. PICK r \in live : /\ v.orderid = o /\ v.accountid = r.accountid
                            /\ v.source = r.source
      BY <1>6
    <3>2. x = r
      BY <1>3, <2>2, <2>4, <3>1
    <3> QED
      BY <3>2 DEF kept
  <2>5. CASE r1 \in marked /\ r2 \in marked
    BY <1>3, <1>6, <2>2, <2>5
  <2> QED
    BY <2>1, <2>3, <2>4, <2>5
<1>13. Released(e)
  <2> SUFFICES ASSUME NEW x \in Generated(e), e.orders[x].status = "refunded"
               PROVE  e.delivery[x] \in {"none", "REFUNDED"} /\ e.orders[x].couponcode = NULL
    BY DEF Released, StatusOf
  <2>1. CASE x = o
    BY <1>1, <2>1
  <2>2. CASE x # o
    <3>1. x \in Generated(d) /\ e.orders[x] = d.orders[x] /\ e.delivery[x] = d.delivery[x]
      BY <1>1, <2>2 DEF OthersKept, Generated
    <3> QED
      BY <3>1 DEF Sound, Released, StatusOf
  <2> QED
    BY <2>1, <2>2
<1> QED
  BY <1>1, <1>9, <1>10, <1>11, <1>12, <1>13 DEF Sound

\* A delivery that is confirmed, or refunded in part or in whole, by itself.
LEMMA DeliverySound ==
    ASSUME NEW d \in Database, Sound(d), NEW o \in Generated(d), NEW amount \in Int,
           NEW mark \in {"plain", "reversal"}, mark = "plain" => d.delivery[o] = "PENDING",
           d.delivery[o] \in {"PENDING", "CONFIRMED"},
           NEW st \in {"CONFIRMED", "REFUNDED", "PARTIALLY_REFUNDED"},
           NEW e, e = PostDelivery(d, o, amount, mark, st)
    PROVE  e \in Database /\ Sound(e)
<1>1. st \in DeliveryStatus
  BY DEF DeliveryStatus
<1>2. PICK row : /\ row.orderid = o /\ row.source = "delivery" /\ row.mark = mark
                 /\ e \in Database /\ e.orders = d.orders
                 /\ e.delivery = [d.delivery EXCEPT ![o] = st]
                 /\ e.activity = d.activity \cup {row}
  <2> DEFINE row == [orderid |-> o, source |-> "delivery", amount |-> amount, mark |-> mark,
                     accountid |-> Pricing[d.orders[o].productid].deliveryaccount]
  <2>1. row.orderid = o /\ row.source = "delivery" /\ row.mark = mark
    OBVIOUS
  <2>2. /\ e \in Database /\ e.orders = d.orders
        /\ e.delivery = [d.delivery EXCEPT ![o] = st]
        /\ e.activity = d.activity \cup {row}
    BY <1>1, PostDeliveryType
  <2> HIDE DEF row
  <2> QED
    BY <2>1, <2>2
<1>3. /\ o \in Order /\ e.delivery[o] = st
      /\ \A x \in Order \ {o} : e.delivery[x] = d.delivery[x]
      /\ Generated(e) = Generated(d)
  BY <1>2, GeneratedRow DEF Database, Generated
<1>4. Owned(e)
  BY <1>2, <1>3 DEF Sound, Owned, Generated
<1>5. PaysNobody(e)
  BY <1>2 DEF Sound, PaysNobody, StatusOf
<1>6. Matched(e)
  BY <1>2 DEF Sound, Matched
<1>7. Once(e)
  <2>1. mark = "plain" => \A r \in d.activity :
             r.orderid = o /\ r.source = "delivery" => r.mark = "reversal"
    BY DEF Sound, Owned
  <2> QED
    BY <1>2, <2>1 DEF Sound, Once
<1>8. Released(e)
  <2> SUFFICES ASSUME NEW x \in Generated(e), e.orders[x].status = "refunded"
               PROVE  e.delivery[x] \in {"none", "REFUNDED"} /\ e.orders[x].couponcode = NULL
    BY DEF Released, StatusOf
  <2>1. d.delivery[x] \in {"none", "REFUNDED"} /\ d.orders[x].couponcode = NULL
    BY <1>2, <1>3 DEF Sound, Released, StatusOf
  <2>2. x # o /\ x \in Order
    BY <2>1, <1>3 DEF Generated
  <2> QED
    BY <1>2, <1>3, <2>1, <2>2
<1> QED
  BY <1>2, <1>4, <1>5, <1>6, <1>7, <1>8 DEF Sound

\* The profit check on coupons keeps a discounted price from being negative.
LEMMA DiscountedPrice ==
    ASSUME NEW d, NEW c \in Coupon, NEW s \in Student, NEW pid \in Product,
           CouponValid(d, c, s, pid)
    PROVE  Pricing[pid].finalprice - CouponTerms[c].discount \in Nat
<1> DEFINE side == IF HasDirectAgent(s) THEN AccountType[Upstream[s]] ELSE "HEAD_QUARTER"
           purchase == Pricing[pid].purchase[side]
           final == Pricing[pid].finalprice
           discount == CouponTerms[c].discount
<1>1. final \in Nat /\ discount \in Nat
  BY PricingAssumption
<1>2. purchase \in Nat
  <2>1. side \in AgentType \cup {"HEAD_QUARTER"}
    BY TreeAssumption DEF HasDirectAgent, Account
  <2>2. Pricing[pid].purchase \in [AgentType \cup {"HEAD_QUARTER"} -> Nat]
    BY PricingAssumption
  <2> HIDE DEF side
  <2> QED
    BY <2>1, <2>2
<1>3. 1000 * (final - purchase - discount) >= 7 * (final - discount)
  BY DEF CouponValid
<1> HIDE DEF final, purchase, discount
<1>4. final - discount \in Nat
  BY <1>1, <1>2, <1>3
<1> QED
  BY <1>4 DEF final, discount

-----------------------------------------------------------------------------
(***************************************************************************)
(* The actions                                                             *)
(***************************************************************************)

\* The tables before the first order are consistent.
LEMMA ConsistentInit == Init => Consistent
<1> SUFFICES ASSUME Init PROVE Consistent
  OBVIOUS
<1>1. /\ db.orders = [o \in Order |-> NULL] /\ db.activity = {}
      /\ db.delivery = [o \in Order |-> "none"]
  BY DEF Init
<1>2. db \in Database
  <2>1. [a \in Linked |-> [pendingreturn |-> OpeningAward[a], lastorderid |-> NULL]]
            \in [Linked -> [pendingreturn : Int, lastorderid : Order \cup {NULL}]]
    BY OpeningAssumption
  <2>2. OpeningStock \in [Agent -> [Product -> Int]]
    BY OpeningAssumption
  <2>3. OpeningAccount \in [Account -> [Column -> Int]]
    BY OpeningAssumption
  <2> QED
    BY <2>1, <2>2, <2>3 DEF Init, Database, DeliveryStatus
<1>3. today \in 1 .. MaxDay
  BY BoundsAssumption DEF Init
<1>4. Generated(db) = {}
  BY <1>1 DEF Generated
<1>5. Sound(db)
  BY <1>1, <1>4 DEF Sound, Owned, PaysNobody, Matched, Once, Released
<1> QED
  BY <1>2, <1>3, <1>5, ConsistentIsSound DEF TypeOK

\* What generate_simple_order inserts is an order, and what it then does is nothing or
\* a payment of it.
LEMMA GenerateInserts ==
    ASSUME db \in Database, Sound(db), today \in Int,
           NEW o \in Order, NEW s \in Student, NEW pid \in Product, NEW c \in Coupon \cup {NULL},
           NEW method \in InventoryMethod \cup {NULL},
           GenerateSimpleOrder(o, s, pid, c, method)
    PROVE  \E d1 \in Database :
               /\ Sound(d1) /\ o \in Generated(d1) /\ d1.activity = db.activity
               /\ \/ CanPay(d1, o, FALSE) /\ db' = Pay(d1, o, FALSE)
                  \/ db' = d1
<1> DEFINE p == Pricing[pid]
           price == IF method # NULL THEN NULL
                    ELSE IF p.finalprice > 0 /\ Discounts(c)
                         THEN p.finalprice - CouponTerms[c].discount
                    ELSE p.finalprice
           row == [status |-> "created", studentid |-> s, productid |-> pid,
                   price |-> price, paymentmethod |-> method, couponcode |-> c]
           d1 == [db EXCEPT !.orders = [@ EXCEPT ![o] = row]]
           paid == method = "inventory_agent" \/ price = 0
<1>1. /\ o \notin Generated(db)
      /\ c # NULL => CouponValid(db, c, s, pid)
      /\ IF paid THEN CanPay(d1, o, FALSE) /\ db' = Pay(d1, o, FALSE) ELSE db' = d1
  <2>1. d1 = [db EXCEPT !.orders[o] = row]
    BY DEF Database
  <2> HIDE DEF d1
  <2> QED
    BY <2>1 DEF GenerateSimpleOrder
<1>2. price \in Nat \cup {NULL}
  <2>1. p.finalprice \in Nat
    BY PricingAssumption
  <2>2. c # NULL => p.finalprice - CouponTerms[c].discount \in Nat
    BY <1>1, DiscountedPrice
  <2> HIDE DEF p
  <2> QED
    BY <2>1, <2>2 DEF Discounts
<1>3. row \in OrderRow /\ row.status = "created"
  <2> HIDE DEF price
  <2> QED
    BY <1>2 DEF OrderRow, Status, OpenStatus, Method
<1> HIDE DEF row
<1>4. /\ d1 \in Database /\ Sound(d1) /\ Generated(d1) = Generated(db) \cup {o}
      /\ d1.activity = db.activity
  BY <1>1, <1>3, EditSound
<1> HIDE DEF d1, paid
<1> QED
  BY <1>1, <1>4

\* Generating an order.
LEMMA GenerateStep ==
    ASSUME db \in Database, Sound(db), today \in Int,
           NEW o \in Order, NEW s \in Student, NEW pid \in Product, NEW c \in Coupon \cup {NULL},
           NEW method \in InventoryMethod \cup {NULL},
           GenerateSimpleOrder(o, s, pid, c, method)
    PROVE  db' \in Database /\ Sound(db')
BY GenerateInserts, PaySound DEF CanPay

\* Setting the method of an order.
LEMMA MethodSound ==
    ASSUME NEW d \in Database, Sound(d), NEW o \in Generated(d), NEW method \in Method,
           NEW e, e = [d EXCEPT !.orders[o].paymentmethod = method]
    PROVE  /\ e \in Database /\ Sound(e) /\ o \in Generated(e) /\ e.activity = d.activity
           /\ e.orders[o].status = d.orders[o].status
<1> DEFINE row == [d.orders[o] EXCEPT !.paymentmethod = method]
<1>1. o \in Order /\ d.orders[o] \in OrderRow
  BY GeneratedRow
<1>2. /\ row \in OrderRow /\ row.status = d.orders[o].status
      /\ row.couponcode = d.orders[o].couponcode
  BY <1>1 DEF OrderRow
<1>3. e = [d EXCEPT !.orders = [@ EXCEPT ![o] = row]]
  BY DEF Database
<1> HIDE DEF row
<1>4. /\ e \in Database /\ Sound(e) /\ Generated(e) = Generated(d) \cup {o}
      /\ e.activity = d.activity
  BY <1>1, <1>2, <1>3, EditSound
<1>5. e.orders[o] = row
  BY <1>1, <1>3 DEF Database
<1> QED
  BY <1>2, <1>4, <1>5

\* Setting the price of an inventory order.
LEMMA PriceSound ==
    ASSUME NEW d \in Database, Sound(d), NEW o \in Generated(d), NEW price \in Price,
           NEW e, e = [d EXCEPT !.orders[o].price = price]
    PROVE  e \in Database /\ Sound(e)
<1> DEFINE row == [d.orders[o] EXCEPT !.price = price]
<1>1. o \in Order /\ d.orders[o] \in OrderRow
  BY GeneratedRow
<1>2. /\ row \in OrderRow /\ row.status = d.orders[o].status
      /\ row.couponcode = d.orders[o].couponcode
  BY <1>1, BoundsAssumption DEF OrderRow
<1>3. e = [d EXCEPT !.orders = [@ EXCEPT ![o] = row]]
  BY DEF Database
<1> HIDE DEF row
<1> QED
  BY <1>1, <1>2, <1>3, EditSound

\* Every action keeps the database typed and sound.
LEMMA NextSound ==
    ASSUME TypeOK, Sound(db), Next
    PROVE  db' \in Database /\ Sound(db')
<1>1. db \in Database /\ today \in Int
  BY BoundsAssumption DEF TypeOK
<1>2. ASSUME NEW o \in Order, NEW s \in Student, NEW pid \in Product, NEW c \in Coupon \cup {NULL},
             NEW method \in InventoryMethod \cup {NULL},
             GenerateSimpleOrder(o, s, pid, c, method)
      PROVE  db' \in Database /\ Sound(db')
  BY <1>1, <1>2, GenerateStep
<1>3. ASSUME NEW o \in Order, NEW method \in (PaymentMethod \ InventoryMethod) \cup {NULL},
             UpdatePaymentMethod(o, method)
      PROVE  db' \in Database /\ Sound(db')
  BY <1>1, <1>3, MethodSound DEF UpdatePaymentMethod, Method
<1>4. ASSUME NEW o \in Order, ReportOfflinePayment(o)
      PROVE  db' \in Database /\ Sound(db')
  BY <1>1, <1>4, SetStatusSound DEF ReportOfflinePayment, Status, OpenStatus, Unpaid
<1>5. ASSUME NEW o \in Order, NEW price \in Price, UpdateOrderPrice(o, price)
      PROVE  db' \in Database /\ Sound(db')
  BY <1>1, <1>5, PriceSound DEF UpdateOrderPrice
<1>6. ASSUME NEW o \in Order, PaySuccess(o)
      PROVE  db' \in Database /\ Sound(db')
  BY <1>1, <1>6, PaySound DEF PaySuccess, CanPay
<1>7. ASSUME NEW o \in Order, NEW method \in PaymentMethod, NEW revokePay \in BOOLEAN,
             NEW forceSettle \in BOOLEAN,
             ConfirmOfflineOrderSucceeded(o, method, revokePay, forceSettle)
      PROVE  db' \in Database /\ Sound(db')
  <2> DEFINE d1 == [db EXCEPT !.orders[o].paymentmethod = method]
             d2 == Pay(d1, o, forceSettle)
  <2>1. /\ o \in Generated(db) /\ CanPay(d1, o, forceSettle)
        /\ IF revokePay THEN CanRevoke(d2, o) /\ db' = Revoke(d2, o, TRUE) ELSE db' = d2
    BY <1>7 DEF ConfirmOfflineOrderSucceeded
  <2>2. d1 \in Database /\ Sound(d1) /\ o \in Generated(d1)
    BY <1>1, <2>1, MethodSound DEF Method
  <2> HIDE DEF d1
  <2>3. d2 \in Database /\ Sound(d2) /\ OthersKept(d1, d2, o)
    BY <1>1, <2>1, <2>2, PaySound, PayEffect DEF CanPay
  <2>4. o \in Generated(d2)
    BY <2>2, <2>3 DEF OthersKept
  <2> HIDE DEF d2
  <2> QED
    BY <2>1, <2>3, <2>4, RevokeSound
<1>8. ASSUME NEW o \in Order, InsertLiuliuStatement(o)
      PROVE  db' \in Database /\ Sound(db')
  <2> DEFINE d1 == [db EXCEPT !.orders[o].paymentmethod = "liuliupay"]
  <2>1. /\ o \in Generated(db)
        /\ db' = IF CanPay(d1, o, TRUE) THEN Pay(d1, o, TRUE) ELSE d1
    BY <1>8 DEF InsertLiuliuStatement, OrdersIn
  <2>2. d1 \in Database /\ Sound(d1) /\ o \in Generated(d1)
    BY <1>1, <2>1, MethodSound DEF Method
  <2> HIDE DEF d1
  <2> QED
    BY <1>1, <2>1, <2>2, PaySound DEF CanPay
<1>9. ASSUME NEW o \in Order, DeclineOrder(o) \/ SimpleDeclineOrder(o)
      PROVE  db' \in Database /\ Sound(db')
  BY <1>1, <1>9, SetStatusSound
     DEF DeclineOrder, SimpleDeclineOrder, Status, FinalStatus, Unpaid
<1>10. ASSUME NEW o \in Order, ClosePayment(o)
       PROVE  db' \in Database /\ Sound(db')
  BY <1>1, <1>10, SetStatusSound DEF ClosePayment, Status, FinalStatus, Unpaid
<1>11. ASSUME NEW o \in Order, NEW retain \in BOOLEAN, RevokePay(o, retain)
       PROVE  db' \in Database /\ Sound(db')
  BY <1>1, <1>11, RevokeSound DEF RevokePay
<1>12. ASSUME NEW o \in Order, ConfirmDelivery(o)
       PROVE  db' \in Database /\ Sound(db')
  <2>1. o \in Generated(db)
    BY <1>12 DEF ConfirmDelivery, Sound, Owned
  <2>2. Pricing[db.orders[o].productid].delivery \in Int
    BY <1>1, <2>1, StudentOfOrder, PricingAssumption
  <2> QED
    BY <1>1, <1>12, <2>1, <2>2, DeliverySound DEF ConfirmDelivery
<1>13. ASSUME NEW o \in Order, NEW amount \in Refund \cup {NULL}, RevokeDelivery(o, amount)
       PROVE  db' \in Database /\ Sound(db')
  <2>1. o \in Generated(db) /\ db.delivery[o] = "CONFIRMED"
    BY <1>13 DEF RevokeDelivery, Sound, Owned
  <2>2. PICK n \in Int, st \in {"REFUNDED", "PARTIALLY_REFUNDED"} :
            db' = PostDelivery(db, o, n, "reversal", st)
    <3>1. CASE amount = NULL
      <4>1. -Pricing[db.orders[o].productid].delivery \in Int
        BY <1>1, <2>1, StudentOfOrder, PricingAssumption
      <4> QED
        BY <1>13, <2>1, <3>1, <4>1 DEF RevokeDelivery, RevokeDeliveryOf
    <3>2. CASE amount # NULL
      <4>1. -amount \in Int
        BY <3>2, BoundsAssumption
      <4> QED
        BY <1>13, <3>2, <4>1 DEF RevokeDelivery
    <3> QED
      BY <3>1, <3>2
  <2> QED
    BY <1>1, <2>1, <2>2, DeliverySound
<1>14. ASSUME NextDay
       PROVE  db' \in Database /\ Sound(db')
  BY <1>1, <1>14 DEF NextDay
<1> QED
  BY <1>2, <1>3, <1>4, <1>5, <1>6, <1>7, <1>8, <1>9, <1>10, <1>11, <1>12, <1>13, <1>14 DEF Next

\* Days pass within their bound.
LEMMA TodayStep ==
    ASSUME TypeOK, Next
    PROVE  today' \in 1 .. MaxDay
<1>1. (\E o \in Order, s \in Student, pid \in Product, c \in Coupon \cup {NULL},
         method \in InventoryMethod \cup {NULL} : GenerateSimpleOrder(o, s, pid, c, method))
      => today' = today
  BY DEF GenerateSimpleOrder
<1>2. (\E o \in Order, method \in (PaymentMethod \ InventoryMethod) \cup {NULL} :
          UpdatePaymentMethod(o, method)) => today' = today
  BY DEF UpdatePaymentMethod
<1>3. (\E o \in Order, price \in Price : UpdateOrderPrice(o, price)) => today' = today
  BY DEF UpdateOrderPrice
<1>4. (\E o \in Order, method \in PaymentMethod, revokePay, forceSettle \in BOOLEAN :
          ConfirmOfflineOrderSucceeded(o, method, revokePay, forceSettle)) => today' = today
  BY DEF ConfirmOfflineOrderSucceeded
<1>5. (\E o \in Order : \/ PaySuccess(o) \/ ReportOfflinePayment(o)
                        \/ InsertLiuliuStatement(o)) => today' = today
  BY DEF PaySuccess, ReportOfflinePayment, InsertLiuliuStatement
<1>6. (\E o \in Order : \/ DeclineOrder(o) \/ SimpleDeclineOrder(o)
                        \/ ClosePayment(o)) => today' = today
  BY DEF DeclineOrder, SimpleDeclineOrder, ClosePayment
<1>7. (\E o \in Order, retain \in BOOLEAN : RevokePay(o, retain)) => today' = today
  BY DEF RevokePay
<1>8. (\E o \in Order : ConfirmDelivery(o)) => today' = today
  BY DEF ConfirmDelivery
<1>9. (\E o \in Order, amount \in Refund \cup {NULL} : RevokeDelivery(o, amount))
      => today' = today
  BY DEF RevokeDelivery
<1>10. CASE NextDay
  BY <1>10, BoundsAssumption DEF TypeOK, NextDay
<1>11. CASE today' = today
  BY <1>11 DEF TypeOK
<1> QED
  BY <1>1, <1>2, <1>3, <1>4, <1>5, <1>6, <1>7, <1>8, <1>9, <1>10, <1>11 DEF Next

\* Consistent is inductive.
LEMMA ConsistentStep == Consistent /\ [Next]_vars => Consistent'
<1> SUFFICES ASSUME Consistent, [Next]_vars PROVE Consistent'
  OBVIOUS
<1>1. TypeOK /\ Sound(db)
  BY ConsistentIsSound
<1>2. TypeOK' /\ Sound(db')
  <2>1. CASE Next
    BY <1>1, <2>1, NextSound, TodayStep DEF TypeOK
  <2>2. CASE UNCHANGED vars
    BY <1>1, <2>2 DEF vars, TypeOK
  <2> QED
    BY <2>1, <2>2
<1> QED
  BY <1>2
     DEF Consistent, NoOrphans, RevokedOrdersPayNobody, ReversalsMatch, PaidOnce,
         RefundReleasesOrder, Sound, Owned, PaysNobody, Matched, Reversal, Undone, Once,
         Released, Unpaid, OrdersIn, StatusOf

-----------------------------------------------------------------------------
(***************************************************************************)
(* Theorems                                                                *)
(***************************************************************************)

\* The tables stay consistent through any sequence of transactions.
THEOREM StaysConsistent == Spec => []Consistent
<1>1. Init => Consistent
  BY ConsistentInit
<1>2. Consistent /\ [Next]_vars => Consistent'
  BY ConsistentStep
<1> QED
  BY <1>1, <1>2, PTL DEF Spec

\* Every column keeps its type; in particular no price is ever negative, because the
\* profit check bounds the discount of a coupon.
THEOREM TypeCorrect == Spec => []TypeOK
<1>1. Consistent => TypeOK
  BY DEF Consistent
<1> QED
  BY <1>1, StaysConsistent, PTL

\* Whatever is done to an order, it is distributed at most once: pay_success never
\* inserts a second row for an account and source of an order, also after its awards
\* were revoked or its status was set back by a page that was out of date.
THEOREM DistributedOnce == Spec => []PaidOnce
<1>1. Consistent => PaidOnce
  BY DEF Consistent
<1> QED
  BY <1>1, StaysConsistent, PTL

\* A refunded or uncommisioned order leaves no live award behind.
THEOREM RevocationComplete == Spec => []RevokedOrdersPayNobody
<1>1. Consistent => RevokedOrdersPayNobody
  BY DEF Consistent
<1> QED
  BY <1>1, StaysConsistent, PTL

\* Every revoked row has its exact opposite and every reversal the row it undoes.
THEOREM ReversalsExact == Spec => []ReversalsMatch
<1>1. Consistent => ReversalsMatch
  BY DEF Consistent
<1> QED
  BY <1>1, StaysConsistent, PTL

\* A refunded order keeps neither its coupon nor a delivery that is to be paid.
THEOREM RefundReleases == Spec => []RefundReleasesOrder
<1>1. Consistent => RefundReleasesOrder
  BY DEF Consistent
<1> QED
  BY <1>1, StaysConsistent, PTL

-----------------------------------------------------------------------------
(***************************************************************************)
(* Settlement implements AwardBook: every transaction, seen from the       *)
(* balanceactivity table, distributes the awards of one order, takes them  *)
(* back, skips them, or leaves the book as it is.                          *)
(***************************************************************************)

\* The awards in force, order by order.
Live(d) == [o \in Order |-> AwardsOf(d, o)]

\* The book of e is that of d.
SameBook(d, e) == Live(e) = Live(d) /\ TakenBack(e) = TakenBack(d)

-----------------------------------------------------------------------------
(***************************************************************************)
(* What the transactions do to the book                                    *)
(***************************************************************************)

\* The book depends on the rows of balanceactivity that are no deliveries.
LEMMA BookOfRows ==
    ASSUME NEW d, NEW e, NEW o \in Order,
           \A r : r.orderid = o /\ r.source # "delivery" =>
                      (r \in d.activity <=> r \in e.activity)
    PROVE  /\ AwardsOf(e, o) = AwardsOf(d, o)
           /\ o \in TakenBack(e) <=> o \in TakenBack(d)
<1>1. {x \in RowsOf(e, o) : x.mark = "plain" /\ x.source # "delivery"}
          = {x \in RowsOf(d, o) : x.mark = "plain" /\ x.source # "delivery"}
  BY DEF RowsOf
<1>2. AwardsOf(e, o) = AwardsOf(d, o)
  BY <1>1 DEF AwardsOf
<1>3. o \in TakenBack(e) <=> o \in TakenBack(d)
  BY DEF TakenBack, RowsOf
<1> QED
  BY <1>2, <1>3

\* A statement that posts delivery rows at most.
LEMMA DeliveryKeepsBook ==
    ASSUME NEW d, NEW e, NEW D, \A r \in D : r.source = "delivery",
           e.activity = d.activity \cup D
    PROVE  SameBook(d, e)
<1>1. \A o \in Order : /\ AwardsOf(e, o) = AwardsOf(d, o)
                       /\ o \in TakenBack(e) <=> o \in TakenBack(d)
  BY BookOfRows
<1>2. Live(e) = Live(d)
  BY <1>1 DEF Live
<1>3. TakenBack(e) = TakenBack(d)
  BY <1>1 DEF TakenBack
<1> QED
  BY <1>2, <1>3 DEF SameBook

\* A statement that posts nothing.
LEMMA QuietKeepsBook ==
    ASSUME NEW d, NEW e, e.activity = d.activity
    PROVE  SameBook(d, e)
<1> DEFINE D == {r \in d.activity : r.source = "delivery"}
<1>1. e.activity = d.activity \cup D
  OBVIOUS
<1>2. \A r \in D : r.source = "delivery"
  OBVIOUS
<1> HIDE DEF D
<1> QED
  BY <1>1, <1>2, DeliveryKeepsBook

\* A payment of an order without activity opens its page of the book, or nothing.
LEMMA PayBook ==
    ASSUME NEW d \in Database, NEW o \in Generated(d), ~ HasActivity(d, o), NEW force,
           today \in Int, NEW e, e = Pay(d, o, force)
    PROVE  /\ AwardsOf(d, o) = {} /\ o \notin TakenBack(d)
           /\ AwardsOf(e, o) \subseteq Award
           /\ Live(e) = [Live(d) EXCEPT ![o] = AwardsOf(e, o)]
           /\ TakenBack(e) = TakenBack(d)
<1>1. PICK g \in Database :
          /\ g.orders = d.orders
          /\ e.activity \in {d.activity, d.activity \cup PayoutRows(g, o)}
  BY PayEffect
<1>2. o \in Generated(g) /\ o \in Order
  BY <1>1 DEF Generated
<1>3. PICK R \in SUBSET {r \in Row : r.orderid = o /\ r.mark = "plain"
                                       /\ r.source # "delivery"} :
          e.activity = d.activity \cup R
  <2>1. CASE e.activity = d.activity
    <3>1. e.activity = d.activity \cup {}
      BY <2>1
    <3>2. {} \in SUBSET {r \in Row : r.orderid = o /\ r.mark = "plain"
                                   /\ r.source # "delivery"}
      OBVIOUS
    <3> QED
      BY <3>1, <3>2
  <2>2. CASE e.activity = d.activity \cup PayoutRows(g, o)
    BY <1>1, <1>2, <2>2, PayoutRowsType
  <2> QED
    BY <1>1, <2>1, <2>2
<1>4. RowsOf(d, o) = {} /\ RowsOf(e, o) = R
  BY <1>3 DEF HasActivity, RowsOf
<1>5. AwardsOf(d, o) = {} /\ o \notin TakenBack(d) /\ o \notin TakenBack(e)
  BY <1>3, <1>4 DEF AwardsOf, TakenBack
<1>6. AwardsOf(e, o) \subseteq Award
  BY <1>3, <1>4 DEF AwardsOf, Award, Row
<1>7. \A x \in Order \ {o} : /\ AwardsOf(e, x) = AwardsOf(d, x)
                             /\ x \in TakenBack(e) <=> x \in TakenBack(d)
  BY <1>3, BookOfRows
<1>8. Live(e) = [Live(d) EXCEPT ![o] = AwardsOf(e, o)]
  BY <1>2, <1>7 DEF Live
<1>9. TakenBack(e) = TakenBack(d)
  BY <1>5, <1>7 DEF TakenBack
<1> QED
  BY <1>5, <1>6, <1>8, <1>9

\* A revocation empties the page of its order and closes it, if there was anything
\* on it.
LEMMA RevokeBook ==
    ASSUME NEW d \in Database, NEW o \in Generated(d), NEW retain \in BOOLEAN,
           CanRevoke(d, o), NEW e, e = Revoke(d, o, retain)
    PROVE  /\ Live(e) = [Live(d) EXCEPT ![o] = {}]
           /\ TakenBack(e) = IF AwardsOf(d, o) = {} THEN TakenBack(d)
                             ELSE TakenBack(d) \cup {o}
<1> DEFINE live == RevocableRows(d, o)
<1>1. PICK D \in SUBSET {r \in Row : /\ r.orderid = o /\ r.source = "delivery"
                                     /\ r.mark = "reversal"} :
          e.activity = ReversedActivity(d, o) \cup D
  BY RevokeEffect
<1>2. o \in Order /\ d.activity \subseteq Row
  BY DEF Generated, Database
<1>3. \A r \in live : /\ r \in Row /\ r.orderid = o /\ r.mark = "plain" /\ r.source # "delivery"
                      /\ Revoked(r).orderid = o /\ Revoked(r).source = r.source
                      /\ Revoked(r).mark = "revoked"
                      /\ Reversal(r).orderid = o /\ Reversal(r).source = r.source
                      /\ Reversal(r).mark = "reversal"
  BY <1>2, Opposites DEF RevocableRows, RowsOf
<1>4. e.activity = ((d.activity \ live) \cup {Revoked(r) : r \in live}
                       \cup {Reversal(r) : r \in live}) \cup D
  BY <1>1 DEF ReversedActivity
<1>5. AwardsOf(d, o) = {} <=> live = {}
  BY DEF AwardsOf, RevocableRows
<1>6. AwardsOf(e, o) = {}
  <2>1. \A r \in e.activity : ~ (r.orderid = o /\ r.mark = "plain" /\ r.source # "delivery")
    BY <1>3, <1>4 DEF RevocableRows, RowsOf
  <2> QED
    BY <2>1 DEF AwardsOf, RowsOf
<1>7. o \in TakenBack(e) <=> o \in TakenBack(d) \/ live # {}
  <2>1. ASSUME o \in TakenBack(d) PROVE o \in TakenBack(e)
    BY <1>4, <2>1 DEF TakenBack, RowsOf, RevocableRows
  <2>2. ASSUME NEW r \in live PROVE o \in TakenBack(e)
    <3>1. Revoked(r) \in e.activity
      BY <1>4, <2>2
    <3> QED
      BY <1>2, <1>3, <2>2, <3>1 DEF TakenBack, RowsOf
  <2>3. ASSUME o \in TakenBack(e), live = {} PROVE o \in TakenBack(d)
    BY <1>4, <2>3 DEF TakenBack, RowsOf
  <2> QED
    BY <2>1, <2>2, <2>3
<1>8. \A x \in Order \ {o} : /\ AwardsOf(e, x) = AwardsOf(d, x)
                             /\ x \in TakenBack(e) <=> x \in TakenBack(d)
  <2>1. ASSUME NEW x \in Order \ {o}, NEW r, r.orderid = x
        PROVE  r \in d.activity <=> r \in e.activity
    BY <1>3, <1>4, <2>1
  <2> QED
    BY <2>1, BookOfRows
<1> HIDE DEF live
<1>9. Live(e) = [Live(d) EXCEPT ![o] = {}]
  BY <1>2, <1>6, <1>8 DEF Live
<1>10. TakenBack(e) = IF AwardsOf(d, o) = {} THEN TakenBack(d) ELSE TakenBack(d) \cup {o}
  BY <1>2, <1>5, <1>7, <1>8 DEF TakenBack
<1> QED
  BY <1>9, <1>10

-----------------------------------------------------------------------------
(***************************************************************************)
(* The refinement                                                          *)
(***************************************************************************)

\* What a transaction does to the book when it pays an order at most.
Paying(d, e) ==
    \/ SameBook(d, e)
    \/ \E o \in Order :
           /\ AwardsOf(d, o) = {} /\ o \notin TakenBack(d)
           /\ AwardsOf(e, o) \subseteq Award
           /\ Live(e) = [Live(d) EXCEPT ![o] = AwardsOf(e, o)]
           /\ TakenBack(e) = TakenBack(d)

\* What it does when it revokes one.
Revoking(d, e) ==
    \/ SameBook(d, e)
    \/ \E o \in Order :
           /\ Live(e) = [Live(d) EXCEPT ![o] = {}]
           /\ TakenBack(e) = TakenBack(d) \cup {o}
           /\ AwardsOf(d, o) # {} \/ o \notin TakenBack(d)

\* Both are steps of the book.
LEMMA BookStep ==
    ASSUME Paying(db, db') \/ Revoking(db, db')
    PROVE  [Book!Next]_(Book!bookVars)
<1>1. Live(db) = [o \in Order |-> AwardsOf(db, o)] /\ Live(db') = [o \in Order |-> AwardsOf(db', o)]
  BY DEF Live
<1>2. CASE SameBook(db, db')
  BY <1>1, <1>2 DEF SameBook, Book!bookVars
<1>3. ASSUME NEW o \in Order,
             AwardsOf(db, o) = {} /\ o \notin TakenBack(db),
             AwardsOf(db', o) \subseteq Award,
             Live(db') = [Live(db) EXCEPT ![o] = AwardsOf(db', o)],
             TakenBack(db') = TakenBack(db)
      PROVE  Book!Next
  BY <1>1, <1>3 DEF Book!Next, Book!Distribute
<1>4. ASSUME NEW o \in Order,
             Live(db') = [Live(db) EXCEPT ![o] = {}],
             TakenBack(db') = TakenBack(db) \cup {o},
             AwardsOf(db, o) # {} \/ o \notin TakenBack(db)
      PROVE  Book!Next
  <2>1. CASE AwardsOf(db, o) # {}
    BY <1>1, <1>4, <2>1 DEF Book!Next, Book!TakeBack
  <2>2. CASE AwardsOf(db, o) = {} /\ o \notin TakenBack(db)
    <3>1. Live(db') = Live(db)
      BY <1>1, <1>4, <2>2
    <3> QED
      BY <1>1, <1>4, <2>2, <3>1 DEF Book!Next, Book!Skip
  <2> QED
    BY <1>4, <2>1, <2>2
<1> QED
  BY <1>2, <1>3, <1>4 DEF Paying, Revoking

-----------------------------------------------------------------------------
\* What one transaction does, payment or revocation.
Booked(d, e) == Paying(d, e) \/ Revoking(d, e)

\* A payment that follows an edit of its order.
LEMMA EditPayBooked ==
    ASSUME NEW d, NEW d1 \in Database, d1.activity = d.activity, NEW o \in Generated(d1),
           ~ HasActivity(d1, o), NEW force, today \in Int, NEW e, e = Pay(d1, o, force)
    PROVE  Booked(d, e)
<1>1. o \in Order
  BY DEF Generated
<1>2. SameBook(d, d1)
  BY QuietKeepsBook
<1>3. AwardsOf(d1, o) = AwardsOf(d, o)
  BY DEF AwardsOf, RowsOf
<1> QED
  BY <1>1, <1>2, <1>3, PayBook DEF SameBook, Booked, Paying

\* A revocation.
LEMMA RevokeBooked ==
    ASSUME NEW d \in Database, NEW o \in Generated(d), NEW retain \in BOOLEAN,
           CanRevoke(d, o), NEW e, e = Revoke(d, o, retain)
    PROVE  Booked(d, e)
<1>1. o \in Order
  BY DEF Generated
<1>2. CASE AwardsOf(d, o) = {}
  <2>1. Live(e) = [Live(d) EXCEPT ![o] = {}] /\ TakenBack(e) = TakenBack(d)
    BY <1>2, RevokeBook
  <2>2. Live(d)[o] = {} /\ Live(d) = [x \in Order |-> Live(d)[x]]
    BY <1>1, <1>2 DEF Live
  <2>3. Live(e) = Live(d)
    BY <2>1, <2>2
  <2> QED
    BY <2>1, <2>3 DEF Booked, Revoking, SameBook
<1>3. CASE AwardsOf(d, o) # {}
  BY <1>1, <1>3, RevokeBook DEF Booked, Revoking
<1> QED
  BY <1>2, <1>3

\* An approval that revokes: what the payment handed out is gone again.
LEMMA ApproveRevokeBooked ==
    ASSUME NEW d, NEW d1 \in Database, d1.activity = d.activity, NEW o \in Generated(d1),
           ~ HasActivity(d1, o), NEW force, today \in Int,
           NEW d2, d2 = Pay(d1, o, force), CanRevoke(d2, o), NEW e, e = Revoke(d2, o, TRUE)
    PROVE  Booked(d, e)
<1>1. o \in Order
  BY DEF Generated
<1>2. SameBook(d, d1)
  BY QuietKeepsBook
<1>3. /\ AwardsOf(d1, o) = {} /\ o \notin TakenBack(d1)
      /\ Live(d2) = [Live(d1) EXCEPT ![o] = AwardsOf(d2, o)]
      /\ TakenBack(d2) = TakenBack(d1)
  BY PayBook
<1>4. d2 \in Database /\ o \in Generated(d2)
  BY PayEffect DEF OthersKept
<1>5. /\ Live(e) = [Live(d2) EXCEPT ![o] = {}]
      /\ TakenBack(e) = IF AwardsOf(d2, o) = {} THEN TakenBack(d2)
                        ELSE TakenBack(d2) \cup {o}
  BY <1>4, RevokeBook
<1>6. Live(e) = Live(d1) /\ Live(e) = [Live(d1) EXCEPT ![o] = {}]
  BY <1>1, <1>3, <1>5 DEF Live
<1>7. CASE AwardsOf(d2, o) = {}
  BY <1>2, <1>3, <1>5, <1>6, <1>7 DEF SameBook, Booked, Paying
<1>8. CASE AwardsOf(d2, o) # {}
  BY <1>1, <1>2, <1>3, <1>5, <1>6, <1>8 DEF SameBook, Booked, Revoking
<1> QED
  BY <1>7, <1>8

\* The delivery of an order that exists is paid or taken back.
LEMMA DeliveryBooked ==
    ASSUME NEW d \in Database, NEW o \in Generated(d), NEW amount \in Int,
           NEW mark \in {"plain", "reversal"}, NEW st \in DeliveryStatus,
           NEW e, e = PostDelivery(d, o, amount, mark, st)
    PROVE  Booked(d, e)
<1> DEFINE row == [orderid |-> o, source |-> "delivery", amount |-> amount, mark |-> mark,
                   accountid |-> Pricing[d.orders[o].productid].deliveryaccount]
<1>1. /\ e \in Database /\ e.orders = d.orders
      /\ e.delivery = [d.delivery EXCEPT ![o] = st]
      /\ e.activity = d.activity \cup {row}
  BY PostDeliveryType
<1> DEFINE D == {row}
<1>2. \A r \in D : r.source = "delivery"
  OBVIOUS
<1>3. e.activity = d.activity \cup D
  BY <1>1
<1> HIDE DEF row, D
<1> QED
  BY <1>2, <1>3, DeliveryKeepsBook DEF Booked, Paying

\* A statement that posts nothing.
LEMMA QuietBooked ==
    ASSUME NEW d, NEW e, e.activity = d.activity
    PROVE  Booked(d, e)
BY QuietKeepsBook DEF Booked, Paying

\* An order that is generated, and paid when it is the agent's or costs nothing.
LEMMA GenerateBooked ==
    ASSUME db \in Database, Sound(db), today \in Int,
           NEW o \in Order, NEW s \in Student, NEW pid \in Product, NEW c \in Coupon \cup {NULL},
           NEW method \in InventoryMethod \cup {NULL},
           GenerateSimpleOrder(o, s, pid, c, method)
    PROVE  Booked(db, db')
<1>1. PICK d1 \in Database :
          /\ Sound(d1) /\ o \in Generated(d1) /\ d1.activity = db.activity
          /\ \/ CanPay(d1, o, FALSE) /\ db' = Pay(d1, o, FALSE)
             \/ db' = d1
  BY GenerateInserts
<1>2. CASE CanPay(d1, o, FALSE) /\ db' = Pay(d1, o, FALSE)
  BY <1>1, <1>2, EditPayBooked DEF CanPay
<1>3. CASE db' = d1
  BY <1>1, <1>3, QuietBooked
<1> QED
  BY <1>1, <1>2, <1>3

\* Every transaction does to the book what it may.
LEMMA NextBooked ==
    ASSUME TypeOK, Sound(db), Next
    PROVE  Booked(db, db')
<1>1. db \in Database /\ today \in Int
  BY BoundsAssumption DEF TypeOK
<1>2. ASSUME NEW o \in Order, NEW s \in Student, NEW pid \in Product, NEW c \in Coupon \cup {NULL},
             NEW method \in InventoryMethod \cup {NULL},
             GenerateSimpleOrder(o, s, pid, c, method)
      PROVE  Booked(db, db')
  BY <1>1, <1>2, GenerateBooked
<1>3. ASSUME NEW o \in Order, NEW method \in (PaymentMethod \ InventoryMethod) \cup {NULL},
             UpdatePaymentMethod(o, method)
      PROVE  Booked(db, db')
  BY <1>1, <1>3, MethodSound, QuietBooked DEF UpdatePaymentMethod, Method
<1>4. ASSUME NEW o \in Order, NEW price \in Price, UpdateOrderPrice(o, price)
      PROVE  Booked(db, db')
  BY <1>1, <1>4, QuietBooked DEF UpdateOrderPrice, Database
<1>5. ASSUME NEW o \in Order,
             \/ ReportOfflinePayment(o) \/ DeclineOrder(o)
             \/ SimpleDeclineOrder(o) \/ ClosePayment(o)
      PROVE  Booked(db, db')
  <2>1. PICK st \in Status : o \in Generated(db) /\ db' = SetStatus(db, o, st)
    BY <1>5 DEF ReportOfflinePayment, DeclineOrder, SimpleDeclineOrder, ClosePayment,
                Status, FinalStatus, OpenStatus
  <2>2. db'.activity = db.activity
    BY <1>1, <2>1, SetStatusType
  <2> QED
    BY <2>2, QuietBooked
<1>6. ASSUME NEW o \in Order, PaySuccess(o)
      PROVE  Booked(db, db')
  BY <1>1, <1>6, EditPayBooked DEF PaySuccess, CanPay
<1>7. ASSUME NEW o \in Order, NEW method \in PaymentMethod, NEW revokePay \in BOOLEAN,
             NEW forceSettle \in BOOLEAN,
             ConfirmOfflineOrderSucceeded(o, method, revokePay, forceSettle)
      PROVE  Booked(db, db')
  <2> DEFINE d1 == [db EXCEPT !.orders[o].paymentmethod = method]
             d2 == Pay(d1, o, forceSettle)
  <2>1. /\ o \in Generated(db) /\ CanPay(d1, o, forceSettle)
        /\ IF revokePay THEN CanRevoke(d2, o) /\ db' = Revoke(d2, o, TRUE) ELSE db' = d2
    BY <1>7 DEF ConfirmOfflineOrderSucceeded
  <2>2. d1 \in Database /\ d1.activity = db.activity /\ o \in Generated(d1)
    BY <1>1, <2>1, MethodSound DEF Method
  <2>3. ~ HasActivity(d1, o)
    BY <2>1 DEF CanPay
  <2> HIDE DEF d1
  <2>4. CASE revokePay
    BY <1>1, <2>1, <2>2, <2>3, <2>4, ApproveRevokeBooked
  <2>5. CASE ~ revokePay
    BY <1>1, <2>1, <2>2, <2>3, <2>5, EditPayBooked
  <2> QED
    BY <2>4, <2>5
<1>8. ASSUME NEW o \in Order, InsertLiuliuStatement(o)
      PROVE  Booked(db, db')
  <2> DEFINE d1 == [db EXCEPT !.orders[o].paymentmethod = "liuliupay"]
  <2>1. /\ o \in Generated(db)
        /\ db' = IF CanPay(d1, o, TRUE) THEN Pay(d1, o, TRUE) ELSE d1
    BY <1>8 DEF InsertLiuliuStatement, OrdersIn
  <2>2. d1 \in Database /\ d1.activity = db.activity /\ o \in Generated(d1)
    BY <1>1, <2>1, MethodSound DEF Method
  <2> HIDE DEF d1
  <2>3. CASE CanPay(d1, o, TRUE)
    BY <1>1, <2>1, <2>2, <2>3, EditPayBooked DEF CanPay
  <2>4. CASE ~ CanPay(d1, o, TRUE)
    BY <2>1, <2>2, <2>4, QuietBooked
  <2> QED
    BY <2>3, <2>4
<1>9. ASSUME NEW o \in Order, NEW retain \in BOOLEAN, RevokePay(o, retain)
      PROVE  Booked(db, db')
  BY <1>1, <1>9, RevokeBooked DEF RevokePay
<1>10. ASSUME NEW o \in Order, ConfirmDelivery(o)
       PROVE  Booked(db, db')
  <2>1. o \in Generated(db)
    BY <1>10 DEF ConfirmDelivery, Sound, Owned
  <2>2. Pricing[db.orders[o].productid].delivery \in Int
    BY <1>1, <2>1, StudentOfOrder, PricingAssumption
  <2> QED
    BY <1>1, <1>10, <2>1, <2>2, DeliveryBooked DEF ConfirmDelivery, DeliveryStatus
<1>11. ASSUME NEW o \in Order, NEW amount \in Refund \cup {NULL}, RevokeDelivery(o, amount)
       PROVE  Booked(db, db')
  <2>1. o \in Generated(db) /\ db.delivery[o] = "CONFIRMED"
    BY <1>11 DEF RevokeDelivery, Sound, Owned
  <2>2. PICK n \in Int, st \in {"REFUNDED", "PARTIALLY_REFUNDED"} :
            db' = PostDelivery(db, o, n, "reversal", st)
    <3>1. CASE amount = NULL
      <4>1. -Pricing[db.orders[o].productid].delivery \in Int
        BY <1>1, <2>1, StudentOfOrder, PricingAssumption
      <4> QED
        BY <1>11, <2>1, <3>1, <4>1 DEF RevokeDelivery, RevokeDeliveryOf
    <3>2. CASE amount # NULL
      <4>1. -amount \in Int
        BY <3>2, BoundsAssumption
      <4> QED
        BY <1>11, <3>2, <4>1 DEF RevokeDelivery
    <3> QED
      BY <3>1, <3>2
  <2> QED
    BY <1>1, <2>1, <2>2, DeliveryBooked DEF DeliveryStatus
<1>12. ASSUME NextDay
       PROVE  Booked(db, db')
  BY <1>12, QuietBooked DEF NextDay
<1> QED
  BY <1>2, <1>3, <1>4, <1>5, <1>6, <1>7, <1>8, <1>9, <1>10, <1>11, <1>12 DEF Next

-----------------------------------------------------------------------------
\* The awards of every order are handed out all together and once, and taken back all
\* together and for good: pay_success and revoke_pay, called from any page in any
\* order, never add to a distribution, repeat it, or undo a part of it.
THEOREM AwardsByTheBook == Spec => ImplementsBook
<1>1. Init => Book!Init
  <2> SUFFICES ASSUME Init PROVE Book!Init
    OBVIOUS
  <2>1. db.activity = {}
    BY DEF Init
  <2>2. \A o \in Order : AwardsOf(db, o) = {}
    BY <2>1 DEF AwardsOf, RowsOf
  <2>3. TakenBack(db) = {}
    BY <2>1 DEF TakenBack, RowsOf
  <2> QED
    BY <2>2, <2>3 DEF Book!Init
<1>2. Consistent /\ [Next]_vars => [Book!Next]_(Book!bookVars)
  <2>1. CASE Consistent /\ Next
    BY <2>1, ConsistentIsSound, NextBooked, BookStep DEF Booked
  <2>2. CASE UNCHANGED vars
    BY <2>2 DEF vars, Book!bookVars
  <2> QED
    BY <2>1, <2>2
<1> QED
  BY <1>1, <1>2, StaysConsistent, PTL DEF Spec, ImplementsBook, Book!Spec

-----------------------------------------------------------------------------
(***************************************************************************)
(* The invariants, of any database d                                       *)
(***************************************************************************)

MoneyColumn == Column \ {"balancetriple", "balancetriplelock"}
PlainRows(d) == {r \in d.activity : r.mark = "plain"}
RowsPosted(R, a, c) == {r \in R : r.accountid = a /\ ColumnOf(r.source) = c}

\* The copy of the extension awards (PartitionAwardMatchesLedger).
Copied(d) == d.partitionaward = PartitionAwards(PlainRows(d))

\* The rows of a delivery: none, the payment, or the payment and one refund.
PriceOfDelivery(d, o) == Pricing[d.orders[o].productid].delivery
DeliveryRow(d, o, amount, mark) ==
    [orderid |-> o, source |-> "delivery", amount |-> amount, mark |-> mark,
     accountid |-> Pricing[d.orders[o].productid].deliveryaccount]
DeliveryRows(d, o) == {r \in RowsOf(d, o) : r.source = "delivery"}

PaidByStatus(d, o) ==
    LET price == PriceOfDelivery(d, o)
        paid == DeliveryRow(d, o, price, "plain")
        Refunded(n) == DeliveryRow(d, o, -n, "reversal")
    IN  /\ d.delivery[o] \in {"none", "PENDING"} => DeliveryRows(d, o) = {}
        /\ d.delivery[o] = "CONFIRMED" => DeliveryRows(d, o) = {paid}
        /\ d.delivery[o] = "REFUNDED" => DeliveryRows(d, o) = {paid, Refunded(price)}
        /\ d.delivery[o] = "PARTIALLY_REFUNDED" =>
               \E n \in 1 .. price : DeliveryRows(d, o) = {paid, Refunded(n)}

Delivered(d) == \A o \in Order : PaidByStatus(d, o)

\* There are finitely many rows, and they explain the balances (LedgerExplainsBalances).
Explained(d) ==
    /\ IsFiniteSet(d.activity)
    /\ \A a \in Account, c \in MoneyColumn :
           d.account[a][c] = OpeningAccount[a][c] + Total(RowsPosted(d.activity, a, c))

\* The history of an award explains it, and is logged under an order (UnlocksAddUp).
HistoryAddsUp(d) ==
    \A a \in Linked :
        /\ d.award[a].pendingreturn = OpeningAward[a] + SumFunctionOnSet(d.awardhistory[a], Order)
        /\ d.award[a].lastorderid = NULL => \A o \in Order : d.awardhistory[a][o] = 0

\* The triple balances have moved with the locks (TripleBalancesMatchLocks).
AwardsUnder(a) == {x \in Linked : Upstream[x] = a}
LockedBefore(a) == {x \in AwardsUnder(a) : OpeningAward[x] > 0}
LockedIn(d, a) == {x \in AwardsUnder(a) : d.award[x].pendingreturn > 0}
Worth(S) == SumFunctionOnSet(AwardAmount, S)

LocksMatch(d) ==
    \A a \in Account :
        LET moved == Worth(LockedBefore(a)) - Worth(LockedIn(d, a))
        IN  /\ d.account[a]["balancetriple"] = OpeningAccount[a]["balancetriple"] + moved
            /\ d.account[a]["balancetriplelock"] = OpeningAccount[a]["balancetriplelock"] - moved

\* All that is so on whatever pages users act.
Books(d) == Copied(d) /\ Delivered(d) /\ Explained(d) /\ HistoryAddsUp(d) /\ LocksMatch(d)

\* Entitlements cover the orders held (EntitlementCoversOrders), on the first day.
DaysOf(d, o, t) == Pricing[d.orders[o].productid].validdays[t]
HeldWith(d, s, t) ==
    {o \in OrdersIn(d, BoughtStatus) : d.orders[o].studentid = s /\ DaysOf(d, o, t) > 0}
DaysHeld(d, s, t) == SumFunction([o \in HeldWith(d, s, t) |-> DaysOf(d, o, t)])
Covers(d) ==
    \A s \in Student, t \in EntitlementType :
        HeldWith(d, s, t) # {} => d.entitlement[s][t] >= 1 + DaysHeld(d, s, t)

-----------------------------------------------------------------------------
(* What is so when whoever writes a status has seen the current one.       *)

\* Awards in force are of orders that were paid (AwardsOfPaid).
AwardedWhenPaid(d) ==
    \A r \in PlainRows(d) :
        r.source # "delivery" => StatusOf(d, r.orderid) \in {"paid", "settled", "declined"}

\* A delivery that is due or done is of an order that was (DeliveriesOfBuyers).
DeliveredWhenHeld(d) ==
    \A o \in Generated(d) :
        d.delivery[o] \in {"PENDING", "CONFIRMED"} => StatusOf(d, o) \in BoughtStatus \cup {"declined"}

\* An open order can be paid without exceeding the limit (WithinPurchaseLimit,
\* NothingOpenOffShelf).
PurchasedWith(d, o) == SamePurchase(d, o) \cap OrdersIn(d, PurchasedStatus)
LimitOf(d, o) == Pricing[d.orders[o].productid].purchaselimit
RoomLeft(d) ==
    \A o \in Generated(d) :
        LimitOf(d, o) # NULL =>
            /\ StatusOf(d, o) \in OpenStatus => Cardinality(PurchasedWith(d, o)) < LimitOf(d, o)
            /\ StatusOf(d, o) \in PurchasedStatus
                  => Cardinality(PurchasedWith(d, o)) <= LimitOf(d, o)

Current(d) == AwardedWhenPaid(d) /\ DeliveredWhenHeld(d) /\ RoomLeft(d)

-----------------------------------------------------------------------------
(***************************************************************************)
(* What rows come to                                                       *)
(***************************************************************************)

Amount == [r \in Row |-> r.amount]

\* The total of finitely many rows is the sum of their amounts.
LEMMA TotalOf ==
    ASSUME NEW R \in SUBSET Row, IsFiniteSet(R)
    PROVE  Total(R) = SumFunctionOnSet(Amount, R) /\ Total(R) \in Int
<1> DEFINE f == [r \in R |-> r.amount]
<1>1. \A r \in R : Amount[r] \in Int /\ f[r] = Amount[r]
  BY DEF Amount, Row
<1>2. Total(R) = SumFunctionOnSet(f, R)
  BY DEF Total, SumFunction
<1> HIDE DEF f
<1>3. SumFunctionOnSet(f, R) = SumFunctionOnSet(Amount, R)
  BY <1>1, SumSame
<1>4. SumFunctionOnSet(Amount, R) \in Int
  BY <1>1, SumInt
<1> QED
  BY <1>2, <1>3, <1>4

\* No rows, or one.
LEMMA TotalSmall ==
    /\ Total({}) = 0
    /\ \A r \in Row : Total({r}) = r.amount
<1>1. Total({}) = 0
  BY SumEmpty DEF Total, SumFunction
<1>2. ASSUME NEW r \in Row PROVE Total({r}) = r.amount
  <2>1. IsFiniteSet({r}) /\ IsFiniteSet({})
    BY FS_Singleton, FS_EmptySet
  <2>2. Total({r}) = SumFunctionOnSet(Amount, {r})
    BY <2>1, TotalOf
  <2>3. SumFunctionOnSet(Amount, {} \cup {r}) = Amount[r] + SumFunctionOnSet(Amount, {})
    <3>1. \A x \in {} : Amount[x] \in Int
      OBVIOUS
    <3>2. Amount[r] \in Int /\ r \notin {}
      BY DEF Amount, Row
    <3> QED
      BY <2>1, <3>1, <3>2, SumInsert
  <2>4. {} \cup {r} = {r} /\ Amount[r] = r.amount /\ r.amount \in Int
    BY DEF Amount, Row
  <2> QED
    BY <2>2, <2>3, <2>4, SumEmpty
<1> QED
  BY <1>1, <1>2

\* Two sets of rows apart.
LEMMA TotalUnion ==
    ASSUME NEW A \in SUBSET Row, NEW B \in SUBSET Row, IsFiniteSet(A), IsFiniteSet(B),
           A \cap B = {}
    PROVE  /\ IsFiniteSet(A \cup B)
           /\ Total(A \cup B) = Total(A) + Total(B)
           /\ Total(A) \in Int /\ Total(B) \in Int
<1> DEFINE S == A \cup B
<1>1. IsFiniteSet(S)
  BY FS_Union
<1>2. S \in SUBSET Row /\ A \in SUBSET S /\ S \ A = B
  OBVIOUS
<1>3. \A r \in S : Amount[r] \in Int
  BY <1>2 DEF Amount, Row
<1> HIDE DEF S
<1>4. SumFunctionOnSet(Amount, S) = SumFunctionOnSet(Amount, A) + SumFunctionOnSet(Amount, S \ A)
  BY <1>1, <1>2, <1>3, SumSplit
<1> QED
  BY <1>1, <1>2, <1>4, TotalOf DEF S

\* For an account and source there is one row at most.
Keyed(R) == \A r1, r2 \in R : r1.accountid = r2.accountid /\ r1.source = r2.source => r1 = r2

RowsFrom(R, a, src) == {r \in R : r.accountid = a /\ r.source = src}

\* Posted is the total of the rows of an account and source.
LEMMA PostedTotal ==
    ASSUME NEW R \in SUBSET Row, Keyed(R), NEW a, NEW src
    PROVE  /\ Posted(R, a, src) = Total(RowsFrom(R, a, src))
           /\ IsFiniteSet(RowsFrom(R, a, src)) /\ Posted(R, a, src) \in Int
<1> DEFINE rows == RowsFrom(R, a, src)
<1>1. Posted(R, a, src) = IF rows = {} THEN 0 ELSE (CHOOSE r \in rows : TRUE).amount
  BY DEF Posted, RowsFrom
<1>2. CASE rows = {}
  BY <1>1, <1>2, TotalSmall, FS_EmptySet
<1>3. CASE rows # {}
  <2> DEFINE x == CHOOSE r \in rows : TRUE
  <2>1. x \in rows
    BY <1>3
  <2>2. rows = {x} /\ x \in Row
    BY <2>1 DEF RowsFrom, Keyed
  <2>3. x.amount \in Int
    BY <2>2 DEF Row
  <2> HIDE DEF x
  <2>4. Posted(R, a, src) = x.amount
    BY <1>1, <1>3 DEF x
  <2> HIDE DEF rows
  <2>5. Total(rows) = x.amount /\ IsFiniteSet(rows)
    BY <2>2, TotalSmall, FS_Singleton
  <2> QED
    BY <2>3, <2>4, <2>5 DEF rows
<1> QED
  BY <1>2, <1>3

\* What rows post to a money column is the total of its rows.
LEMMA InflowTotal ==
    ASSUME NEW R \in SUBSET Row, IsFiniteSet(R), Keyed(R), NEW a, NEW c \in MoneyColumn
    PROVE  Inflow(R, a, c) = Total(RowsPosted(R, a, c))
<1> DEFINE F(src) == RowsFrom(R, a, src)
<1>1. \A src : /\ F(src) \in SUBSET Row /\ IsFiniteSet(F(src))
               /\ Posted(R, a, src) = Total(F(src)) /\ Posted(R, a, src) \in Int
  BY PostedTotal DEF RowsFrom
<1>2. \A src1, src2 : src1 # src2 => F(src1) \cap F(src2) = {}
  BY DEF RowsFrom
<1>3. \A r \in R : r.source \in Source
  BY DEF Row
<1>4. CASE c = "balance"
  <2> DEFINE S1 == F("commission") \cup F("conversion")
             S2 == S1 \cup F("earnest")
             S3 == S2 \cup F("fee")
             S4 == S3 \cup F("crossAward")
             S5 == S4 \cup F("crossEarnest")
             S6 == S5 \cup F("delivery")
  <2>1. /\ S1 \cap F("earnest") = {} /\ S2 \cap F("fee") = {} /\ S3 \cap F("crossAward") = {}
        /\ S4 \cap F("crossEarnest") = {} /\ S5 \cap F("delivery") = {}
        /\ F("commission") \cap F("conversion") = {}
    BY <1>2
  <2>2. RowsPosted(R, a, c) = S6
    BY <1>3, <1>4 DEF RowsPosted, RowsFrom, ColumnOf, Source
  <2>3. S1 \in SUBSET Row /\ S2 \in SUBSET Row /\ S3 \in SUBSET Row /\ S4 \in SUBSET Row
        /\ S5 \in SUBSET Row
    BY <1>1
  <2> HIDE DEF F
  <2>4. IsFiniteSet(S1) /\ Total(S1) = Total(F("commission")) + Total(F("conversion"))
    BY <1>1, <2>1, TotalUnion
  <2> HIDE DEF S1
  <2>5. IsFiniteSet(S2) /\ Total(S2) = Total(S1) + Total(F("earnest"))
    BY <1>1, <2>1, <2>3, <2>4, TotalUnion
  <2> HIDE DEF S2
  <2>6. IsFiniteSet(S3) /\ Total(S3) = Total(S2) + Total(F("fee"))
    BY <1>1, <2>1, <2>3, <2>5, TotalUnion
  <2> HIDE DEF S3
  <2>7. IsFiniteSet(S4) /\ Total(S4) = Total(S3) + Total(F("crossAward"))
    BY <1>1, <2>1, <2>3, <2>6, TotalUnion
  <2> HIDE DEF S4
  <2>8. IsFiniteSet(S5) /\ Total(S5) = Total(S4) + Total(F("crossEarnest"))
    BY <1>1, <2>1, <2>3, <2>7, TotalUnion
  <2> HIDE DEF S5
  <2>9. Total(S6) = Total(S5) + Total(F("delivery"))
    BY <1>1, <2>1, <2>3, <2>8, TotalUnion
  <2>10. Inflow(R, a, c) = Posted(R, a, "commission") + Posted(R, a, "conversion")
            + Posted(R, a, "earnest") + Posted(R, a, "fee")
            + Posted(R, a, "crossAward") + Posted(R, a, "crossEarnest")
            + Posted(R, a, "delivery")
    BY <1>4 DEF Inflow
  <2> HIDE DEF S6
  <2> QED
    BY <1>1, <2>2, <2>4, <2>5, <2>6, <2>7, <2>8, <2>9, <2>10
<1>5. CASE c = "pendingreturn"
  <2> DEFINE S1 == F("earnestDebt") \cup F("crossEarnestDebt")
  <2>1. F("earnestDebt") \cap F("crossEarnestDebt") = {}
    BY <1>2
  <2>2. RowsPosted(R, a, c) = S1
    BY <1>3, <1>5 DEF RowsPosted, RowsFrom, ColumnOf, Source
  <2> HIDE DEF F
  <2>3. Total(S1) = Total(F("earnestDebt")) + Total(F("crossEarnestDebt"))
    BY <1>1, <2>1, TotalUnion
  <2>4. Inflow(R, a, c) = Posted(R, a, "earnestDebt") + Posted(R, a, "crossEarnestDebt")
    BY <1>5 DEF Inflow
  <2> QED
    BY <1>1, <2>2, <2>3, <2>4
<1>6. ASSUME NEW side \in {"balanceleft", "balanceright"}, c = side
      PROVE  Inflow(R, a, c) = Total(RowsPosted(R, a, c))
  <2> DEFINE src == IF side = "balanceleft" THEN "extensionL" ELSE "extensionR"
  <2>1. RowsPosted(R, a, c) = F(src)
    BY <1>3, <1>6 DEF RowsPosted, RowsFrom, ColumnOf, Source
  <2>2. Inflow(R, a, c) = Posted(R, a, src)
    BY <1>6 DEF Inflow
  <2> QED
    BY <1>1, <2>1, <2>2
<1> QED
  BY <1>4, <1>5, <1>6 DEF MoneyColumn, Column

-----------------------------------------------------------------------------
(***************************************************************************)
(* The rows explain the balances                                           *)
(***************************************************************************)

\* New rows are posted to the columns they name.
LEMMA PostExplains ==
    ASSUME NEW d \in Database, Explained(d), NEW R \in SUBSET Row, IsFiniteSet(R), Keyed(R),
           R \cap d.activity = {},
           NEW e, e.activity = d.activity \cup R,
           \A a \in Account, c \in MoneyColumn : e.account[a][c] = Credit(d.account, R)[a][c]
    PROVE  Explained(e)
<1>1. IsFiniteSet(d.activity) /\ d.activity \in SUBSET Row
  BY DEF Explained, Database
<1>2. IsFiniteSet(e.activity)
  <2> DEFINE S == d.activity \cup R
  <2>1. IsFiniteSet(S)
    BY <1>1, FS_Union
  <2>2. e.activity = S
    OBVIOUS
  <2> HIDE DEF S
  <2> QED
    BY <2>1, <2>2
<1>3. ASSUME NEW a \in Account, NEW c \in MoneyColumn
      PROVE  e.account[a][c] = OpeningAccount[a][c] + Total(RowsPosted(e.activity, a, c))
  <2> DEFINE A == RowsPosted(d.activity, a, c)
             B == RowsPosted(R, a, c)
             S == A \cup B
  <2>1. RowsPosted(e.activity, a, c) = S /\ A \cap B = {}
    BY DEF RowsPosted
  <2>2. A \in SUBSET d.activity /\ B \in SUBSET R
    BY DEF RowsPosted
  <2>3. IsFiniteSet(A) /\ IsFiniteSet(B) /\ A \in SUBSET Row /\ B \in SUBSET Row
    BY <1>1, <2>2, FS_Subset
  <2>4. Inflow(R, a, c) = Total(B)
    BY InflowTotal
  <2>5. d.account[a][c] = OpeningAccount[a][c] + Total(A)
    BY DEF Explained
  <2>6. c \in Column
    BY DEF MoneyColumn
  <2>7. e.account[a][c] = d.account[a][c] + Inflow(R, a, c)
    BY <2>6 DEF Credit
  <2>8. OpeningAccount[a][c] \in Int
    BY <2>6, OpeningAssumption
  <2> HIDE DEF A, B
  <2>9. Total(S) = Total(A) + Total(B) /\ Total(A) \in Int /\ Total(B) \in Int
    BY <2>1, <2>3, TotalUnion
  <2> HIDE DEF S
  <2> QED
    BY <2>1, <2>4, <2>5, <2>7, <2>8, <2>9
<1> QED
  BY <1>2, <1>3 DEF Explained

\* Marking live rows as revoked keeps their total, undoing them turns its sign.
LEMMA UndoneTotals ==
    ASSUME NEW L \in SUBSET Row, IsFiniteSet(L), \A r \in L : r.mark = "plain"
    PROVE  /\ {Revoked(r) : r \in L} \in SUBSET Row /\ {Reversal(r) : r \in L} \in SUBSET Row
           /\ IsFiniteSet({Revoked(r) : r \in L}) /\ IsFiniteSet({Reversal(r) : r \in L})
           /\ Total({Revoked(r) : r \in L}) = Total(L)
           /\ Total({Reversal(r) : r \in L}) = -Total(L)
<1> DEFINE revoked == [r \in Row |-> Revoked(r)]
           reversal == [r \in Row |-> Reversal(r)]
           f == [r \in Row |-> -r.amount]
           zero == [r \in Row |-> 0]
           V == {revoked[r] : r \in L}
           W == {reversal[r] : r \in L}
<1>1. V = {Revoked(r) : r \in L} /\ W = {Reversal(r) : r \in L}
  OBVIOUS
<1>2. V \in SUBSET Row /\ W \in SUBSET Row
  BY <1>1, Opposites
<1>3. IsFiniteSet(V) /\ IsFiniteSet(W)
  BY ImageFinite
<1>4. \A r \in L : /\ Amount[r] = r.amount /\ r.amount \in Int /\ f[r] = -r.amount /\ zero[r] = 0
                  /\ revoked[r] = Revoked(r) /\ reversal[r] = Reversal(r)
                  /\ Revoked(r) \in Row /\ Reversal(r) \in Row
                  /\ Revoked(r).amount = r.amount /\ Reversal(r).amount = -r.amount
  <2>1. ASSUME NEW r \in L
        PROVE  /\ Amount[r] = r.amount /\ r.amount \in Int /\ f[r] = -r.amount /\ zero[r] = 0
               /\ Revoked(r).amount = r.amount /\ Reversal(r).amount = -r.amount
    BY DEF Amount, Row, Revoked, Reversal
  <2> QED
    BY <2>1, Opposites
<1>5. \A r1, r2 \in L : /\ Revoked(r1) = Revoked(r2) => r1 = r2
                        /\ Reversal(r1) = Reversal(r2) => r1 = r2
  <2> TAKE r1, r2 \in L
  <2>1. \A r \in {r1, r2} : /\ r.orderid = Revoked(r).orderid /\ r.accountid = Revoked(r).accountid
                           /\ r.source = Revoked(r).source /\ r.amount = Revoked(r).amount
                           /\ r.orderid = Reversal(r).orderid /\ r.accountid = Reversal(r).accountid
                           /\ r.source = Reversal(r).source /\ r.amount = -Reversal(r).amount
                           /\ r.mark = "plain" /\ r \in Row
    BY DEF Row, Revoked, Reversal
  <2>2. \A x, y \in Row : /\ x.orderid = y.orderid /\ x.accountid = y.accountid
                          /\ x.source = y.source /\ x.amount = y.amount /\ x.mark = y.mark
                          => x = y
    BY DEF Row
  <2> QED
    BY <2>1, <2>2
<1>6. Total(V) = SumFunctionOnSet(Amount, V) /\ Total(W) = SumFunctionOnSet(Amount, W)
      /\ Total(L) = SumFunctionOnSet(Amount, L)
  BY <1>2, <1>3, TotalOf
<1>7. \A r \in L : /\ Amount[revoked[r]] = Amount[r] /\ Amount[reversal[r]] = f[r]
                  /\ Amount[r] \in Int /\ f[r] \in Int /\ zero[r] \in Int
                  /\ zero[r] = f[r] + Amount[r]
  <2>1. \A r \in Row : Amount[r] = r.amount
    BY DEF Amount
  <2> HIDE DEF revoked, reversal, f, zero
  <2>2. \A r \in L : /\ Amount[revoked[r]] = Revoked(r).amount
                    /\ Amount[reversal[r]] = Reversal(r).amount
    BY <1>4, <2>1
  <2> QED
    BY <1>4, <2>2
<1>8. \A r1, r2 \in L : /\ revoked[r1] = revoked[r2] => r1 = r2
                        /\ reversal[r1] = reversal[r2] => r1 = r2
  BY <1>4, <1>5
<1>9. \A r \in L : zero[r] = 0
  BY <1>4
<1> HIDE DEF revoked, reversal, f, zero
<1>10. SumFunctionOnSet(Amount, {revoked[x] : x \in L}) = SumFunctionOnSet(Amount, L)
  BY <1>7, <1>8, SumImage
<1>11. SumFunctionOnSet(Amount, {reversal[x] : x \in L}) = SumFunctionOnSet(f, L)
  BY <1>7, <1>8, SumImage
<1>12. SumFunctionOnSet(zero, L) = SumFunctionOnSet(f, L) + SumFunctionOnSet(Amount, L)
  BY <1>7, SumAdd
<1>13. SumFunctionOnSet(zero, L) = 0
  BY <1>9, SumZero
<1>14. SumFunctionOnSet(f, L) \in Int /\ SumFunctionOnSet(Amount, L) \in Int
  BY <1>7, SumInt
<1>15. SumFunctionOnSet(f, L) = -SumFunctionOnSet(Amount, L)
  BY <1>12, <1>13, <1>14
<1>16. Total(V) = Total(L) /\ Total(W) = -Total(L)
  BY <1>6, <1>10, <1>11, <1>15
<1> QED
  BY <1>1, <1>2, <1>3, <1>16

\* What marks and opposites a revocation writes is new, and its rows are told apart.
LEMMA UndoneRowsNew ==
    ASSUME NEW d \in Database, Sound(d), NEW o, NEW live, live = RevocableRows(d, o)
    PROVE  /\ live \in SUBSET Row /\ live \subseteq d.activity /\ Keyed(live)
           /\ \A r \in live : r.mark = "plain" /\ r.orderid = o /\ r.source # "delivery"
           /\ \A r \in live : Revoked(r) \notin d.activity /\ Reversal(r) \notin d.activity
<1>1. \A r \in live : /\ r \in Row /\ r \in d.activity
                      /\ r.mark = "plain" /\ r.orderid = o /\ r.source # "delivery"
  BY DEF RevocableRows, RowsOf, Database
<1>2. Keyed(live)
  BY <1>1 DEF Keyed, Sound, Once
<1>3. ASSUME NEW r \in live PROVE Revoked(r) \notin d.activity
  <2>1. /\ Revoked(r).orderid = r.orderid /\ Revoked(r).accountid = r.accountid
        /\ Revoked(r).source = r.source /\ Revoked(r).mark = "revoked"
    BY <1>1, Opposites
  <2>2. Revoked(r) # r
    BY <1>1, <2>1
  <2> QED
    BY <1>1, <2>1, <2>2 DEF Sound, Once
<1>4. ASSUME NEW r \in live PROVE Reversal(r) \notin d.activity
  <2>1. /\ Reversal(r).source = r.source /\ Reversal(r).mark = "reversal"
        /\ Undone(Reversal(r)) = Revoked(r)
    BY <1>1, Opposites
  <2>2. Reversal(r) \in d.activity => Revoked(r) \in d.activity
    BY <1>1, <2>1 DEF Sound, Matched
  <2> QED
    BY <1>3, <2>2
<1> QED
  BY <1>1, <1>2, <1>3, <1>4

\* The rows of an account and a column after the live awards of an order are undone.
LEMMA UndoneRowsPosted ==
    ASSUME NEW d \in Database, NEW o, NEW live, live = RevocableRows(d, o), live \subseteq Row,
           NEW a, NEW c
    PROVE  RowsPosted(ReversedActivity(d, o), a, c) =
               (RowsPosted(d.activity, a, c) \ RowsPosted(live, a, c))
                   \cup {Revoked(r) : r \in RowsPosted(live, a, c)}
                   \cup {Reversal(r) : r \in RowsPosted(live, a, c)}
<1> DEFINE V == {Revoked(r) : r \in live}
           W == {Reversal(r) : r \in live}
<1>1. \A r \in live : /\ Revoked(r).accountid = r.accountid /\ Revoked(r).source = r.source
                      /\ Reversal(r).accountid = r.accountid /\ Reversal(r).source = r.source
  <2>1. \A r \in live : Reversal(r).accountid = r.accountid
    BY DEF Reversal, Row
  <2> QED
    BY <2>1, Opposites
<1>2. RowsPosted(V, a, c) = {Revoked(r) : r \in RowsPosted(live, a, c)}
  BY <1>1 DEF RowsPosted
<1>3. RowsPosted(W, a, c) = {Reversal(r) : r \in RowsPosted(live, a, c)}
  BY <1>1 DEF RowsPosted
<1>4. RowsPosted(d.activity \ live, a, c) = RowsPosted(d.activity, a, c) \ RowsPosted(live, a, c)
  BY DEF RowsPosted
<1>5. ReversedActivity(d, o) = (d.activity \ live) \cup V \cup W
  BY DEF ReversedActivity
<1>6. RowsPosted(ReversedActivity(d, o), a, c)
        = RowsPosted(d.activity \ live, a, c) \cup RowsPosted(V, a, c) \cup RowsPosted(W, a, c)
  <2> HIDE DEF V, W
  <2> QED
    BY <1>5 DEF RowsPosted
<1> QED
  BY <1>2, <1>3, <1>4, <1>6

\* Undoing the live awards of an order takes their total off each column.
LEMMA ReverseExplains ==
    ASSUME NEW d \in Database, Sound(d), Explained(d), NEW o \in Generated(d),
           NEW e, e = ReverseRows(d, o)
    PROVE  Explained(e)
<1> DEFINE live == RevocableRows(d, o)
<1>1. /\ live \in SUBSET Row /\ live \subseteq d.activity /\ Keyed(live)
      /\ \A r \in live : r.mark = "plain" /\ r.orderid = o /\ r.source # "delivery"
      /\ \A r \in live : Revoked(r) \notin d.activity /\ Reversal(r) \notin d.activity
  BY UndoneRowsNew
<1>2. e.activity = ReversedActivity(d, o)
  BY ReverseRowsType
<1>3. e.account = Debit(d.account, live)
  BY DEF ReverseRows, Database
<1>4. d.activity \in SUBSET Row /\ IsFiniteSet(d.activity) /\ IsFiniteSet(live)
  BY <1>1, FS_Subset DEF Explained, Database
<1> HIDE DEF live
<1>5. IsFiniteSet(e.activity)
  <2> DEFINE A == d.activity \ live
             V == {Revoked(r) : r \in live}
             W == {Reversal(r) : r \in live}
  <2>1. IsFiniteSet(V) /\ IsFiniteSet(W)
    BY <1>1, <1>4, UndoneTotals
  <2>2. IsFiniteSet(A)
    BY <1>4, FS_Subset
  <2>3. e.activity = (A \cup V) \cup W
    BY <1>2 DEF ReversedActivity, live
  <2> HIDE DEF A, V, W
  <2>4. IsFiniteSet(A \cup V)
    BY <2>1, <2>2, FS_Union
  <2> DEFINE B == A \cup V
             S == B \cup W
  <2> HIDE DEF B
  <2>5. IsFiniteSet(S)
    BY <2>1, <2>4, FS_Union DEF B
  <2>6. e.activity = S
    BY <2>3 DEF B
  <2> HIDE DEF S
  <2> QED
    BY <2>5, <2>6
<1>6. ASSUME NEW a \in Account, NEW c \in MoneyColumn
      PROVE  e.account[a][c] = OpeningAccount[a][c] + Total(RowsPosted(e.activity, a, c))
  <2> DEFINE A == RowsPosted(d.activity, a, c)
             B == RowsPosted(live, a, c)
             V == {Revoked(r) : r \in B}
             W == {Reversal(r) : r \in B}
             C == A \ B
             T == C \cup V
             S == T \cup W
  <2>1. RowsPosted(e.activity, a, c) = S
    BY <1>1, <1>2, UndoneRowsPosted DEF live
  <2>2. /\ B \in SUBSET A /\ A \in SUBSET Row /\ A \subseteq d.activity
        /\ B \in SUBSET Row /\ B \subseteq live /\ C \in SUBSET Row
    BY <1>1, <1>4 DEF RowsPosted
  <2>3. IsFiniteSet(A) /\ IsFiniteSet(B) /\ IsFiniteSet(C)
    BY <1>4, <2>2, FS_Subset
  <2>4. /\ \A r \in B : Revoked(r) \notin A /\ Reversal(r) \notin A
        /\ \A r \in B : r.mark = "plain"
        /\ \A r \in B : Revoked(r).mark = "revoked" /\ Reversal(r).mark = "reversal"
    BY <1>1, <2>2, Opposites
  <2> HIDE DEF A, B
  <2>5. /\ V \in SUBSET Row /\ W \in SUBSET Row /\ IsFiniteSet(V) /\ IsFiniteSet(W)
        /\ Total(V) = Total(B) /\ Total(W) = -Total(B)
    BY <2>2, <2>3, <2>4, UndoneTotals
  <2>6. C \cap V = {} /\ T \cap W = {} /\ C \cap B = {} /\ A = C \cup B
    BY <2>2, <2>4
  <2> HIDE DEF V, W, C
  <2>7. IsFiniteSet(T) /\ Total(T) = Total(C) + Total(V) /\ Total(C) \in Int
    BY <2>2, <2>3, <2>5, <2>6, TotalUnion
  <2>8. T \in SUBSET Row
    BY <2>2, <2>5
  <2> HIDE DEF T
  <2>9. Total(S) = Total(T) + Total(W)
    BY <2>5, <2>6, <2>7, <2>8, TotalUnion
  <2>10. Total(A) = Total(C) + Total(B) /\ Total(B) \in Int
    <3> DEFINE D == C \cup B
    <3>1. Total(D) = Total(C) + Total(B) /\ Total(B) \in Int
      BY <2>2, <2>3, <2>6, TotalUnion
    <3>2. A = D
      BY <2>6
    <3> HIDE DEF D
    <3> QED
      BY <3>1, <3>2
  <2>11. Inflow(live, a, c) = Total(B)
    BY <1>1, <1>4, InflowTotal DEF B
  <2>12. d.account[a][c] = OpeningAccount[a][c] + Total(A) /\ OpeningAccount[a][c] \in Int
    BY OpeningAssumption DEF Explained, A, MoneyColumn
  <2>13. e.account[a][c] = d.account[a][c] - Inflow(live, a, c)
    BY <1>3 DEF Debit, MoneyColumn
  <2> HIDE DEF S
  <2> QED
    BY <2>1, <2>5, <2>7, <2>9, <2>10, <2>11, <2>12, <2>13
<1> QED
  BY <1>5, <1>6 DEF Explained

-----------------------------------------------------------------------------
(***************************************************************************)
(* What a payment posts                                                    *)
(***************************************************************************)

\* A payment writes finitely many rows, one at most for an account and source.
LEMMA PayoutRowsFinite ==
    ASSUME NEW d \in Database, NEW o \in Generated(d)
    PROVE  /\ IsFiniteSet(PayoutRows(d, o)) /\ Keyed(PayoutRows(d, o))
           /\ PayoutRows(d, o) \in SUBSET Row
<1> DEFINE R == PayoutRows(d, o)
<1>1. R \in SUBSET Row /\ Keyed(R)
  BY PayoutRowsType, PayoutRowsOnce DEF Keyed
<1> DEFINE Keys == Account \X Source
           key == [r \in R |-> <<r.accountid, r.source>>]
<1>2. IsFiniteSet(Keys)
  <2>1. IsFiniteSet(Account)
    <3>1. IsFiniteSet({HeadQuarter})
      BY FS_Singleton
    <3> QED
      BY <3>1, FiniteAssumption, FS_Union DEF Account
  <2>2. IsFiniteSet(Source)
    <3> DEFINE A == {"commission"} \cup {"conversion"}
               B == {"earnest"} \cup {"earnestDebt"}
               C == {"fee"} \cup {"crossAward"}
               D == {"crossEarnest"} \cup {"crossEarnestDebt"}
               E == {"extensionL"} \cup {"extensionR"}
               F == {"delivery"}
    <3>1. /\ IsFiniteSet({"commission"}) /\ IsFiniteSet({"conversion"}) /\ IsFiniteSet({"earnest"})
          /\ IsFiniteSet({"earnestDebt"}) /\ IsFiniteSet({"fee"}) /\ IsFiniteSet({"crossAward"})
          /\ IsFiniteSet({"crossEarnest"}) /\ IsFiniteSet({"crossEarnestDebt"})
          /\ IsFiniteSet({"extensionL"}) /\ IsFiniteSet({"extensionR"}) /\ IsFiniteSet(F)
      BY FS_Singleton
    <3>2. IsFiniteSet(A) /\ IsFiniteSet(B) /\ IsFiniteSet(C) /\ IsFiniteSet(D) /\ IsFiniteSet(E)
      BY <3>1, FS_Union
    <3>3. Source = ((A \cup B) \cup (C \cup D)) \cup (E \cup F)
      BY DEF Source
    <3> HIDE DEF A, B, C, D, E, F
    <3>4. IsFiniteSet(A \cup B) /\ IsFiniteSet(C \cup D) /\ IsFiniteSet(E \cup F)
      BY <3>1, <3>2, FS_Union
    <3>5. IsFiniteSet((A \cup B) \cup (C \cup D))
      BY <3>4, FS_Union
    <3>6. IsFiniteSet(((A \cup B) \cup (C \cup D)) \cup (E \cup F))
      BY <3>4, <3>5, FS_Union
    <3> QED
      BY <3>3, <3>6, Zenon
  <2> QED
    BY <2>1, <2>2, FS_Product
<1>3. key \in Injection(R, Keys)
  <2>1. \A r \in R : r.accountid \in Account /\ r.source \in Source
    BY <1>1 DEF Row
  <2>2. key \in [R -> Keys]
    BY <2>1
  <2>3. ASSUME NEW r1 \in R, NEW r2 \in R, key[r1] = key[r2]
        PROVE  r1 = r2
    BY <1>1, <2>3 DEF Keyed
  <2>4. DOMAIN key = R
    OBVIOUS
  <2> HIDE DEF key, R, Keys
  <2> QED
    BY <2>2, <2>3, <2>4 DEF Injection, IsInjective
<1>4. IsFiniteSet(R)
  <2> HIDE DEF key, R, Keys
  <2> QED
    BY <1>2, <1>3, FS_Injection
<1> QED
  BY <1>1, <1>4

\* What moving the award of a by delta changes.
Moved(d, e, a, delta) ==
    LET old == d.award[a].pendingreturn
        freed == Freed(old, old + delta, AwardAmount[a])
        u == Upstream[a]
        last == d.award[a].lastorderid
    IN  /\ e \in Database
        /\ e.activity = d.activity /\ e.orders = d.orders
        /\ e.delivery = d.delivery /\ e.partitionaward = d.partitionaward
        /\ e.inventory = d.inventory /\ e.entitlement = d.entitlement
        /\ e.award[a].pendingreturn = old + delta
        /\ e.award[a].lastorderid = last
        /\ \A x \in Linked \ {a} :
               e.award[x] = d.award[x] /\ e.awardhistory[x] = d.awardhistory[x]
        /\ last \in Order =>
               e.awardhistory[a] = [d.awardhistory[a] EXCEPT ![last] = @ + delta]
        /\ e.account[u]["balancetriple"] = d.account[u]["balancetriple"] + freed
        /\ e.account[u]["balancetriplelock"] = d.account[u]["balancetriplelock"] - freed
        /\ \A x \in Account, c \in Column :
               x # u \/ c \in MoneyColumn => e.account[x][c] = d.account[x][c]
        /\ u \in Account /\ freed \in Int /\ old \in Int

LEMMA MoveAwardEffect ==
    ASSUME NEW d \in Database, NEW a \in Linked, NEW delta \in Int,
           NEW e, e = MoveAward(d, a, delta)
    PROVE  Moved(d, e, a, delta)
<1> DEFINE old == d.award[a].pendingreturn
           freed == Freed(old, old + delta, AwardAmount[a])
           u == Upstream[a]
           last == d.award[a].lastorderid
           award == [d.award EXCEPT ![a] = [@ EXCEPT !.pendingreturn = old + delta]]
           history == Logged(d.awardhistory, a, last, delta)
           account == Unlock(d.account, u, freed)
<1>1. e \in Database
  BY MoveAwardType
<1>2. e = [d EXCEPT !.award = award, !.awardhistory = history, !.account = account]
  BY DEF MoveAward, Database
<1>3. e.award = award /\ e.awardhistory = history /\ e.account = account
  BY <1>2 DEF Database
<1>4. /\ d.award \in [Linked -> [pendingreturn : Int, lastorderid : Order \cup {NULL}]]
      /\ d.awardhistory \in [Linked -> [Order -> Int]]
      /\ d.account \in [Account -> [Column -> Int]]
  BY DEF Database
<1>5. old \in Int /\ AwardAmount[a] \in Int /\ u \in Account
  BY <1>4, OpeningAssumption, TreeAssumption
<1>6. freed \in Int
  BY <1>5 DEF Freed
<1>7. /\ award[a].pendingreturn = old + delta /\ award[a].lastorderid = last
      /\ \A x \in Linked \ {a} : award[x] = d.award[x]
  BY <1>4, <1>5
<1>8. /\ \A x \in Linked \ {a} : history[x] = d.awardhistory[x]
      /\ last \in Order => history[a] = [d.awardhistory[a] EXCEPT ![last] = @ + delta]
  BY <1>4 DEF Logged
<1>9. /\ account[u]["balancetriple"] = d.account[u]["balancetriple"] + freed
      /\ account[u]["balancetriplelock"] = d.account[u]["balancetriplelock"] - freed
      /\ \A x \in Account, c \in Column :
             x # u \/ c \in MoneyColumn => account[x][c] = d.account[x][c]
  <2> HIDE DEF freed, u
  <2> QED
    BY <1>4, <1>5, <1>6 DEF Unlock, MoneyColumn, Column
<1>10. /\ e.activity = d.activity /\ e.orders = d.orders
       /\ e.delivery = d.delivery /\ e.partitionaward = d.partitionaward
       /\ e.inventory = d.inventory /\ e.entitlement = d.entitlement
  <2> HIDE DEF award, history, account
  <2> QED
    BY <1>2 DEF Database
<1> HIDE DEF award, history, account
<1> QED
  BY <1>1, <1>3, <1>5, <1>6, <1>7, <1>8, <1>9, <1>10 DEF Moved

-----------------------------------------------------------------------------
(***************************************************************************)
(* The statements keep the books                                           *)
(***************************************************************************)

\* No status changes what was ordered, by whom and for how much.
SameOrder(r1, r2) ==
    /\ r1.studentid = r2.studentid /\ r1.productid = r2.productid
    /\ r1.price = r2.price /\ r1.paymentmethod = r2.paymentmethod

LEMMA SetStatusKeeps ==
    ASSUME NEW d \in Database, NEW o \in Generated(d), NEW st \in Status,
           NEW e, e = SetStatus(d, o, st)
    PROVE  \A x \in Generated(d) : SameOrder(e.orders[x], d.orders[x])
<1> DEFINE d1 == [d EXCEPT !.orders[o].status = st]
           limit == Pricing[d.orders[o].productid].purchaselimit
           bought == SamePurchase(d1, o) \cap OrdersIn(d1, PurchasedStatus \cup {"uncommisioned"})
           crowded == IF /\ StatusOf(d, o) \in OpenStatus /\ st \in PurchasedStatus
                         /\ LimitReached(limit, Cardinality(bought))
                      THEN (SamePurchase(d1, o) \cap OrdersIn(d1, OpenStatus)) \ {o}
                      ELSE {}
           died == IF st \in DeadStatus /\ st # StatusOf(d, o) THEN {o} ELSE {}
           orders1 == [d.orders EXCEPT ![o] = [@ EXCEPT !.status = st]]
           orders2 == [x \in Order |->
               IF x \in crowded THEN [orders1[x] EXCEPT !.status = "failed", !.couponcode = NULL]
               ELSE IF x \in died THEN [orders1[x] EXCEPT !.couponcode = NULL]
               ELSE orders1[x]]
<1>1. d1 = [d EXCEPT !.orders = orders1] /\ d1.orders = orders1
  BY DEF Database
<1>2. e.orders = orders2
  <2> HIDE DEF orders1, crowded, died
  <2> QED
    BY <1>1 DEF SetStatus, crowded, died, Database
<1>3. \A x \in Generated(d) : /\ x \in Order /\ orders1[x] \in OrderRow
                              /\ SameOrder(orders1[x], d.orders[x])
  <2> TAKE x \in Generated(d)
  <2>1. x \in Order /\ d.orders[x] \in OrderRow
    BY GeneratedRow
  <2>2. orders1[x] \in {d.orders[x], [d.orders[x] EXCEPT !.status = st]}
    BY <2>1 DEF Database
  <2> HIDE DEF orders1
  <2> QED
    BY <2>1, <2>2 DEF OrderRow, SameOrder
<1> HIDE DEF orders1, crowded, died
<1>4. \A r \in OrderRow : /\ SameOrder([r EXCEPT !.status = "failed", !.couponcode = NULL], r)
                          /\ SameOrder([r EXCEPT !.couponcode = NULL], r) /\ SameOrder(r, r)
  BY DEF OrderRow, SameOrder
<1>5. \A x \in Generated(d) : SameOrder(e.orders[x], orders1[x])
  BY <1>2, <1>3, <1>4
<1> QED
  BY <1>3, <1>5 DEF SameOrder

\* The stock of the agent and product of o has moved by n units.
UnitOf(d, o, a, pid) == d.orders[o].productid = pid /\ Upstream[d.orders[o].studentid] = a
StockMoved(d, e, o, n) ==
    \A a \in Agent, pid \in Product :
        e.inventory[a][pid] = d.inventory[a][pid] + IF UnitOf(d, o, a, pid) THEN n ELSE 0
Taken(d, o) == IF TakesStock(d, o) THEN -1 ELSE 0

\* The days an activation adds to entitlement t of student x.
Extended(d, o, x, t) ==
    LET days == Pricing[d.orders[o].productid].validdays[t] IN
    IF x = d.orders[o].studentid /\ days # 0 THEN ExtendedTo(d.entitlement[x][t], days)
    ELSE d.entitlement[x][t]

\* A statement that posts nothing and hands no award over.
LEMMA QuietBooks ==
    ASSUME NEW d, Books(d), NEW e,
           e.account = d.account, e.activity = d.activity, e.delivery = d.delivery,
           e.partitionaward = d.partitionaward,
           e.award = d.award, e.awardhistory = d.awardhistory,
           \A x \in Order : d.delivery[x] # "none" =>
               e.orders[x].productid = d.orders[x].productid
    PROVE  Books(e)
<1>1. Copied(e) /\ Explained(e) /\ HistoryAddsUp(e)
  BY DEF Books, Copied, PlainRows, Explained, HistoryAddsUp
<1>2. LocksMatch(e)
  BY DEF Books, LocksMatch, LockedIn
<1>3. Delivered(e)
  <2> SUFFICES ASSUME NEW x \in Order PROVE PaidByStatus(e, x)
    BY DEF Delivered
  <2>1. PaidByStatus(d, x)
    BY DEF Books, Delivered
  <2>2. DeliveryRows(e, x) = DeliveryRows(d, x)
    BY DEF DeliveryRows, RowsOf
  <2>3. CASE d.delivery[x] = "none"
    BY <2>1, <2>2, <2>3 DEF PaidByStatus
  <2>4. CASE d.delivery[x] # "none"
    <3>1. /\ PriceOfDelivery(e, x) = PriceOfDelivery(d, x)
          /\ \A n, k : DeliveryRow(e, x, n, k) = DeliveryRow(d, x, n, k)
      BY <2>4 DEF PriceOfDelivery, DeliveryRow
    <3> QED
      BY <2>1, <2>2, <3>1 DEF PaidByStatus
  <2> QED
    BY <2>3, <2>4
<1> QED
  BY <1>1, <1>2, <1>3 DEF Books

LEMMA SetStatusBooks ==
    ASSUME NEW d \in Database, Books(d), NEW o \in Generated(d), NEW st \in Status,
           \A x \in Order : d.delivery[x] # "none" => x \in Generated(d),
           NEW e, e = SetStatus(d, o, st)
    PROVE  Books(e)
<1>1. e = [d EXCEPT !.orders = e.orders]
  BY SetStatusOrders
<1>2. /\ e.account = d.account /\ e.activity = d.activity /\ e.delivery = d.delivery
      /\ e.partitionaward = d.partitionaward
      /\ e.award = d.award /\ e.awardhistory = d.awardhistory
  BY <1>1 DEF Database
<1>3. \A x \in Generated(d) : e.orders[x].productid = d.orders[x].productid
  BY SetStatusKeeps DEF SameOrder
<1> QED
  BY <1>2, <1>3, QuietBooks

LEMMA WithdrawBooks ==
    ASSUME NEW d \in Database, Books(d), NEW o \in Generated(d),
           NEW e, e = WithdrawEntitlement(d, o)
    PROVE  Books(e)
<1>1. /\ e.account = d.account /\ e.partitionaward = d.partitionaward
      /\ e.award = d.award /\ e.awardhistory = d.awardhistory
      /\ e.activity = d.activity /\ e.delivery = d.delivery
      /\ e.orders = [d.orders EXCEPT ![o] = [@ EXCEPT !.couponcode = NULL]]
  BY DEF WithdrawEntitlement, Database
<1>2. \A x \in Order : e.orders[x].productid = d.orders[x].productid
  <2> TAKE x \in Order
  <2>1. d.orders[o] \in OrderRow
    BY GeneratedRow
  <2>2. [d.orders[o] EXCEPT !.couponcode = NULL].productid = d.orders[o].productid
    BY <2>1 DEF OrderRow
  <2> QED
    BY <1>1, <2>2 DEF Database
<1> QED
  BY <1>1, <1>2, QuietBooks

\* The days and the unit of an order that is refunded.
LEMMA WithdrawFields ==
    ASSUME NEW d \in Database, NEW o \in Generated(d), NEW e, e = WithdrawEntitlement(d, o)
    PROVE  /\ \A x \in Student, t \in EntitlementType :
                  e.entitlement[x][t] = d.entitlement[x][t]
                      - IF x = d.orders[o].studentid
                        THEN Pricing[d.orders[o].productid].validdays[t] ELSE 0
           /\ StockMoved(d, e, o, IF d.orders[o].paymentmethod \in InventoryMethod THEN 1 ELSE 0)
<1> DEFINE order == d.orders[o]
           s == order.studentid
           p == order.productid
           u == Upstream[s]
           days == [t \in EntitlementType |-> d.entitlement[s][t] - Pricing[p].validdays[t]]
           entitlement == [d.entitlement EXCEPT ![s] = days]
           row == [d.inventory[u] EXCEPT ![p] = d.inventory[u][p] + 1]
           inventory == [d.inventory EXCEPT ![u] = row]
           back == order.paymentmethod \in InventoryMethod /\ HasDirectAgent(s)
<1>1. /\ s \in Student /\ p \in Product
      /\ HasDirectAgent(s) => u \in Agent
      /\ Pricing[p].validdays \in [EntitlementType -> Nat]
      /\ d.entitlement \in [Student -> [EntitlementType -> Int]]
      /\ d.inventory \in [Agent -> [Product -> Int]]
      /\ HeadQuarter \notin Agent
  BY StudentOfOrder, PricingAssumption, TreeAssumption DEF Database
<1>2. /\ e.entitlement = entitlement
      /\ e.inventory = IF back THEN inventory ELSE d.inventory
  BY DEF WithdrawEntitlement, Database
<1>3. ASSUME NEW x \in Student, NEW t \in EntitlementType
      PROVE  e.entitlement[x][t] = d.entitlement[x][t]
                 - IF x = s THEN Pricing[p].validdays[t] ELSE 0
  <2>1. d.entitlement[x][t] \in Int /\ Pricing[p].validdays[t] \in Int
    BY <1>1
  <2>2. entitlement[x] = IF x = s THEN days ELSE d.entitlement[x]
    BY <1>1
  <2> HIDE DEF s, p, entitlement
  <2> QED
    BY <1>2, <2>1, <2>2
<1>4. ASSUME NEW a \in Agent, NEW pid \in Product
      PROVE  e.inventory[a][pid] = d.inventory[a][pid]
                 + IF p = pid /\ u = a THEN IF order.paymentmethod \in InventoryMethod THEN 1 ELSE 0
                   ELSE 0
  <2>1. d.inventory[a][pid] \in Int
    BY <1>1
  <2>2. CASE back
    <3>1. u \in Agent /\ p \in Product
      BY <1>1, <2>2
    <3> HIDE DEF u, p
    <3>2. row[pid] = d.inventory[u][pid] + IF p = pid THEN 1 ELSE 0
      <4>1. d.inventory[u] \in [Product -> Int] /\ d.inventory[u][p] \in Int
        BY <1>1, <3>1
      <4> QED
        BY <4>1
    <3> HIDE DEF row
    <3>3. inventory[a] = IF u = a THEN row ELSE d.inventory[a]
      BY <1>1, <3>1
    <3> HIDE DEF inventory
    <3> QED
      BY <1>2, <2>1, <2>2, <3>2, <3>3
  <2>3. CASE ~ back
    <3>1. u = a => order.paymentmethod \notin InventoryMethod
      BY <1>1, <2>3 DEF HasDirectAgent
    <3>2. e.inventory[a][pid] = d.inventory[a][pid]
      BY <1>2, <2>3
    <3> HIDE DEF u, p
    <3> QED
      BY <2>1, <3>1, <3>2
  <2> QED
    BY <2>2, <2>3
<1> QED
  BY <1>3, <1>4 DEF StockMoved, UnitOf

\* Activating an order that was never paid opens its delivery.
LEMMA EntitleBooks ==
    ASSUME NEW d \in Database, Books(d), NEW o \in Generated(d), ~ HasActivity(d, o),
           NEW e, e = Entitle(d, o)
    PROVE  /\ Books(e) /\ e.inventory = d.inventory
           /\ e.delivery[o] \in {"PENDING", d.delivery[o]}
           /\ \A x \in Student, t \in EntitlementType : e.entitlement[x][t] = Extended(d, o, x, t)
<1>1. /\ e.account = d.account /\ e.partitionaward = d.partitionaward
      /\ e.award = d.award /\ e.awardhistory = d.awardhistory
      /\ e.activity = d.activity /\ e.orders = d.orders /\ e.inventory = d.inventory
      /\ e.delivery[o] \in {"PENDING", d.delivery[o]}
      /\ \A x \in Order \ {o} : e.delivery[x] = d.delivery[x]
  <2>1. d.delivery \in [Order -> DeliveryStatus] /\ o \in Order
    BY GeneratedRow DEF Database
  <2> QED
    BY <2>1 DEF Entitle, Database
<1>2. Copied(e) /\ Explained(e) /\ HistoryAddsUp(e)
  BY <1>1 DEF Books, Copied, PlainRows, Explained, HistoryAddsUp
<1>3. LocksMatch(e)
  BY <1>1 DEF Books, LocksMatch, LockedIn
<1>4. Delivered(e)
  <2> SUFFICES ASSUME NEW x \in Order PROVE PaidByStatus(e, x)
    BY DEF Delivered
  <2>1. PaidByStatus(d, x)
    BY DEF Books, Delivered
  <2>2. /\ DeliveryRows(e, x) = DeliveryRows(d, x)
        /\ PriceOfDelivery(e, x) = PriceOfDelivery(d, x)
        /\ \A n, k : DeliveryRow(e, x, n, k) = DeliveryRow(d, x, n, k)
    BY <1>1 DEF DeliveryRows, RowsOf, PriceOfDelivery, DeliveryRow
  <2>3. CASE e.delivery[x] = d.delivery[x]
    BY <2>1, <2>2, <2>3 DEF PaidByStatus
  <2>4. CASE x = o /\ e.delivery[x] = "PENDING"
    <3>1. DeliveryRows(e, x) = {}
      BY <2>2, <2>4 DEF HasActivity, DeliveryRows
    <3> QED
      BY <2>4, <3>1 DEF PaidByStatus
  <2> QED
    BY <1>1, <2>3, <2>4
<1>5. \A x \in Student, t \in EntitlementType : e.entitlement[x][t] = Extended(d, o, x, t)
  <2> DEFINE s == d.orders[o].studentid
             p == Pricing[d.orders[o].productid]
             row == [t \in EntitlementType |->
                         IF p.validdays[t] = 0 THEN d.entitlement[s][t]
                         ELSE ExtendedTo(d.entitlement[s][t], p.validdays[t])]
             entitlement == [d.entitlement EXCEPT ![s] = row]
  <2>1. e.entitlement = entitlement
    BY DEF Entitle, Database
  <2>2. s \in Student /\ d.entitlement \in [Student -> [EntitlementType -> Int]]
    BY StudentOfOrder DEF Database
  <2> HIDE DEF row
  <2>3. \A x \in Student : entitlement[x] = IF x = s THEN row ELSE d.entitlement[x]
    BY <2>2
  <2> HIDE DEF entitlement
  <2>4. ASSUME NEW x \in Student, NEW t \in EntitlementType
        PROVE  e.entitlement[x][t] = Extended(d, o, x, t)
    <3>1. CASE x = s
      <4>1. e.entitlement[x] = row
        BY <2>1, <2>3, <3>1
      <4>2. row[t] = IF p.validdays[t] = 0 THEN d.entitlement[s][t]
                     ELSE ExtendedTo(d.entitlement[s][t], p.validdays[t])
        BY DEF row
      <4> QED
        BY <3>1, <4>1, <4>2 DEF Extended
    <3>2. CASE x # s
      BY <2>1, <2>3, <3>2 DEF Extended
    <3> QED
      BY <3>1, <3>2
  <2> QED
    BY <2>4
<1> QED
  BY <1>1, <1>2, <1>3, <1>4, <1>5 DEF Books

\* Rows that are posted, and copied when they are extension awards.
LEMMA PostBooks ==
    ASSUME NEW d \in Database, Books(d), NEW R \in SUBSET Row, IsFiniteSet(R), Keyed(R),
           R \cap d.activity = {},
           NEW e, e.activity = d.activity \cup R, e.account = Credit(d.account, R),
           e.partitionaward = d.partitionaward
                                  \cup PartitionAwards({r \in R : r.mark = "plain"}),
           e.award = d.award, e.awardhistory = d.awardhistory
    PROVE  Copied(e) /\ Explained(e) /\ HistoryAddsUp(e) /\ LocksMatch(e)
<1> DEFINE P == PlainRows(d)
           Q == {r \in R : r.mark = "plain"}
<1>1. Copied(e)
  <2>1. PlainRows(e) = P \cup Q
    BY DEF PlainRows
  <2>2. PartitionAwards(P \cup Q) = PartitionAwards(P) \cup PartitionAwards(Q)
    <3> HIDE DEF P, Q
    <3> QED
      BY DEF PartitionAwards
  <2>3. d.partitionaward = PartitionAwards(P)
    BY DEF Books, Copied
  <2> DEFINE A == PartitionAwards(P) \cup PartitionAwards(Q)
             S == P \cup Q
  <2>4. e.partitionaward = A
    BY <2>3
  <2>5. PartitionAwards(S) = A
    BY <2>2
  <2>6. PlainRows(e) = S
    BY <2>1
  <2> HIDE DEF A, S
  <2> QED
    BY <2>4, <2>5, <2>6 DEF Copied
<1>2. Explained(e)
  BY PostExplains DEF Books
<1>3. HistoryAddsUp(e)
  BY DEF Books, HistoryAddsUp
<1>4. LocksMatch(e)
  <2> SUFFICES ASSUME NEW a \in Account, NEW c \in {"balancetriple", "balancetriplelock"}
               PROVE  e.account[a][c] = d.account[a][c] /\ LockedIn(e, a) = LockedIn(d, a)
    BY DEF Books, LocksMatch
  <2>1. Inflow(R, a, c) = 0
    BY DEF Inflow
  <2>2. d.account[a][c] \in Int /\ c \in Column
    BY DEF Database, Column
  <2> QED
    BY <2>1, <2>2 DEF Credit, LockedIn
<1> QED
  BY <1>1, <1>2, <1>3, <1>4

\* Awards that are paid out for an order without rows.
LEMMA PayoutBooks ==
    ASSUME NEW d \in Database, Books(d), NEW o \in Generated(d), ~ HasActivity(d, o),
           NEW R, R = PayoutRows(d, o),
           NEW e, e.activity = d.activity \cup R, e.account = Credit(d.account, R),
           e.partitionaward = d.partitionaward \cup PartitionAwards(R),
           e.award = d.award, e.awardhistory = d.awardhistory,
           e.orders = d.orders, e.delivery = d.delivery
    PROVE  Books(e)
<1>1. IsFiniteSet(R) /\ Keyed(R) /\ R \in SUBSET Row
  BY PayoutRowsFinite
<1>2. \A r \in R : r.orderid = o /\ r.mark = "plain" /\ r.source # "delivery"
  BY PayoutRowsType
<1>3. R \cap d.activity = {}
  BY <1>2 DEF HasActivity, RowsOf
<1>4. R = {r \in R : r.mark = "plain"}
  BY <1>2
<1>5. Copied(e) /\ Explained(e) /\ HistoryAddsUp(e) /\ LocksMatch(e)
  <2>1. PartitionAwards(R) = PartitionAwards({r \in R : r.mark = "plain"})
    BY <1>4, Zenon
  <2> QED
    BY <1>1, <1>3, <2>1, PostBooks
<1>6. ASSUME NEW x \in Order PROVE PaidByStatus(e, x)
  <2>1. PaidByStatus(d, x)
    BY DEF Books, Delivered
  <2>2. DeliveryRows(e, x) = DeliveryRows(d, x)
    BY <1>2 DEF DeliveryRows, RowsOf
  <2>3. /\ PriceOfDelivery(e, x) = PriceOfDelivery(d, x)
        /\ \A n, k : DeliveryRow(e, x, n, k) = DeliveryRow(d, x, n, k)
    BY DEF PriceOfDelivery, DeliveryRow
  <2> QED
    BY <2>1, <2>2, <2>3 DEF PaidByStatus
<1> QED
  BY <1>5, <1>6 DEF Books, Delivered

\* Awards that are worth something and locked are finitely many.
LEMMA LockedFinite ==
    ASSUME NEW d, NEW a
    PROVE  /\ IsFiniteSet(LockedIn(d, a)) /\ IsFiniteSet(LockedBefore(a))
           /\ \A x \in LockedIn(d, a) : AwardAmount[x] \in Int
           /\ \A x \in LockedBefore(a) : AwardAmount[x] \in Int
           /\ Worth(LockedIn(d, a)) \in Int /\ Worth(LockedBefore(a)) \in Int
<1>1. LockedIn(d, a) \subseteq Agent /\ LockedBefore(a) \subseteq Agent
  BY OpeningAssumption DEF LockedIn, LockedBefore, AwardsUnder
<1>2. IsFiniteSet(LockedIn(d, a)) /\ IsFiniteSet(LockedBefore(a))
  BY <1>1, FiniteAssumption, FS_Subset
<1>3. /\ \A x \in LockedIn(d, a) : AwardAmount[x] \in Int
      /\ \A x \in LockedBefore(a) : AwardAmount[x] \in Int
  BY OpeningAssumption DEF LockedIn, LockedBefore, AwardsUnder
<1> QED
  BY <1>2, <1>3, SumInt DEF Worth

\* An award that moves, and the history it is logged in.
LEMMA MoveBooks ==
    ASSUME NEW d \in Database, Books(d), NEW a \in Linked, NEW delta \in Int,
           d.award[a].lastorderid \in Order,
           NEW e, e = MoveAward(d, a, delta)
    PROVE  Books(e)
<1> DEFINE old == d.award[a].pendingreturn
           freed == Freed(old, old + delta, AwardAmount[a])
           u == Upstream[a]
           last == d.award[a].lastorderid
<1>1. /\ e \in Database
      /\ e.activity = d.activity /\ e.orders = d.orders
      /\ e.delivery = d.delivery /\ e.partitionaward = d.partitionaward
      /\ e.award[a].pendingreturn = old + delta
      /\ e.award[a].lastorderid = last
      /\ \A x \in Linked \ {a} :
             e.award[x] = d.award[x] /\ e.awardhistory[x] = d.awardhistory[x]
      /\ e.awardhistory[a] = [d.awardhistory[a] EXCEPT ![last] = @ + delta]
      /\ e.account[u]["balancetriple"] = d.account[u]["balancetriple"] + freed
      /\ e.account[u]["balancetriplelock"] = d.account[u]["balancetriplelock"] - freed
      /\ \A x \in Account, c \in Column :
             x # u \/ c \in MoneyColumn => e.account[x][c] = d.account[x][c]
      /\ u \in Account /\ freed \in Int /\ old \in Int
  <2>1. Moved(d, e, a, delta)
    BY MoveAwardEffect
  <2>2. last \in Order
    OBVIOUS
  <2> QED
    BY <2>1, <2>2 DEF Moved
<1>2. /\ e.activity = d.activity /\ e.orders = d.orders /\ e.delivery = d.delivery
      /\ e.partitionaward = d.partitionaward
  BY <1>1
<1>3. AwardAmount[a] \in Int
  BY OpeningAssumption
<1> HIDE DEF u
<1>4. Copied(e)
  BY <1>2 DEF Books, Copied, PlainRows
<1>5. Explained(e)
  BY <1>1, <1>2 DEF Books, Explained, MoneyColumn
<1>6. Delivered(e)
  <2> SUFFICES ASSUME NEW x \in Order PROVE PaidByStatus(e, x)
    BY DEF Delivered
  <2>1. PaidByStatus(d, x)
    BY DEF Books, Delivered
  <2>2. /\ DeliveryRows(e, x) = DeliveryRows(d, x)
        /\ PriceOfDelivery(e, x) = PriceOfDelivery(d, x)
        /\ \A n, k : DeliveryRow(e, x, n, k) = DeliveryRow(d, x, n, k)
    BY <1>2 DEF DeliveryRows, RowsOf, PriceOfDelivery, DeliveryRow
  <2> QED
    BY <1>2, <2>1, <2>2 DEF PaidByStatus
<1>7. HistoryAddsUp(e)
  <2>1. ASSUME NEW x \in Linked \ {a}
        PROVE  /\ e.award[x].pendingreturn
                      = OpeningAward[x] + SumFunctionOnSet(e.awardhistory[x], Order)
               /\ e.award[x].lastorderid = NULL => \A o \in Order : e.awardhistory[x][o] = 0
    BY <1>1 DEF Books, HistoryAddsUp
  <2>2. e.award[a].pendingreturn = OpeningAward[a] + SumFunctionOnSet(e.awardhistory[a], Order)
    <3> DEFINE f == d.awardhistory[a]
               g == e.awardhistory[a]
    <3>1. f \in [Order -> Int] /\ g \in [Order -> Int]
      BY <1>1 DEF Database
    <3>2. g[last] = f[last] + delta /\ \A x \in Order \ {last} : g[x] = f[x]
      BY <1>1, <3>1
    <3>3. old = OpeningAward[a] + SumFunctionOnSet(f, Order) /\ OpeningAward[a] \in Int
      BY OpeningAssumption DEF Books, HistoryAddsUp
    <3>4. \A x \in Order : f[x] \in Int /\ g[x] \in Int
      BY <3>1
    <3>5. last \in Order
      OBVIOUS
    <3> HIDE DEF f, g, last, old
    <3>6. SumFunctionOnSet(g, Order) = SumFunctionOnSet(f, Order) + (g[last] - f[last])
      BY <3>2, <3>4, <3>5, FiniteAssumption, SumChange
    <3>7. SumFunctionOnSet(f, Order) \in Int /\ f[last] \in Int
      BY <3>4, <3>5, FiniteAssumption, SumInt
    <3>8. e.award[a].pendingreturn = OpeningAward[a] + SumFunctionOnSet(g, Order)
      BY <1>1, <3>2, <3>3, <3>6, <3>7
    <3> QED
      BY <3>8 DEF g
  <2>3. e.award[a].lastorderid # NULL
    BY <1>1, PricingAssumption
  <2> QED
    BY <2>1, <2>2, <2>3 DEF HistoryAddsUp
<1>8. LocksMatch(e)
  <2>1. ASSUME NEW x \in Account \ {u}
        PROVE  /\ LockedIn(e, x) = LockedIn(d, x)
               /\ e.account[x]["balancetriple"] = d.account[x]["balancetriple"]
               /\ e.account[x]["balancetriplelock"] = d.account[x]["balancetriplelock"]
    <3>1. a \notin AwardsUnder(x)
      BY DEF AwardsUnder, u
    <3> QED
      BY <1>1, <3>1 DEF LockedIn, AwardsUnder, Column
  <2>2. Worth(LockedIn(e, u)) = Worth(LockedIn(d, u)) - freed
    <3> DEFINE L == LockedIn(d, u)
               M == LockedIn(e, u)
    <3>1. /\ L \ {a} = M \ {a}
          /\ a \in L <=> old > 0
          /\ a \in M <=> old + delta > 0
      BY <1>1 DEF LockedIn, AwardsUnder, u
    <3>2. /\ IsFiniteSet(L) /\ IsFiniteSet(M) /\ Worth(L) \in Int /\ Worth(M) \in Int
          /\ \A x \in L \cup M : AwardAmount[x] \in Int
      BY LockedFinite
    <3> HIDE DEF L, M, old
    <3>3. CASE a \in L /\ a \notin M
      <4> DEFINE N == L \ {a}
      <4>1. Worth(L) = AwardAmount[a] + Worth(N)
        BY <3>2, <3>3, SumRemove DEF Worth
      <4>2. M = N
        BY <3>1, <3>3
      <4>3. freed = AwardAmount[a]
        BY <1>1, <3>1, <3>3 DEF Freed
      <4> HIDE DEF N, freed
      <4> QED
        BY <1>3, <3>2, <4>1, <4>2, <4>3 DEF L, M
    <3>4. CASE a \notin L /\ a \in M
      <4> DEFINE N == M \ {a}
      <4>1. Worth(M) = AwardAmount[a] + Worth(N)
        BY <3>2, <3>4, SumRemove DEF Worth
      <4>2. L = N
        BY <3>1, <3>4
      <4>3. freed = -AwardAmount[a]
        BY <1>1, <3>1, <3>4 DEF Freed
      <4> HIDE DEF N, freed
      <4> QED
        BY <1>3, <3>2, <4>1, <4>2, <4>3 DEF L, M
    <3>5. CASE a \in L <=> a \in M
      <4>1. L = M
        BY <3>1, <3>5
      <4>2. freed = 0
        <5>1. old > 0 <=> old + delta > 0
          BY <3>1, <3>5
        <5>2. old \in Int
          BY <1>1
        <5> QED
          BY <5>1, <5>2 DEF Freed
      <4> HIDE DEF freed
      <4> QED
        BY <3>2, <4>1, <4>2 DEF L, M
    <3> QED
      BY <3>3, <3>4, <3>5
  <2>3. /\ Worth(LockedIn(d, u)) \in Int /\ Worth(LockedBefore(u)) \in Int
        /\ OpeningAccount[u]["balancetriple"] \in Int
        /\ OpeningAccount[u]["balancetriplelock"] \in Int
    <3>1. u \in Account
      BY <1>1
    <3>2. "balancetriple" \in Column /\ "balancetriplelock" \in Column
      BY DEF Column
    <3>3. \A c \in Column : OpeningAccount[u][c] \in Int
      BY <3>1, OpeningAssumption
    <3> QED
      BY <3>2, <3>3, LockedFinite
  <2>4. ASSUME NEW x \in Account
        PROVE  LET moved == Worth(LockedBefore(x)) - Worth(LockedIn(e, x))
               IN  /\ e.account[x]["balancetriple"] = OpeningAccount[x]["balancetriple"] + moved
                   /\ e.account[x]["balancetriplelock"]
                          = OpeningAccount[x]["balancetriplelock"] - moved
    <3>1. LET moved == Worth(LockedBefore(x)) - Worth(LockedIn(d, x))
          IN  /\ d.account[x]["balancetriple"] = OpeningAccount[x]["balancetriple"] + moved
              /\ d.account[x]["balancetriplelock"]
                     = OpeningAccount[x]["balancetriplelock"] - moved
      BY DEF Books, LocksMatch
    <3>2. CASE x = u
      <4> HIDE DEF freed
      <4> QED
        BY <1>1, <2>2, <2>3, <3>1, <3>2
    <3>3. CASE x # u
      BY <2>1, <3>1, <3>3
    <3> QED
      BY <3>2, <3>3
  <2> QED
    BY <2>4 DEF LocksMatch
<1> QED
  BY <1>4, <1>5, <1>6, <1>7, <1>8 DEF Books

\* The back-to-back settlement of an order without rows.
LEMMA DistributeBooks ==
    ASSUME NEW d \in Database, Books(d), NEW o \in Generated(d), ~ HasActivity(d, o),
           NEW e, e = Distribute(d, o)
    PROVE  /\ Books(e) /\ e.entitlement = d.entitlement
           /\ StockMoved(d, e, o, Taken(d, o))
<1> DEFINE s == d.orders[o].studentid
           u == Upstream[s]
           pid == d.orders[o].productid
           R == PayoutRows(d, o)
           taken == IF TakesStock(d, o) THEN [d EXCEPT !.inventory[u][pid] = @ - 1] ELSE d
           posted == [taken EXCEPT !.account = Credit(@, R),
                                   !.activity = @ \cup R,
                                   !.partitionaward = @ \cup PartitionAwards(R)]
<1>1. /\ taken.account = d.account /\ taken.activity = d.activity
      /\ taken.partitionaward = d.partitionaward
      /\ taken.award = d.award /\ taken.awardhistory = d.awardhistory
      /\ taken.orders = d.orders /\ taken.delivery = d.delivery
      /\ taken.entitlement = d.entitlement /\ StockMoved(d, taken, o, Taken(d, o))
      /\ taken \in Database
  <2>1. CASE TakesStock(d, o)
    <3>1. u \in Agent /\ pid \in Product
      BY <2>1, StudentOfOrder DEF TakesStock
    <3>2. d.inventory \in [Agent -> [Product -> Int]]
      BY DEF Database
    <3> DEFINE n == d.inventory[u][pid] - 1
               stock == [d.inventory[u] EXCEPT ![pid] = n]
               inventory == [d.inventory EXCEPT ![u] = stock]
    <3>3. taken = [d EXCEPT !.inventory = inventory]
      BY <2>1 DEF Database
    <3>4. n \in Int
      <4>1. d.inventory[u][pid] \in Int
        BY <3>1, <3>2
      <4> QED
        BY <4>1
    <3> HIDE DEF u, pid, n, taken
    <3>5. stock \in [Product -> Int]
      BY <3>1, <3>2, <3>4
    <3>6. \A p \in Product : stock[p] = d.inventory[u][p] + IF p = pid THEN -1 ELSE 0
      BY <3>1, <3>2 DEF stock, n
    <3> HIDE DEF stock
    <3>7. inventory \in [Agent -> [Product -> Int]]
      BY <3>1, <3>2, <3>5
    <3>8. \A a \in Agent, p \in Product :
              inventory[a][p] = d.inventory[a][p] + IF pid = p /\ u = a THEN -1 ELSE 0
      BY <3>1, <3>2, <3>6
    <3> HIDE DEF inventory
    <3>9. taken.inventory = inventory
      BY <3>3 DEF Database
    <3>10. StockMoved(d, taken, o, Taken(d, o))
      BY <2>1, <3>8, <3>9 DEF StockMoved, UnitOf, Taken, u, pid
    <3> QED
      BY <3>3, <3>7, <3>10 DEF Database
  <2>2. CASE ~ TakesStock(d, o)
    <3>1. \A a \in Agent, p \in Product : d.inventory[a][p] \in Int
      BY DEF Database
    <3>2. taken = d
      BY <2>2
    <3> HIDE DEF taken
    <3>3. StockMoved(d, taken, o, Taken(d, o))
      BY <2>2, <3>1, <3>2 DEF StockMoved, Taken
    <3> QED
      BY <3>2, <3>3
  <2> QED
    BY <2>1, <2>2
<1> HIDE DEF taken
<1>2. R \subseteq Row /\ \A r \in R : r.amount \in Int
  BY PayoutRowsType DEF Row
<1> HIDE DEF R
<1>3. /\ posted.account = Credit(d.account, R) /\ posted.activity = d.activity \cup R
      /\ posted.partitionaward = d.partitionaward \cup PartitionAwards(R)
      /\ posted.award = d.award /\ posted.awardhistory = d.awardhistory
      /\ posted.orders = d.orders /\ posted.delivery = d.delivery
      /\ posted.entitlement = d.entitlement /\ posted.inventory = taken.inventory
      /\ posted \in Database
  <2>1. /\ Credit(taken.account, R) \in [Account -> [Column -> Int]]
        /\ taken.activity \cup R \in SUBSET Row
        /\ taken.partitionaward \cup PartitionAwards(R) \in SUBSET PartitionAward
    BY <1>1, <1>2, LedgerType, PartitionAwardsType DEF Database
  <2> QED
    BY <1>1, <2>1 DEF Database
<1> HIDE DEF posted
<1>4. Books(posted)
  BY <1>3, PayoutBooks DEF R
<1>5. e = UnlockTriple(posted, o, R)
  BY DEF Distribute, taken, posted, R
<1>6. CASE u \in Linked /\ Posted(R, u, "earnest") # 0
  <2> DEFINE award == [posted.award EXCEPT ![u].lastorderid = o]
             named == [posted EXCEPT !.award = award]
             amount == -Posted(R, u, "earnest")
  <2>1. o \in Order /\ amount \in Int
    BY <1>2, GeneratedRow, PostedInt
  <2>2. posted.award \in [Linked -> [pendingreturn : Int, lastorderid : Order \cup {NULL}]]
    BY <1>3 DEF Database
  <2>3. /\ award \in [Linked -> [pendingreturn : Int, lastorderid : Order \cup {NULL}]]
        /\ award[u].lastorderid = o
        /\ \A x \in Linked : award[x].pendingreturn = posted.award[x].pendingreturn
        /\ \A x \in Linked \ {u} : award[x] = posted.award[x]
    BY <1>6, <2>1, <2>2
  <2>4. e = MoveAward(named, u, amount)
    <3>1. named = [posted EXCEPT !.award[u].lastorderid = o]
      BY <1>3 DEF Database
    <3> HIDE DEF named
    <3> QED
      BY <1>3, <1>5, <1>6, <3>1 DEF UnlockTriple
  <2> HIDE DEF award, amount
  <2>5. /\ named \in Database /\ named.award = award
        /\ named.account = posted.account /\ named.activity = posted.activity
        /\ named.partitionaward = posted.partitionaward
        /\ named.awardhistory = posted.awardhistory
        /\ named.orders = posted.orders /\ named.delivery = posted.delivery
        /\ named.entitlement = posted.entitlement /\ named.inventory = posted.inventory
    BY <1>3, <2>3 DEF Database
  <2> HIDE DEF named
  <2>6. Books(named)
    <3>1. Copied(named) /\ Explained(named)
      BY <1>4, <2>5 DEF Books, Copied, PlainRows, Explained
    <3>2. Delivered(named)
      <4> SUFFICES ASSUME NEW x \in Order PROVE PaidByStatus(named, x)
        BY DEF Delivered
      <4>1. PaidByStatus(posted, x)
        BY <1>4 DEF Books, Delivered
      <4>2. /\ DeliveryRows(named, x) = DeliveryRows(posted, x)
            /\ PriceOfDelivery(named, x) = PriceOfDelivery(posted, x)
            /\ \A n, k : DeliveryRow(named, x, n, k) = DeliveryRow(posted, x, n, k)
        BY <2>5 DEF DeliveryRows, RowsOf, PriceOfDelivery, DeliveryRow
      <4> QED
        BY <2>5, <4>1, <4>2 DEF PaidByStatus
    <3>3. HistoryAddsUp(named)
      <4>1. o # NULL
        BY <2>1, PricingAssumption
      <4> QED
        BY <1>4, <2>3, <2>5, <4>1 DEF Books, HistoryAddsUp
    <3>4. LocksMatch(named)
      <4>1. \A a \in Account : LockedIn(named, a) = LockedIn(posted, a)
        BY <2>3, <2>5 DEF LockedIn, AwardsUnder
      <4> QED
        BY <1>4, <2>5, <4>1 DEF Books, LocksMatch
    <3> QED
      BY <3>1, <3>2, <3>3, <3>4 DEF Books
  <2>7. Books(e)
    BY <1>6, <2>1, <2>3, <2>4, <2>5, <2>6, MoveBooks
  <2>8. Moved(named, e, u, amount)
    BY <1>6, <2>1, <2>4, <2>5, MoveAwardEffect
  <2>9. e.inventory = taken.inventory /\ e.entitlement = d.entitlement
    BY <1>3, <2>5, <2>8 DEF Moved
  <2>10. StockMoved(d, e, o, Taken(d, o))
    BY <1>1, <2>9 DEF StockMoved
  <2> QED
    BY <2>7, <2>9, <2>10
<1>7. CASE ~ (u \in Linked /\ Posted(R, u, "earnest") # 0)
  BY <1>1, <1>3, <1>4, <1>5, <1>7 DEF UnlockTriple, StockMoved
<1> QED
  BY <1>6, <1>7

\* pay_success of an order without rows.
LEMMA PayBooks ==
    ASSUME NEW d \in Database, Books(d), NEW o \in Generated(d), ~ HasActivity(d, o),
           \A x \in Order : d.delivery[x] # "none" => x \in Generated(d),
           NEW force, today \in Int, NEW e, e = Pay(d, o, force)
    PROVE  Books(e)
<1> DEFINE granted == IF StatusOf(d, o) = "paid" THEN d ELSE Entitle(d, o)
           paid == IF Distributes(d, o, force) THEN Distribute(granted, o) ELSE granted
           settled == Audited(paid, o)
           st == PaidStatus(d.orders[o].paymentmethod, force)
<1>1. /\ granted \in Database /\ granted.orders = d.orders /\ granted.activity = d.activity
      /\ \A x \in Order \ {o} : granted.delivery[x] = d.delivery[x]
      /\ Books(granted)
  BY EntitleType, EntitleBooks
<1> HIDE DEF granted
<1>2. o \in Generated(granted) /\ ~ HasActivity(granted, o)
  BY <1>1 DEF Generated, HasActivity, RowsOf
<1>3. /\ settled \in Database /\ settled.orders = d.orders
      /\ settled.delivery = granted.delivery /\ Books(settled)
  <2>1. /\ paid \in Database /\ paid.orders = d.orders
        /\ paid.delivery = granted.delivery /\ Books(paid)
    BY <1>1, <1>2, DistributeType, DistributeBooks
  <2> HIDE DEF paid
  <2>2. o \in Generated(paid)
    BY <2>1 DEF Generated
  <2> QED
    BY <2>1, <2>2, AuditedType, QuietBooks
<1> HIDE DEF settled, paid
<1>4. /\ o \in Generated(settled)
      /\ \A x \in Order : settled.delivery[x] # "none" => x \in Generated(settled)
  BY <1>1, <1>3 DEF Generated
<1>5. st \in Status
  BY DEF PaidStatus, Status, FinalStatus
<1> HIDE DEF st
<1>6. e = SetStatus(settled, o, st)
  BY DEF Pay, granted, paid, settled, st
<1> QED
  BY <1>3, <1>4, <1>5, <1>6, SetStatusBooks

\* A delivery that is paid once it is due, or whose price is taken back in whole or in
\* part once it was paid.
DeliveryMove(d, o, amount, mark, st) ==
    LET price == PriceOfDelivery(d, o) IN
    \/ d.delivery[o] = "PENDING" /\ amount = price /\ mark = "plain" /\ st = "CONFIRMED"
    \/ /\ d.delivery[o] = "CONFIRMED" /\ mark = "reversal"
       /\ \/ amount = -price /\ st = "REFUNDED"
          \/ st = "PARTIALLY_REFUNDED" /\ \E n \in 1 .. price : amount = -n

LEMMA DeliveryBooks ==
    ASSUME NEW d \in Database, Books(d), NEW o \in Generated(d),
           NEW amount \in Int, NEW mark, NEW st, DeliveryMove(d, o, amount, mark, st),
           NEW e, e = PostDelivery(d, o, amount, mark, st)
    PROVE  Books(e)
<1> DEFINE r == DeliveryRow(d, o, amount, mark)
           R == {r}
<1>1. /\ o \in Order /\ d.orders[o].productid \in Product
      /\ Pricing[d.orders[o].productid].deliveryaccount \in Account
      /\ PriceOfDelivery(d, o) \in Nat
  BY GeneratedRow, StudentOfOrder, PricingAssumption DEF PriceOfDelivery
<1>2. mark \in {"plain", "reversal"}
  BY DEF DeliveryMove
<1>3. /\ r \in Row /\ r.orderid = o /\ r.source = "delivery" /\ r.mark = mark
      /\ r.amount = amount
  BY <1>1, <1>2 DEF DeliveryRow, Row, Source
<1>4. /\ e.activity = d.activity \cup R /\ e.account = Credit(d.account, R)
      /\ e.partitionaward = d.partitionaward
      /\ e.award = d.award /\ e.awardhistory = d.awardhistory
      /\ e.orders = d.orders /\ e.delivery = [d.delivery EXCEPT ![o] = st]
  BY DEF PostDelivery, Database, DeliveryRow
<1>5. PaidByStatus(d, o)
  BY <1>1 DEF Books, Delivered
<1>6. r \notin d.activity
  <2>1. mark = "plain" => DeliveryRows(d, o) = {}
    BY <1>5 DEF DeliveryMove, PaidByStatus
  <2>2. mark = "reversal" => DeliveryRows(d, o) = {DeliveryRow(d, o, PriceOfDelivery(d, o), "plain")}
    BY <1>5 DEF DeliveryMove, PaidByStatus
  <2>3. r \in d.activity => r \in DeliveryRows(d, o)
    BY <1>3 DEF DeliveryRows, RowsOf
  <2>4. DeliveryRow(d, o, PriceOfDelivery(d, o), "plain").mark = "plain"
    BY DEF DeliveryRow
  <2> HIDE DEF r
  <2> QED
    BY <1>2, <1>3, <2>1, <2>2, <2>3, <2>4
<1> HIDE DEF r
<1>7. Copied(e) /\ Explained(e) /\ HistoryAddsUp(e) /\ LocksMatch(e)
  <2>1. PartitionAwards({x \in R : x.mark = "plain"}) = {}
    BY <1>3 DEF PartitionAwards
  <2>2. d.partitionaward = d.partitionaward \cup PartitionAwards({x \in R : x.mark = "plain"})
    <3> DEFINE P == PartitionAwards({x \in R : x.mark = "plain"})
    <3>1. P = {}
      BY <2>1
    <3> HIDE DEF P
    <3>2. d.partitionaward = d.partitionaward \cup P
      BY <3>1
    <3> QED
      BY <3>2, Zenon DEF P
  <2>3. IsFiniteSet(R) /\ Keyed(R) /\ R \in SUBSET Row /\ R \cap d.activity = {}
    BY <1>3, <1>6, FS_Singleton DEF Keyed
  <2>4. e.partitionaward = d.partitionaward \cup PartitionAwards({x \in R : x.mark = "plain"})
    BY <1>4, <2>2, Zenon
  <2> HIDE DEF R
  <2> QED
    BY <1>4, <2>3, <2>4, PostBooks
<1>8. ASSUME NEW x \in Order PROVE PaidByStatus(e, x)
  <2>1. PaidByStatus(d, x)
    BY DEF Books, Delivered
  <2>2. /\ PriceOfDelivery(e, x) = PriceOfDelivery(d, x)
        /\ \A n, k : DeliveryRow(e, x, n, k) = DeliveryRow(d, x, n, k)
    BY <1>4 DEF PriceOfDelivery, DeliveryRow
  <2>3. CASE x # o
    <3>1. DeliveryRows(e, x) = DeliveryRows(d, x)
      BY <1>3, <1>4, <2>3 DEF DeliveryRows, RowsOf
    <3>2. e.delivery[x] = d.delivery[x]
      BY <1>4, <2>3 DEF Database
    <3> QED
      BY <2>1, <2>2, <3>1, <3>2 DEF PaidByStatus
  <2>4. CASE x = o
    <3> DEFINE paid == DeliveryRow(d, o, PriceOfDelivery(d, o), "plain")
               D == DeliveryRows(d, o)
    <3>1. DeliveryRows(e, o) = D \cup R
      BY <1>3, <1>4 DEF DeliveryRows, RowsOf
    <3>2. e.delivery[o] = st
      BY <1>1, <1>4 DEF Database
    <3>3. CASE d.delivery[o] = "PENDING"
      <4>1. D = {} /\ r = paid /\ st = "CONFIRMED"
        BY <1>5, <3>3 DEF DeliveryMove, PaidByStatus, r
      <4>2. DeliveryRows(e, o) = {paid}
        BY <3>1, <4>1
      <4> HIDE DEF D, paid
      <4> QED
        BY <2>2, <2>4, <3>2, <4>1, <4>2 DEF PaidByStatus, paid
    <3>4. CASE d.delivery[o] = "CONFIRMED"
      <4>1. D = {paid} /\ mark = "reversal"
        BY <1>5, <3>4 DEF DeliveryMove, PaidByStatus
      <4>2. DeliveryRows(e, o) = {paid, r}
        BY <3>1, <4>1
      <4>3. /\ st \in {"REFUNDED", "PARTIALLY_REFUNDED"}
            /\ st = "REFUNDED" => amount = -PriceOfDelivery(d, o)
            /\ st = "PARTIALLY_REFUNDED" => \E n \in 1 .. PriceOfDelivery(d, o) : amount = -n
        BY <3>4 DEF DeliveryMove
      <4> HIDE DEF D, paid
      <4>4. st = "REFUNDED" =>
                DeliveryRows(e, o)
                    = {paid, DeliveryRow(d, o, -PriceOfDelivery(d, o), "reversal")}
        BY <4>1, <4>2, <4>3 DEF r
      <4>5. st = "PARTIALLY_REFUNDED" =>
                \E n \in 1 .. PriceOfDelivery(d, o) :
                    DeliveryRows(e, o) = {paid, DeliveryRow(d, o, -n, "reversal")}
        BY <4>1, <4>2, <4>3 DEF r
      <4> QED
        BY <2>2, <2>4, <3>2, <4>3, <4>4, <4>5 DEF PaidByStatus, paid
    <3> QED
      BY <3>3, <3>4 DEF DeliveryMove
  <2> QED
    BY <2>3, <2>4
<1> QED
  BY <1>7, <1>8 DEF Books, Delivered

\* The awards of an order are undone, and their copies dropped.
LEMMA ReverseBooks ==
    ASSUME NEW d \in Database, Sound(d), Books(d), NEW o \in Generated(d),
           NEW e, e = ReverseRows(d, o)
    PROVE  /\ Books(e) /\ e.award = d.award /\ e.awardhistory = d.awardhistory
           /\ e.entitlement = d.entitlement /\ e.inventory = d.inventory
<1> DEFINE live == RevocableRows(d, o)
           V == {Revoked(r) : r \in live}
           W == {Reversal(r) : r \in live}
<1>1. /\ live \in SUBSET Row /\ live \subseteq d.activity
      /\ \A r \in live : r.mark = "plain" /\ r.orderid = o /\ r.source # "delivery"
  BY UndoneRowsNew
<1>2. /\ e.activity = (d.activity \ live) \cup V \cup W
      /\ e.orders = d.orders /\ e.delivery = d.delivery
  BY ReverseRowsType DEF ReversedActivity
<1>3. /\ e.account = Debit(d.account, live)
      /\ e.partitionaward = DropPartitionAwards(d.partitionaward, o)
      /\ e.award = d.award /\ e.awardhistory = d.awardhistory
      /\ e.entitlement = d.entitlement /\ e.inventory = d.inventory
  BY DEF ReverseRows, Database
<1>4. /\ \A r \in V : r.mark = "revoked" /\ r.source # "delivery"
      /\ \A r \in W : r.mark = "reversal" /\ r.source # "delivery"
  <2>1. \A r \in live : /\ Revoked(r).mark = "revoked" /\ Revoked(r).source = r.source
                        /\ Reversal(r).mark = "reversal" /\ Reversal(r).source = r.source
    BY <1>1, Opposites
  <2> QED
    BY <1>1, <2>1
<1>5. \A r \in d.activity : /\ r \in Row
                            /\ r.mark = "plain" /\ r.orderid = o /\ r.source # "delivery"
                                  => r \in live
  BY DEF RevocableRows, RowsOf, Database
<1> HIDE DEF live, V, W
<1>6. Copied(e)
  <2> DEFINE P == PlainRows(d)
             Q == P \ live
  <2>1. PlainRows(e) = Q
    BY <1>2, <1>4 DEF PlainRows
  <2>2. d.partitionaward = PartitionAwards(P)
    BY DEF Books, Copied
  <2>3. DropPartitionAwards(PartitionAwards(P), o) = PartitionAwards(Q)
    <3>1. \A r \in P : r.source \in {"extensionL", "extensionR"} =>
                           (r.orderid # o <=> r \notin live)
      BY <1>1, <1>5 DEF PlainRows
    <3> HIDE DEF P
    <3> QED
      BY <3>1 DEF PartitionAwards, DropPartitionAwards
  <2> HIDE DEF Q, P
  <2> QED
    BY <1>3, <2>1, <2>2, <2>3 DEF Copied
<1>7. Explained(e)
  BY ReverseExplains DEF Books
<1>8. HistoryAddsUp(e)
  BY <1>3 DEF Books, HistoryAddsUp
<1>9. LocksMatch(e)
  <2> SUFFICES ASSUME NEW a \in Account, NEW c \in {"balancetriple", "balancetriplelock"}
               PROVE  e.account[a][c] = d.account[a][c] /\ LockedIn(e, a) = LockedIn(d, a)
    BY DEF Books, LocksMatch
  <2>1. Inflow(live, a, c) = 0
    BY DEF Inflow
  <2>2. d.account[a][c] \in Int /\ c \in Column
    BY DEF Database, Column
  <2>3. LockedIn(e, a) = LockedIn(d, a)
    BY <1>3 DEF LockedIn
  <2> QED
    BY <1>3, <2>1, <2>2, <2>3 DEF Debit
<1>10. Delivered(e)
  <2> SUFFICES ASSUME NEW x \in Order PROVE PaidByStatus(e, x)
    BY DEF Delivered
  <2>1. PaidByStatus(d, x)
    BY DEF Books, Delivered
  <2>2. DeliveryRows(e, x) = DeliveryRows(d, x)
    BY <1>1, <1>2, <1>4 DEF DeliveryRows, RowsOf
  <2>3. /\ PriceOfDelivery(e, x) = PriceOfDelivery(d, x)
        /\ \A n, k : DeliveryRow(e, x, n, k) = DeliveryRow(d, x, n, k)
    BY <1>2 DEF PriceOfDelivery, DeliveryRow
  <2> QED
    BY <1>2, <2>1, <2>2, <2>3 DEF PaidByStatus
<1> QED
  BY <1>3, <1>6, <1>7, <1>8, <1>9, <1>10 DEF Books

\* What was logged of an award under an order moves it back.
LEMMA RollBackBooks ==
    ASSUME NEW d \in Database, Books(d), NEW o \in Generated(d), NEW e, e = RollBackTriple(d, o)
    PROVE  Books(e) /\ e.entitlement = d.entitlement /\ e.inventory = d.inventory
<1> DEFINE u == Upstream[d.orders[o].studentid]
           delta == d.awardhistory[u][o]
<1>1. CASE u \in Linked /\ delta # 0
  <2>1. delta \in Int /\ o \in Order
    BY <1>1, GeneratedRow DEF Database
  <2>2. d.award[u].lastorderid \in Order
    <3>1. d.award[u].lastorderid # NULL
      BY <1>1, <2>1 DEF Books, HistoryAddsUp
    <3>2. d.award \in [Linked -> [pendingreturn : Int, lastorderid : Order \cup {NULL}]]
      BY DEF Database
    <3> QED
      BY <1>1, <3>1, <3>2
  <2>3. e = MoveAward(d, u, delta)
    BY <1>1 DEF RollBackTriple
  <2> HIDE DEF u, delta
  <2>4. Books(e)
    BY <1>1, <2>1, <2>2, <2>3, MoveBooks
  <2>5. Moved(d, e, u, delta)
    BY <1>1, <2>1, <2>3, MoveAwardEffect
  <2> QED
    BY <2>4, <2>5 DEF Moved
<1>2. CASE ~ (u \in Linked /\ delta # 0)
  BY <1>2 DEF RollBackTriple
<1> QED
  BY <1>1, <1>2

\* revoke_pay.
LEMMA RevokeBooks ==
    ASSUME NEW d \in Database, Sound(d), Books(d), NEW o \in Generated(d), CanRevoke(d, o),
           NEW retain \in BOOLEAN, NEW e, e = Revoke(d, o, retain)
    PROVE  Books(e)
<1> DEFINE d1 == ReverseRows(d, o)
           d2 == RollBackTriple(d1, o)
           d3 == IF retain THEN d2 ELSE WithdrawEntitlement(d2, o)
           d4 == RevokeDeliveryOf(d3, o)
           st == IF retain THEN "uncommisioned" ELSE "refunded"
<1>1. d1 \in Database /\ d1.orders = d.orders /\ d1.delivery = d.delivery /\ Books(d1)
  BY ReverseRowsType, ReverseBooks
<1> HIDE DEF d1
<1>2. d2 \in Database /\ d2.orders = d.orders /\ d2.delivery = d.delivery /\ Books(d2)
  <2>1. o \in Generated(d1)
    BY <1>1 DEF Generated
  <2> QED
    BY <1>1, <2>1, RollBackTripleType, RollBackBooks
<1> HIDE DEF d2
<1>3. o \in Generated(d2) /\ o \in Order /\ d.orders[o] \in OrderRow
  BY <1>2, GeneratedRow DEF Generated
<1>4. /\ d3 \in Database /\ d3.delivery = d.delivery /\ Books(d3)
      /\ Generated(d3) = Generated(d)
  <2>1. CASE retain
    BY <1>2, <2>1 DEF Generated
  <2>2. CASE ~ retain
    <3>1. /\ d3 \in Database /\ d3.delivery = d.delivery /\ Books(d3)
          /\ d3.orders = [d.orders EXCEPT ![o] = [@ EXCEPT !.couponcode = NULL]]
      BY <1>2, <1>3, <2>2, WithdrawEntitlementType, WithdrawBooks
    <3>2. [d.orders[o] EXCEPT !.couponcode = NULL] \in OrderRow
      BY <1>3 DEF OrderRow
    <3> HIDE DEF d3
    <3>3. /\ d3.orders[o] = [d.orders[o] EXCEPT !.couponcode = NULL]
          /\ \A x \in Order \ {o} : d3.orders[x] = d.orders[x]
      BY <1>3, <3>1 DEF Database
    <3>4. Generated(d3) = Generated(d)
      BY <1>3, <3>2, <3>3, NullIsNoOrder DEF Generated
    <3> QED
      BY <3>1, <3>4
  <2> QED
    BY <2>1, <2>2
<1> HIDE DEF d3
<1>5. o \in Generated(d3)
  BY <1>4
<1>6. /\ d4 \in Database /\ d4.orders = d3.orders /\ Books(d4)
      /\ \A x \in Order \ {o} : d4.delivery[x] = d.delivery[x]
  <2>1. CASE d3.delivery[o] = "none"
    <3>1. d4 = d3
      BY <2>1 DEF RevokeDeliveryOf
    <3> QED
      BY <1>4, <3>1
  <2>2. CASE d3.delivery[o] # "none"
    <3> DEFINE amount == -Pricing[d3.orders[o].productid].delivery
    <3>1. amount \in Int
      BY <1>4, <1>5, StudentOfOrder, PricingAssumption
    <3>2. d4 = PostDelivery(d3, o, amount, "reversal", "REFUNDED")
      BY <2>2 DEF RevokeDeliveryOf
    <3>3. DeliveryMove(d3, o, amount, "reversal", "REFUNDED")
      BY <1>4, <2>2 DEF CanRevoke, DeliveryMove, PriceOfDelivery
    <3> HIDE DEF amount, d4
    <3>4. "REFUNDED" \in DeliveryStatus
      BY DEF DeliveryStatus
    <3>5. /\ d4 \in Database /\ d4.orders = d3.orders
          /\ d4.delivery = [d3.delivery EXCEPT ![o] = "REFUNDED"]
      BY <1>4, <1>5, <3>1, <3>2, <3>4, PostDeliveryType
    <3>6. Books(d4)
      BY <1>4, <1>5, <3>1, <3>2, <3>3, DeliveryBooks
    <3>7. \A x \in Order \ {o} : d4.delivery[x] = d3.delivery[x]
      BY <1>4, <3>5 DEF Database
    <3> QED
      BY <1>4, <3>5, <3>6, <3>7
  <2> QED
    BY <2>1, <2>2
<1> HIDE DEF d4
<1>7. /\ o \in Generated(d4)
      /\ \A x \in Order : d4.delivery[x] # "none" => x \in Generated(d4)
  BY <1>4, <1>5, <1>6 DEF Generated, Sound, Owned
<1>8. st \in Status
  BY DEF Status, FinalStatus
<1>9. e = SetStatus(d4, o, st)
  BY DEF Revoke, d1, d2, d3, d4
<1> HIDE DEF st
<1> QED
  BY <1>6, <1>7, <1>8, <1>9, SetStatusBooks

-----------------------------------------------------------------------------
(***************************************************************************)
(* A transaction is one of five kinds                                      *)
(***************************************************************************)

\* The purchases a new order is counted with, and the uses of its coupon.
BoughtBy(d, s, pid) ==
    {x \in OrdersIn(d, PurchasedStatus) : d.orders[x].studentid = s /\ d.orders[x].productid = pid}
UsesOf(d, c) == {x \in Generated(d) : d.orders[x].couponcode = c}

\* A row for a new order, or with another method or price for one that is there.
Inserted(d, o, row) ==
    /\ o \notin Generated(d) /\ row.status = "created"
    /\ LET limit == Pricing[row.productid].purchaselimit IN
       limit # NULL => Cardinality(BoughtBy(d, row.studentid, row.productid)) < limit
    /\ row.price = 0 => row.paymentmethod = NULL
    /\ row.couponcode # NULL =>
           LET uses == CouponTerms[row.couponcode].maxcount IN
           uses # NULL => Cardinality(UsesOf(d, row.couponcode)) < uses

Rewritten(d, o, row) ==
    /\ o \in Generated(d)
    /\ row.status = d.orders[o].status /\ row.couponcode = d.orders[o].couponcode
    /\ row.studentid = d.orders[o].studentid /\ row.productid = d.orders[o].productid
    /\ \/ row.price = d.orders[o].price
       \/ /\ row.price \in Price /\ row.paymentmethod = d.orders[o].paymentmethod
          /\ row.paymentmethod \in InventoryMethod

Edited(d, e, o, row) ==
    /\ e = [d EXCEPT !.orders = [@ EXCEPT ![o] = row]]
    /\ Inserted(d, o, row) \/ Rewritten(d, o, row)

\* An edit alone: orders that cost nothing are paid at once, and a method from stock
\* is only taken off an order that is not settled, and put on none.
EditAlone(d, o, row) ==
    /\ Inserted(d, o, row) => row.price # 0
    /\ Rewritten(d, o, row) /\ row.paymentmethod # d.orders[o].paymentmethod =>
           /\ row.paymentmethod \notin InventoryMethod
           /\ \/ d.orders[o].paymentmethod \notin InventoryMethod
              \/ d.orders[o].status \in OpenStatus \cup {"paid"}

\* A status is written from a page.
MayWrite(d, o, st) ==
    \/ /\ st = "pending_confirmation" /\ d.orders[o].paymentmethod \notin InventoryMethod
       /\ FreshViews => StatusOf(d, o) \in OpenStatus
    \/ /\ st = "failed" /\ d.orders[o].paymentmethod = "wechatpay"
       /\ FreshViews => StatusOf(d, o) \in OpenStatus
    \/ /\ st = "declined"
       /\ FreshViews => StatusOf(d, o) \notin {"declined", "settled"}

Edits(d, e) ==
    \E o \in Order, row \in OrderRow : Edited(d, e, o, row) /\ EditAlone(d, o, row)

\* The database a payment of o finds, after a new order or another method.
Prepared(d, d1, o) ==
    \/ o \in Generated(d) /\ d1 = d
    \/ \E row \in OrderRow : Edited(d, d1, o, row)

Pays(d, e) ==
    \E o \in Order, force \in BOOLEAN : \E d1 :
        /\ Prepared(d, d1, o) /\ CanPay(d1, o, force)
        /\ \/ e = Pay(d1, o, force)
           \/ CanRevoke(Pay(d1, o, force), o) /\ e = Revoke(Pay(d1, o, force), o, TRUE)

Writes(d, e) ==
    \E o \in Generated(d) : \E st \in Status : MayWrite(d, o, st) /\ e = SetStatus(d, o, st)

Revokes(d, e) ==
    \E o \in Generated(d), retain \in BOOLEAN : CanRevoke(d, o) /\ e = Revoke(d, o, retain)

Delivers(d, e) ==
    \E o \in Generated(d), amount \in Int : \E mark, st :
        DeliveryMove(d, o, amount, mark, st) /\ e = PostDelivery(d, o, amount, mark, st)

Transacts(d, e) == Edits(d, e) \/ Pays(d, e) \/ Writes(d, e) \/ Revokes(d, e) \/ Delivers(d, e)

\* What generate_simple_order does.
LEMMA GenerateTransacts ==
    ASSUME db \in Database,
           NEW o \in Order, NEW s \in Student, NEW pid \in Product, NEW c \in Coupon \cup {NULL},
           NEW method \in InventoryMethod \cup {NULL},
           GenerateSimpleOrder(o, s, pid, c, method)
    PROVE  Edits(db, db') \/ Pays(db, db')
<1> DEFINE p == Pricing[pid]
           price == IF method # NULL THEN NULL
                    ELSE IF p.finalprice > 0 /\ Discounts(c)
                         THEN p.finalprice - CouponTerms[c].discount
                    ELSE p.finalprice
           row == [status |-> "created", studentid |-> s, productid |-> pid,
                   price |-> price, paymentmethod |-> method, couponcode |-> c]
           d1 == [db EXCEPT !.orders = [@ EXCEPT ![o] = row]]
           paid == method = "inventory_agent" \/ price = 0
<1>1. /\ o \notin Generated(db)
      /\ c # NULL => CouponValid(db, c, s, pid)
      /\ p.purchaselimit # NULL => Cardinality(BoughtBy(db, s, pid)) < p.purchaselimit
      /\ IF paid THEN CanPay(d1, o, FALSE) /\ db' = Pay(d1, o, FALSE) ELSE db' = d1
  <2>1. d1 = [db EXCEPT !.orders[o] = row]
    BY DEF Database
  <2> HIDE DEF d1
  <2> QED
    BY <2>1 DEF GenerateSimpleOrder, BoughtBy
<1>2. price \in Nat \cup {NULL} /\ (price = 0 => method = NULL)
  <2>1. p.finalprice \in Nat
    BY PricingAssumption
  <2>2. c # NULL => p.finalprice - CouponTerms[c].discount \in Nat
    BY <1>1, DiscountedPrice
  <2>3. NULL # 0
    BY PricingAssumption
  <2> HIDE DEF p
  <2> QED
    BY <2>1, <2>2, <2>3 DEF Discounts
<1> HIDE DEF price
<1>3. row \in OrderRow
  BY <1>2 DEF OrderRow, Status, OpenStatus, Method
<1>4. c # NULL => (CouponTerms[c].maxcount # NULL =>
                       Cardinality(UsesOf(db, c)) < CouponTerms[c].maxcount)
  BY <1>1 DEF CouponValid, UsesOf
<1>5. Inserted(db, o, row)
  BY <1>1, <1>2, <1>4 DEF Inserted
<1>6. row.price = price
  OBVIOUS
<1> HIDE DEF row
<1>7. Edited(db, d1, o, row)
  BY <1>5 DEF Edited
<1> HIDE DEF d1
<1>8. CASE paid
  BY <1>1, <1>3, <1>7, <1>8 DEF Pays, Prepared
<1>9. CASE ~ paid
  <2>1. EditAlone(db, o, row)
    BY <1>1, <1>6, <1>9 DEF EditAlone, Rewritten
  <2> QED
    BY <1>1, <1>3, <1>7, <1>9, <2>1 DEF Edits
<1> QED
  BY <1>8, <1>9

\* Another method for an order.
LEMMA MethodEdits ==
    ASSUME NEW d \in Database, NEW o \in Generated(d), NEW method \in Method,
           NEW e, e = [d EXCEPT !.orders[o].paymentmethod = method]
    PROVE  /\ Prepared(d, e, o)
           /\ method \notin InventoryMethod
              /\ (\/ d.orders[o].paymentmethod \notin InventoryMethod
                  \/ d.orders[o].status \in OpenStatus \cup {"paid"}) => Edits(d, e)
<1> DEFINE row == [d.orders[o] EXCEPT !.paymentmethod = method]
<1>1. o \in Order /\ d.orders[o] \in OrderRow
  BY GeneratedRow
<1>2. /\ row \in OrderRow /\ row.status = d.orders[o].status
      /\ row.couponcode = d.orders[o].couponcode /\ row.price = d.orders[o].price
      /\ row.studentid = d.orders[o].studentid /\ row.productid = d.orders[o].productid
      /\ row.paymentmethod = method
  BY <1>1 DEF OrderRow
<1>3. e = [d EXCEPT !.orders = [@ EXCEPT ![o] = row]]
  BY DEF Database
<1> HIDE DEF row
<1>4. Edited(d, e, o, row)
  BY <1>2, <1>3 DEF Edited, Rewritten
<1>5. ~ Inserted(d, o, row)
  BY DEF Inserted
<1> QED
  BY <1>1, <1>2, <1>4, <1>5 DEF Prepared, Edits, EditAlone

\* Every step is a new day or a transaction.
LEMMA NextTransacts ==
    ASSUME TypeOK, Sound(db), Next
    PROVE  \/ db' = db /\ today' = today + 1
           \/ Transacts(db, db') /\ today' = today
<1>1. db \in Database /\ today \in Int
  BY BoundsAssumption DEF TypeOK
<1>2. ASSUME NEW o \in Order, NEW s \in Student, NEW pid \in Product, NEW c \in Coupon \cup {NULL},
             NEW method \in InventoryMethod \cup {NULL},
             GenerateSimpleOrder(o, s, pid, c, method)
      PROVE  Transacts(db, db') /\ today' = today
  <2>1. today' = today
    BY <1>2 DEF GenerateSimpleOrder
  <2> QED
    BY <1>1, <1>2, <2>1, GenerateTransacts DEF Transacts
<1>3. ASSUME NEW o \in Order, NEW method \in (PaymentMethod \ InventoryMethod) \cup {NULL},
             UpdatePaymentMethod(o, method)
      PROVE  Transacts(db, db') /\ today' = today
  <2>1. method \in Method /\ method \notin InventoryMethod
    BY PricingAssumption DEF Method
  <2> QED
    BY <1>1, <1>3, <2>1, MethodEdits DEF UpdatePaymentMethod, Transacts
<1>4. ASSUME NEW o \in Order, ReportOfflinePayment(o)
      PROVE  Transacts(db, db') /\ today' = today
  <2>1. "pending_confirmation" \in Status /\ MayWrite(db, o, "pending_confirmation")
    BY <1>4 DEF ReportOfflinePayment, Seen, MayWrite, Status, OpenStatus
  <2> QED
    BY <1>4, <2>1 DEF ReportOfflinePayment, Transacts, Writes
<1>5. ASSUME NEW o \in Order, NEW price \in Price, UpdateOrderPrice(o, price)
      PROVE  Transacts(db, db') /\ today' = today
  <2> DEFINE row == [db.orders[o] EXCEPT !.price = price]
  <2>1. o \in Generated(db) /\ db.orders[o].paymentmethod \in InventoryMethod
    BY <1>5 DEF UpdateOrderPrice
  <2>2. db.orders[o] \in OrderRow
    BY <1>1, <2>1, GeneratedRow
  <2>3. /\ row \in OrderRow /\ row.status = db.orders[o].status
        /\ row.couponcode = db.orders[o].couponcode /\ row.price = price
        /\ row.studentid = db.orders[o].studentid /\ row.productid = db.orders[o].productid
        /\ row.paymentmethod = db.orders[o].paymentmethod
    BY <2>2, BoundsAssumption DEF OrderRow
  <2>4. db' = [db EXCEPT !.orders = [@ EXCEPT ![o] = row]] /\ today' = today
    BY <1>1, <1>5 DEF UpdateOrderPrice, Database
  <2> HIDE DEF row
  <2>5. Edited(db, db', o, row) /\ EditAlone(db, o, row)
    BY <2>1, <2>3, <2>4 DEF Edited, Rewritten, EditAlone, Inserted
  <2> QED
    BY <2>3, <2>4, <2>5 DEF Transacts, Edits
<1>6. ASSUME NEW o \in Order, PaySuccess(o)
      PROVE  Transacts(db, db') /\ today' = today
  BY <1>6 DEF PaySuccess, Transacts, Pays, Prepared
<1>7. ASSUME NEW o \in Order, NEW method \in PaymentMethod, NEW revokePay \in BOOLEAN,
             NEW forceSettle \in BOOLEAN,
             ConfirmOfflineOrderSucceeded(o, method, revokePay, forceSettle)
      PROVE  Transacts(db, db') /\ today' = today
  <2> DEFINE d1 == [db EXCEPT !.orders[o].paymentmethod = method]
  <2>1. /\ o \in Generated(db) /\ CanPay(d1, o, forceSettle) /\ today' = today
        /\ \/ db' = Pay(d1, o, forceSettle)
           \/ CanRevoke(Pay(d1, o, forceSettle), o) /\ db' = Revoke(Pay(d1, o, forceSettle), o, TRUE)
    BY <1>7 DEF ConfirmOfflineOrderSucceeded
  <2>2. Prepared(db, d1, o)
    BY <1>1, <2>1, MethodEdits DEF Method
  <2> HIDE DEF d1
  <2> QED
    BY <2>1, <2>2 DEF Transacts, Pays
<1>8. ASSUME NEW o \in Order, InsertLiuliuStatement(o)
      PROVE  Transacts(db, db') /\ today' = today
  <2> DEFINE d1 == [db EXCEPT !.orders[o].paymentmethod = "liuliupay"]
  <2>1. /\ o \in Generated(db) /\ today' = today
        /\ db.orders[o].status \in OpenStatus \cup {"paid"}
        /\ db' = IF CanPay(d1, o, TRUE) THEN Pay(d1, o, TRUE) ELSE d1
    BY <1>8 DEF InsertLiuliuStatement, OrdersIn, StatusOf
  <2>2. "liuliupay" \in Method \ InventoryMethod
    BY DEF Method, InventoryMethod
  <2>3. Prepared(db, d1, o) /\ Edits(db, d1)
    BY <1>1, <2>1, <2>2, MethodEdits
  <2> HIDE DEF d1
  <2>4. CASE CanPay(d1, o, TRUE)
    BY <2>1, <2>3, <2>4 DEF Transacts, Pays
  <2>5. CASE ~ CanPay(d1, o, TRUE)
    BY <2>1, <2>3, <2>5 DEF Transacts
  <2> QED
    BY <2>4, <2>5
<1>9. ASSUME NEW o \in Order, DeclineOrder(o) \/ SimpleDeclineOrder(o)
      PROVE  Transacts(db, db') /\ today' = today
  <2>1. "declined" \in Status /\ MayWrite(db, o, "declined")
    BY <1>9 DEF DeclineOrder, SimpleDeclineOrder, Seen, MayWrite, Status, FinalStatus
  <2> QED
    BY <1>9, <2>1 DEF DeclineOrder, SimpleDeclineOrder, Transacts, Writes
<1>10. ASSUME NEW o \in Order, ClosePayment(o)
       PROVE  Transacts(db, db') /\ today' = today
  <2>1. "failed" \in Status /\ MayWrite(db, o, "failed")
    BY <1>10 DEF ClosePayment, Seen, MayWrite, Status, FinalStatus
  <2> QED
    BY <1>10, <2>1 DEF ClosePayment, Transacts, Writes
<1>11. ASSUME NEW o \in Order, NEW retain \in BOOLEAN, RevokePay(o, retain)
       PROVE  Transacts(db, db') /\ today' = today
  BY <1>11 DEF RevokePay, Transacts, Revokes
<1>12. ASSUME NEW o \in Order, ConfirmDelivery(o)
       PROVE  Transacts(db, db') /\ today' = today
  <2> DEFINE price == PriceOfDelivery(db, o)
  <2>1. o \in Generated(db)
    BY <1>12 DEF ConfirmDelivery, Sound, Owned
  <2>2. price \in Int
    BY <1>1, <2>1, StudentOfOrder, PricingAssumption DEF PriceOfDelivery
  <2>3. /\ db.delivery[o] = "PENDING" /\ today' = today
        /\ db' = PostDelivery(db, o, price, "plain", "CONFIRMED")
    BY <1>12 DEF ConfirmDelivery, PriceOfDelivery
  <2>4. DeliveryMove(db, o, price, "plain", "CONFIRMED")
    BY <2>3 DEF DeliveryMove
  <2> HIDE DEF price
  <2> QED
    BY <2>1, <2>2, <2>3, <2>4 DEF Transacts, Delivers
<1>13. ASSUME NEW o \in Order, NEW amount \in Refund \cup {NULL}, RevokeDelivery(o, amount)
       PROVE  Transacts(db, db') /\ today' = today
  <2> DEFINE price == PriceOfDelivery(db, o)
  <2>1. o \in Generated(db) /\ db.delivery[o] = "CONFIRMED" /\ today' = today
    BY <1>13 DEF RevokeDelivery, Sound, Owned
  <2>2. price \in Int
    BY <1>1, <2>1, StudentOfOrder, PricingAssumption DEF PriceOfDelivery
  <2>3. CASE amount = NULL
    <3> DEFINE n == -price
    <3>1. db' = PostDelivery(db, o, n, "reversal", "REFUNDED")
      BY <1>13, <2>1, <2>3 DEF RevokeDelivery, RevokeDeliveryOf, PriceOfDelivery
    <3>2. DeliveryMove(db, o, n, "reversal", "REFUNDED")
      BY <2>1 DEF DeliveryMove
    <3>3. n \in Int
      BY <2>2
    <3> HIDE DEF n
    <3> QED
      BY <2>1, <3>1, <3>2, <3>3 DEF Transacts, Delivers
  <2>4. CASE amount # NULL
    <3> DEFINE n == -amount
    <3>1. /\ db' = PostDelivery(db, o, n, "reversal", "PARTIALLY_REFUNDED")
          /\ amount <= price
      BY <1>13, <2>4 DEF RevokeDelivery, PriceOfDelivery
    <3>2. amount \in 1 .. price /\ n \in Int
      BY <2>2, <2>4, <3>1, BoundsAssumption
    <3>3. DeliveryMove(db, o, n, "reversal", "PARTIALLY_REFUNDED")
      BY <2>1, <3>2 DEF DeliveryMove
    <3> HIDE DEF n
    <3> QED
      BY <2>1, <3>1, <3>2, <3>3 DEF Transacts, Delivers
  <2> QED
    BY <2>3, <2>4
<1>14. ASSUME NextDay
       PROVE  db' = db /\ today' = today + 1
  BY <1>14 DEF NextDay
<1> QED
  BY <1>2, <1>3, <1>4, <1>5, <1>6, <1>7, <1>8, <1>9, <1>10, <1>11, <1>12, <1>13, <1>14 DEF Next

-----------------------------------------------------------------------------
(***************************************************************************)
(* The books are kept                                                      *)
(***************************************************************************)

\* What preparing o for a payment leaves of the database.
Readied(d, e, o) ==
    /\ e \in Database /\ Sound(e) /\ o \in Generated(e) /\ Generated(e) = Generated(d) \cup {o}
    /\ e.account = d.account /\ e.activity = d.activity
    /\ e.partitionaward = d.partitionaward
    /\ e.award = d.award /\ e.awardhistory = d.awardhistory
    /\ e.inventory = d.inventory /\ e.entitlement = d.entitlement /\ e.delivery = d.delivery
    /\ e.auditlog = d.auditlog
    /\ \A x \in Generated(d) :
           /\ e.orders[x].status = d.orders[x].status
           /\ e.orders[x].studentid = d.orders[x].studentid
           /\ e.orders[x].productid = d.orders[x].productid
           /\ e.orders[x].couponcode = d.orders[x].couponcode
    /\ o \notin Generated(d) => Inserted(d, o, e.orders[o])
    /\ \A x \in Generated(d) \ {o} : e.orders[x] = d.orders[x]

LEMMA EditReadies ==
    ASSUME NEW d \in Database, Sound(d), NEW o \in Order, NEW row \in OrderRow,
           NEW e, Edited(d, e, o, row)
    PROVE  Readied(d, e, o) /\ e.orders[o] = row
<1>1. e = [d EXCEPT !.orders = [@ EXCEPT ![o] = row]]
  BY DEF Edited
<1>2. /\ o \in Generated(d) =>
             row.status = d.orders[o].status /\ row.couponcode = d.orders[o].couponcode
      /\ o \notin Generated(d) => row.status = "created"
  BY DEF Edited, Inserted, Rewritten
<1>3. /\ e \in Database /\ Sound(e) /\ Generated(e) = Generated(d) \cup {o}
      /\ e.orders[o] = row
  <2>1. /\ e \in Database /\ e.activity = d.activity /\ e.delivery = d.delivery
        /\ e.orders = [d.orders EXCEPT ![o] = row]
    BY <1>1 DEF Database
  <2>2. e.orders[o] = row /\ \A x \in Order \ {o} : e.orders[x] = d.orders[x]
    BY <2>1 DEF Database
  <2>3. Generated(e) = Generated(d) \cup {o}
    BY <2>2, NullIsNoOrder DEF Generated
  <2>4. ASSUME NEW x \in Generated(e)
        PROVE  \/ e.orders[x].status \notin Unpaid
               \/ /\ x \in Generated(d) /\ e.orders[x].status = d.orders[x].status
                  /\ e.orders[x].couponcode = d.orders[x].couponcode
    BY <1>2, <2>2, <2>3 DEF Generated, Unpaid
  <2>5. Sound(e)
    BY <2>1, <2>3, <2>4, QuietSound
  <2> QED
    BY <2>1, <2>2, <2>3, <2>5
<1>4. /\ e.account = d.account /\ e.activity = d.activity
      /\ e.partitionaward = d.partitionaward
      /\ e.award = d.award /\ e.awardhistory = d.awardhistory
      /\ e.inventory = d.inventory /\ e.entitlement = d.entitlement /\ e.delivery = d.delivery
      /\ e.auditlog = d.auditlog
      /\ \A x \in Order \ {o} : e.orders[x] = d.orders[x]
  BY <1>1 DEF Database
<1>5. o \notin Generated(d) => Inserted(d, o, e.orders[o])
  BY <1>3 DEF Edited, Rewritten
<1>6. o \in Generated(d) => /\ row.studentid = d.orders[o].studentid
                            /\ row.productid = d.orders[o].productid
  BY DEF Edited, Rewritten, Inserted
<1>7. ASSUME NEW x \in Generated(d)
      PROVE  /\ e.orders[x].status = d.orders[x].status
             /\ e.orders[x].studentid = d.orders[x].studentid
             /\ e.orders[x].productid = d.orders[x].productid
             /\ e.orders[x].couponcode = d.orders[x].couponcode
             /\ x # o => e.orders[x] = d.orders[x]
  <2>1. CASE x = o
    BY <1>2, <1>3, <1>6, <2>1
  <2>2. CASE x # o
    BY <1>4, <2>2, GeneratedRow
  <2> QED
    BY <2>1, <2>2
<1> QED
  BY <1>3, <1>4, <1>5, <1>7 DEF Readied

LEMMA PreparedReadies ==
    ASSUME NEW d \in Database, Sound(d), NEW o \in Order, NEW e, Prepared(d, e, o)
    PROVE  Readied(d, e, o)
<1>1. CASE o \in Generated(d) /\ e = d
  BY <1>1 DEF Readied
<1>2. CASE \E row \in OrderRow : Edited(d, e, o, row)
  BY <1>2, EditReadies
<1> QED
  BY <1>1, <1>2 DEF Prepared

\* A database that is prepared has the books it had.
LEMMA ReadiedBooks ==
    ASSUME NEW d \in Database, Sound(d), Books(d), NEW o, NEW e, Readied(d, e, o)
    PROVE  /\ Books(e)
           /\ \A x \in Order : e.delivery[x] # "none" => x \in Generated(e)
<1>1. \A x \in Order : d.delivery[x] # "none" => x \in Generated(d)
  BY DEF Sound, Owned
<1>2. /\ e.account = d.account /\ e.activity = d.activity /\ e.delivery = d.delivery
      /\ e.partitionaward = d.partitionaward
      /\ e.award = d.award /\ e.awardhistory = d.awardhistory
      /\ Generated(d) \subseteq Generated(e)
      /\ \A x \in Generated(d) : e.orders[x].productid = d.orders[x].productid
  BY DEF Readied
<1> QED
  BY <1>1, <1>2, QuietBooks

LEMMA BooksTransact ==
    ASSUME db \in Database, today \in Int, Sound(db), Books(db), NEW e, Transacts(db, e)
    PROVE  Books(e)
<1>1. CASE Edits(db, e)
  BY <1>1, EditReadies, ReadiedBooks DEF Edits
<1>2. CASE Pays(db, e)
  <2>1. PICK o \in Order, force \in BOOLEAN : \E d1 :
            /\ Prepared(db, d1, o) /\ CanPay(d1, o, force)
            /\ \/ e = Pay(d1, o, force)
               \/ CanRevoke(Pay(d1, o, force), o) /\ e = Revoke(Pay(d1, o, force), o, TRUE)
    BY <1>2 DEF Pays
  <2>2. PICK d1 :
            /\ Prepared(db, d1, o) /\ CanPay(d1, o, force)
            /\ \/ e = Pay(d1, o, force)
               \/ CanRevoke(Pay(d1, o, force), o) /\ e = Revoke(Pay(d1, o, force), o, TRUE)
    BY <2>1
  <2>3. Readied(db, d1, o)
    BY <2>2, PreparedReadies
  <2>4. /\ d1 \in Database /\ Sound(d1) /\ o \in Generated(d1) /\ Books(d1)
        /\ \A x \in Order : d1.delivery[x] # "none" => x \in Generated(d1)
        /\ ~ HasActivity(d1, o)
    BY <2>2, <2>3, ReadiedBooks DEF Readied, CanPay
  <2> DEFINE d2 == Pay(d1, o, force)
  <2>5. Books(d2)
    BY <2>4, PayBooks
  <2>6. d2 \in Database /\ Sound(d2) /\ o \in Generated(d2)
    BY <2>4, PaySound, PayEffect DEF OthersKept
  <2>7. \/ e = d2
        \/ CanRevoke(d2, o) /\ e = Revoke(d2, o, TRUE)
    BY <2>2
  <2> HIDE DEF d2
  <2> QED
    BY <2>5, <2>6, <2>7, RevokeBooks
<1>3. CASE Writes(db, e)
  BY <1>3, SetStatusBooks DEF Writes, Sound, Owned
<1>4. CASE Revokes(db, e)
  BY <1>4, RevokeBooks DEF Revokes
<1>5. CASE Delivers(db, e)
  BY <1>5, DeliveryBooks DEF Delivers
<1> QED
  BY <1>1, <1>2, <1>3, <1>4, <1>5 DEF Transacts

\* The tables before the first order add up.
LEMMA BooksInit == Init => Books(db)
<1> SUFFICES ASSUME Init PROVE Books(db)
  OBVIOUS
<1>1. /\ db.activity = {} /\ db.partitionaward = {} /\ db.account = OpeningAccount
      /\ db.award = [a \in Linked |-> [pendingreturn |-> OpeningAward[a], lastorderid |-> NULL]]
      /\ db.awardhistory = [a \in Linked |-> [o \in Order |-> 0]]
      /\ db.delivery = [o \in Order |-> "none"]
  BY DEF Init
<1>2. Copied(db)
  <2>1. PlainRows(db) = {}
    BY <1>1 DEF PlainRows
  <2>2. PartitionAwards({}) = {}
    BY DEF PartitionAwards
  <2> QED
    BY <1>1, <2>1, <2>2 DEF Copied
<1>3. Delivered(db)
  BY <1>1 DEF Delivered, PaidByStatus, DeliveryRows, RowsOf
<1>4. Explained(db)
  <2>1. \A a, c : RowsPosted(db.activity, a, c) = {}
    BY <1>1 DEF RowsPosted
  <2>2. \A a \in Account, c \in MoneyColumn : OpeningAccount[a][c] \in Int
    BY OpeningAssumption DEF MoneyColumn
  <2>3. IsFiniteSet(db.activity)
    BY <1>1, FS_EmptySet
  <2>4. \A a, c : Total(RowsPosted(db.activity, a, c)) = 0
    BY <2>1, TotalSmall, Zenon
  <2> QED
    BY <1>1, <2>2, <2>3, <2>4 DEF Explained
<1>5. HistoryAddsUp(db)
  <2> SUFFICES ASSUME NEW a \in Linked
               PROVE  /\ db.award[a].pendingreturn
                             = OpeningAward[a] + SumFunctionOnSet(db.awardhistory[a], Order)
                      /\ \A o \in Order : db.awardhistory[a][o] = 0
    BY DEF HistoryAddsUp
  <2>1. /\ db.award[a].pendingreturn = OpeningAward[a] /\ OpeningAward[a] \in Int
        /\ \A o \in Order : db.awardhistory[a][o] = 0
    BY <1>1, OpeningAssumption
  <2>2. SumFunctionOnSet(db.awardhistory[a], Order) = 0
    BY <2>1, FiniteAssumption, SumZero
  <2> QED
    BY <2>1, <2>2
<1>6. LocksMatch(db)
  <2> SUFFICES ASSUME NEW a \in Account
               PROVE  LET moved == Worth(LockedBefore(a)) - Worth(LockedIn(db, a))
                      IN  /\ db.account[a]["balancetriple"]
                                 = OpeningAccount[a]["balancetriple"] + moved
                          /\ db.account[a]["balancetriplelock"]
                                 = OpeningAccount[a]["balancetriplelock"] - moved
    BY DEF LocksMatch
  <2>1. LockedIn(db, a) = LockedBefore(a)
    BY <1>1 DEF LockedIn, LockedBefore, AwardsUnder
  <2>2. Worth(LockedIn(db, a)) = Worth(LockedBefore(a)) /\ Worth(LockedBefore(a)) \in Int
    BY <2>1, LockedFinite
  <2>3. /\ OpeningAccount[a]["balancetriple"] \in Int
        /\ OpeningAccount[a]["balancetriplelock"] \in Int
    BY OpeningAssumption DEF Column
  <2> QED
    BY <1>1, <2>2, <2>3
<1> QED
  BY <1>2, <1>3, <1>4, <1>5, <1>6 DEF Books

\* The books of every reachable database add up.
LEMMA BooksStep == Consistent /\ Books(db) /\ [Next]_vars => Books(db)'
<1> SUFFICES ASSUME Consistent, Books(db), [Next]_vars PROVE Books(db')
  OBVIOUS
<1>1. TypeOK /\ Sound(db) /\ db \in Database /\ today \in Int
  BY ConsistentIsSound, BoundsAssumption DEF TypeOK
<1>2. CASE Next
  BY <1>1, <1>2, NextTransacts, BooksTransact
<1>3. CASE UNCHANGED vars
  BY <1>3 DEF vars
<1> QED
  BY <1>2, <1>3

THEOREM BooksKept == Spec => []Books(db)
<1>1. Init => Consistent /\ Books(db)
  BY ConsistentInit, BooksInit
<1>2. (Consistent /\ Books(db)) /\ [Next]_vars => (Consistent /\ Books(db))'
  BY ConsistentStep, BooksStep
<1> QED
  BY <1>1, <1>2, PTL DEF Spec

\* partitionaward, the copy the partition pages read, holds exactly the extension
\* awards in force, whatever is paid and revoked on pages however stale.
THEOREM CopiesMatch == Spec => []PartitionAwardMatchesLedger
<1>1. Books(db) => PartitionAwardMatchesLedger
  BY DEF Books, Copied, PlainRows, PartitionAwardMatchesLedger
<1> QED
  BY <1>1, BooksKept, PTL

\* The triple balances of every agent have moved by exactly the awards that were freed
\* or locked again, although a revocation moves an award under the order that moved it
\* last and not under its own.
THEOREM LocksAlwaysMatch == Spec => []TripleBalancesMatchLocks
<1>1. Books(db) => TripleBalancesMatchLocks
  BY DEF Books, LocksMatch, TripleBalancesMatchLocks, Worth, LockedBefore, LockedIn, AwardsUnder
<1> QED
  BY <1>1, BooksKept, PTL

\* No balance of an order's awards or deliveries moves without its row, and no row is
\* written, marked or undone without its balance.
THEOREM LedgerExplains == Spec => []LedgerExplainsBalances
<1>1. Books(db) => LedgerExplainsBalances
  BY DEF Books, Explained, LedgerExplainsBalances, MoneyColumn, RowsPosted
<1> QED
  BY <1>1, BooksKept, PTL

\* Two rows of an order's delivery come to the sum of their amounts.
LEMMA TotalPair ==
    ASSUME NEW r1 \in Row, NEW r2 \in Row, r1 # r2
    PROVE  Total({r1, r2}) = r1.amount + r2.amount
<1> DEFINE S == {r1} \cup {r2}
<1>1. IsFiniteSet({r1}) /\ IsFiniteSet({r2})
  BY FS_Singleton
<1>2. Total(S) = Total({r1}) + Total({r2})
  BY <1>1, TotalUnion
<1>3. {r1, r2} = S
  OBVIOUS
<1> HIDE DEF S
<1> QED
  BY <1>2, <1>3, TotalSmall

\* The rows of a delivery come to what its status says.
LEMMA DeliveredPays ==
    ASSUME NEW d \in Database, NEW o \in Generated(d), PaidByStatus(d, o)
    PROVE  LET paid == Total(DeliveryRows(d, o))
               price == PriceOfDelivery(d, o)
           IN  CASE d.delivery[o] = "CONFIRMED" -> paid = price
                 [] d.delivery[o] = "PARTIALLY_REFUNDED" -> paid \in 0 .. price - 1
                 [] OTHER -> paid = 0
<1> DEFINE price == PriceOfDelivery(d, o)
           Paid(n, k) == DeliveryRow(d, o, n, k)
<1>1. /\ o \in Order /\ d.orders[o].productid \in Product /\ price \in Nat
      /\ Pricing[d.orders[o].productid].deliveryaccount \in Account
      /\ d.delivery[o] \in DeliveryStatus
  BY GeneratedRow, StudentOfOrder, PricingAssumption DEF PriceOfDelivery, Database
<1>2. ASSUME NEW n \in Int, NEW k \in {"plain", "reversal"}
      PROVE  Paid(n, k) \in Row /\ Paid(n, k).amount = n /\ Paid(n, k).mark = k
  BY <1>1 DEF DeliveryRow, Row, Source
<1>3. ASSUME NEW n \in Int
      PROVE  Total({Paid(price, "plain"), Paid(-n, "reversal")}) = price - n
  <2>1. price \in Int /\ -n \in Int
    BY <1>1
  <2> HIDE DEF Paid, price
  <2>2. /\ Paid(price, "plain") \in Row /\ Paid(-n, "reversal") \in Row
        /\ Paid(price, "plain").amount = price /\ Paid(-n, "reversal").amount = -n
        /\ Paid(price, "plain") # Paid(-n, "reversal")
    BY <1>2, <2>1
  <2> QED
    BY <2>1, <2>2, TotalPair
<1>4. Total({}) = 0 /\ Total({Paid(price, "plain")}) = price
  <2>1. price \in Int
    BY <1>1
  <2> HIDE DEF Paid, price
  <2> QED
    BY <1>2, <2>1, TotalSmall
<1>5. CASE d.delivery[o] \in {"none", "PENDING"}
  <2>1. DeliveryRows(d, o) = {}
    BY <1>5 DEF PaidByStatus
  <2>2. Total(DeliveryRows(d, o)) = 0
    BY <1>4, <2>1, Zenon
  <2> QED
    BY <1>5, <2>2
<1>6. CASE d.delivery[o] = "CONFIRMED"
  <2>1. DeliveryRows(d, o) = {Paid(price, "plain")}
    BY <1>6 DEF PaidByStatus
  <2>2. Total(DeliveryRows(d, o)) = price
    BY <1>4, <2>1, Zenon
  <2> QED
    BY <1>6, <2>2
<1>7. CASE d.delivery[o] = "REFUNDED"
  <2>1. DeliveryRows(d, o) = {Paid(price, "plain"), Paid(-price, "reversal")}
    BY <1>7 DEF PaidByStatus
  <2>2. Total({Paid(price, "plain"), Paid(-price, "reversal")}) = 0
    <3>1. price \in Int
      BY <1>1
    <3> HIDE DEF Paid, price
    <3> QED
      BY <1>3, <3>1
  <2>3. Total(DeliveryRows(d, o)) = 0
    BY <2>1, <2>2, Zenon
  <2> QED
    BY <1>7, <2>3
<1>8. CASE d.delivery[o] = "PARTIALLY_REFUNDED"
  <2>1. PICK n \in 1 .. price :
            DeliveryRows(d, o) = {Paid(price, "plain"), Paid(-n, "reversal")}
    BY <1>8 DEF PaidByStatus
  <2>2. n \in Int /\ price - n \in 0 .. price - 1
    BY <1>1
  <2>3. Total({Paid(price, "plain"), Paid(-n, "reversal")}) = price - n
    BY <1>3, <2>2
  <2>4. Total(DeliveryRows(d, o)) = price - n
    BY <2>1, <2>3, Zenon
  <2> QED
    BY <1>8, <2>2, <2>4
<1> QED
  BY <1>1, <1>5, <1>6, <1>7, <1>8 DEF DeliveryStatus

\* The partner of a delivery has been paid what its status says.
THEOREM PartnersPaidByStatus == Spec => []DeliveryPaidByStatus
<1>1. Consistent /\ Books(db) => DeliveryPaidByStatus
  <2> SUFFICES ASSUME Consistent, Books(db), NEW o \in Generated(db)
               PROVE  LET paid == Total({r \in RowsOf(db, o) : r.source = "delivery"})
                          price == Pricing[db.orders[o].productid].delivery
                      IN  CASE db.delivery[o] = "CONFIRMED" -> paid = price
                            [] db.delivery[o] = "PARTIALLY_REFUNDED" -> paid \in 0 .. price - 1
                            [] OTHER -> paid = 0
    BY DEF DeliveryPaidByStatus
  <2>1. db \in Database /\ o \in Order
    BY GeneratedRow DEF Consistent, TypeOK, Generated
  <2>2. PaidByStatus(db, o)
    BY <2>1 DEF Books, Delivered
  <2> QED
    BY <2>1, <2>2, DeliveredPays DEF DeliveryRows, PriceOfDelivery
<1> QED
  BY <1>1, StaysConsistent, BooksKept, PTL

\* The lines of an award's page come to the sum of its history.
LEMMA DetailsTotal ==
    ASSUME NEW f \in [Order -> Int]
    PROVE  SumFunction([row \in {[orderid |-> o, amount |-> f[o]] :
                                     o \in {x \in Order : f[x] # 0}} |-> row.amount])
               = SumFunctionOnSet(f, Order)
<1> DEFINE S == {x \in Order : f[x] # 0}
           m == [o \in S |-> [orderid |-> o, amount |-> f[o]]]
           T == {m[o] : o \in S}
           g == [row \in T |-> row.amount]
<1>1. S \in SUBSET Order /\ IsFiniteSet(S) /\ IsFiniteSet(Order)
  BY FiniteAssumption, FS_Subset
<1>2. \A o \in S : f[o] \in Int /\ m[o] \in T /\ m[o].amount = f[o] /\ m[o].orderid = o
  OBVIOUS
<1>3. T = {[orderid |-> o, amount |-> f[o]] : o \in S}
  OBVIOUS
<1> HIDE DEF m
<1>4. \A o \in S : f[o] \in Int /\ g[m[o]] = f[o]
  BY <1>2
<1>5. \A o, p \in S : m[o] = m[p] => o = p
  BY <1>2
<1>6. SumFunction(g) = SumFunctionOnSet(g, T)
  BY DEF SumFunction
<1>7. SumFunctionOnSet(f, Order) = SumFunctionOnSet(f, S) + SumFunctionOnSet(f, Order \ S)
  <2>1. \A x \in Order : f[x] \in Int
    OBVIOUS
  <2> HIDE DEF S
  <2> QED
    BY <1>1, <2>1, SumSplit
<1>8. SumFunctionOnSet(f, Order \ S) = 0
  <2>1. IsFiniteSet(Order \ S) /\ \A x \in Order \ S : f[x] = 0
    BY <1>1, FS_Subset
  <2> QED
    BY <2>1, SumZero
<1>9. SumFunctionOnSet(f, S) \in Int
  BY <1>1, <1>2, SumInt
<1> HIDE DEF g, S
<1>10. SumFunctionOnSet(g, {m[o] : o \in S}) = SumFunctionOnSet(f, S)
  BY <1>1, <1>4, <1>5, SumImage
<1>11. SumFunction(g) = SumFunctionOnSet(f, Order)
  BY <1>6, <1>7, <1>8, <1>9, <1>10
<1> HIDE DEF T
<1>12. SumFunction([row \in T |-> row.amount]) = SumFunctionOnSet(f, Order)
  BY <1>11 DEF g
<1> QED
  BY <1>3, <1>12, Zenon DEF S

\* The page of an award's owner lists every change of it: the lines add up to what is
\* no longer to be returned.
THEOREM UnlockDetailsAddUp == Spec => []UnlocksAddUp
<1>1. Consistent /\ Books(db) => UnlocksAddUp
  <2> SUFFICES ASSUME Consistent, Books(db), NEW a \in Linked
               PROVE  db.award[a].pendingreturn = OpeningAward[a]
                          + SumFunction([row \in ListTripleUnlockDetails(a) |-> row.amount])
    BY DEF UnlocksAddUp
  <2> DEFINE f == db.awardhistory[a]
  <2>1. f \in [Order -> Int]
    BY DEF Consistent, TypeOK, Database
  <2>2. db.award[a].pendingreturn = OpeningAward[a] + SumFunctionOnSet(f, Order)
    BY DEF Books, HistoryAddsUp
  <2>3. ListTripleUnlockDetails(a)
            = {[orderid |-> o, amount |-> f[o]] : o \in {x \in Order : f[x] # 0}}
    BY DEF ListTripleUnlockDetails
  <2> HIDE DEF f
  <2>4. SumFunction([row \in {[orderid |-> o, amount |-> f[o]] :
                                  o \in {x \in Order : f[x] # 0}} |-> row.amount])
            = SumFunctionOnSet(f, Order)
    BY <2>1, DetailsTotal
  <2> DEFINE L == {[orderid |-> o, amount |-> f[o]] : o \in {x \in Order : f[x] # 0}}
  <2>5. SumFunction([row \in L |-> row.amount]) = SumFunctionOnSet(f, Order)
    BY <2>4
  <2>6. ListTripleUnlockDetails(a) = L
    BY <2>3
  <2> HIDE DEF L
  <2> QED
    BY <2>2, <2>5, <2>6
<1> QED
  BY <1>1, StaysConsistent, BooksKept, PTL

-----------------------------------------------------------------------------
(***************************************************************************)
(* What a status, a payment and a revocation leave of the orders, the      *)
(* entitlements, the stock and the deliveries                              *)
(***************************************************************************)

\* What o is counted with once it is purchased (reset_orderstatus_reaching_limit).
BoughtAlready(d, o) == (SamePurchase(d, o) \cap OrdersIn(d, BoughtStatus)) \cup {o}

\* o has status st, others may have failed with it, and when it is the last purchase
\* of its product that the student may make, all that are open have.
StatusSet(d, e, o, st) ==
    /\ e \in Database /\ Generated(e) = Generated(d)
    /\ StatusOf(e, o) = st
    /\ \A x \in Generated(d) :
           /\ SameOrder(e.orders[x], d.orders[x])
           /\ e.orders[x].couponcode \in {d.orders[x].couponcode, NULL}
    /\ \A x \in Generated(d) \ {o} :
           \/ StatusOf(e, x) = StatusOf(d, x)
           \/ StatusOf(d, x) \in OpenStatus /\ StatusOf(e, x) = "failed"
    /\ (/\ StatusOf(d, o) \in OpenStatus /\ st \in PurchasedStatus
        /\ LimitReached(LimitOf(d, o), Cardinality(BoughtAlready(d, o))))
          => \A x \in SamePurchase(d, o) \ {o} : StatusOf(e, x) \notin OpenStatus

LEMMA SetStatusFields ==
    ASSUME NEW d \in Database, NEW o \in Generated(d), NEW st \in Status,
           NEW e, e = SetStatus(d, o, st)
    PROVE  StatusSet(d, e, o, st) /\ e = [d EXCEPT !.orders = e.orders]
<1> DEFINE d1 == [d EXCEPT !.orders[o].status = st]
           limit == Pricing[d.orders[o].productid].purchaselimit
           bought == SamePurchase(d1, o) \cap OrdersIn(d1, PurchasedStatus \cup {"uncommisioned"})
           crowded == IF /\ StatusOf(d, o) \in OpenStatus /\ st \in PurchasedStatus
                         /\ LimitReached(limit, Cardinality(bought))
                      THEN (SamePurchase(d1, o) \cap OrdersIn(d1, OpenStatus)) \ {o}
                      ELSE {}
           died == IF st \in DeadStatus /\ st # StatusOf(d, o) THEN {o} ELSE {}
           orders1 == [d.orders EXCEPT ![o] = [@ EXCEPT !.status = st]]
           orders2 == [x \in Order |->
               IF x \in crowded THEN [orders1[x] EXCEPT !.status = "failed", !.couponcode = NULL]
               ELSE IF x \in died THEN [orders1[x] EXCEPT !.couponcode = NULL]
               ELSE orders1[x]]
<1>1. d1 = [d EXCEPT !.orders = orders1] /\ d1.orders = orders1
  BY DEF Database
<1>2. e.orders = orders2
  <2> HIDE DEF orders1, crowded, died
  <2> QED
    BY <1>1 DEF SetStatus, crowded, died, Database
<1>3. /\ e = [d EXCEPT !.orders = e.orders] /\ e \in Database
      /\ Generated(e) = Generated(d) /\ e.orders[o].status = st
      /\ e.orders[o].couponcode \in {d.orders[o].couponcode, NULL}
      /\ \A x \in Generated(d) \ {o} :
             \/ e.orders[x] = d.orders[x]
             \/ /\ d.orders[x].status \in OpenStatus
                /\ e.orders[x].status = "failed" /\ e.orders[x].couponcode = NULL
  BY SetStatusOrders, SetStatusType
<1>4. /\ \A x \in Order \ {o} : orders1[x] = d.orders[x]
      /\ o \in Order /\ d.orders[o] \in OrderRow
      /\ orders1[o] = [d.orders[o] EXCEPT !.status = st]
  BY GeneratedRow DEF Database
<1>5. /\ orders1[o] # NULL /\ orders1[o].status = st
      /\ SameOrder(orders1[o], d.orders[o])
  <2>1. [d.orders[o] EXCEPT !.status = st] \in OrderRow
    BY <1>4 DEF OrderRow
  <2> QED
    BY <1>4, <2>1, NullIsNoOrder DEF SameOrder, OrderRow
<1> HIDE DEF orders1
<1>6. Generated(d1) = Generated(d) /\ SamePurchase(d1, o) = SamePurchase(d, o)
  <2>1. Generated(d1) = Generated(d)
    BY <1>1, <1>4, <1>5 DEF Generated
  <2>2. \A x \in Generated(d) : /\ d1.orders[x].studentid = d.orders[x].studentid
                                /\ d1.orders[x].productid = d.orders[x].productid
    BY <1>1, <1>4, <1>5, GeneratedRow DEF SameOrder
  <2> HIDE DEF d1
  <2>3. SamePurchase(d1, o) = SamePurchase(d, o)
    BY <2>1, <2>2 DEF SamePurchase
  <2> QED
    BY <2>1, <2>3
<1>7. \A x \in Generated(d) \ {o} : StatusOf(d1, x) = StatusOf(d, x)
  BY <1>1, <1>4, GeneratedRow DEF StatusOf
<1>8. ASSUME StatusOf(d, o) \in OpenStatus, st \in PurchasedStatus,
             LimitReached(LimitOf(d, o), Cardinality(BoughtAlready(d, o))),
             NEW x \in SamePurchase(d, o) \ {o}
      PROVE  StatusOf(e, x) \notin OpenStatus
  <2>1. o \in SamePurchase(d, o) /\ StatusOf(d1, o) = st
    BY <1>1, <1>5 DEF SamePurchase, StatusOf
  <2>2. bought = BoughtAlready(d, o)
    <3>1. \A y \in Generated(d) : y \in OrdersIn(d1, BoughtStatus) <=>
                                      y = o \/ y \in OrdersIn(d, BoughtStatus)
      BY <1>6, <1>7, <1>8, <2>1 DEF OrdersIn, BoughtStatus
    <3>2. bought = SamePurchase(d, o) \cap OrdersIn(d1, BoughtStatus)
      BY <1>6 DEF BoughtStatus
    <3>3. SamePurchase(d, o) \subseteq Generated(d)
      BY DEF SamePurchase
    <3> HIDE DEF bought
    <3> QED
      BY <2>1, <3>1, <3>2, <3>3 DEF BoughtAlready
  <2>3. LimitReached(limit, Cardinality(bought))
    <3> HIDE DEF bought
    <3> QED
      BY <1>8, <2>2 DEF LimitOf
  <2>4. x \in Generated(d) /\ x # o /\ x \in Order
    BY <1>8, GeneratedRow DEF SamePurchase
  <2>5. CASE StatusOf(d, x) \in OpenStatus
    <3>1. x \in crowded
      <4> HIDE DEF bought, d1
      <4> QED
        BY <1>6, <1>7, <1>8, <2>3, <2>4, <2>5 DEF OrdersIn
    <3>2. orders1[x] \in OrderRow
      BY <1>4, <2>4, GeneratedRow
    <3> HIDE DEF crowded
    <3>3. e.orders[x] = [orders1[x] EXCEPT !.status = "failed", !.couponcode = NULL]
      BY <1>2, <2>4, <3>1
    <3> QED
      BY <3>2, <3>3 DEF OrderRow, StatusOf, OpenStatus
  <2>6. CASE StatusOf(d, x) \notin OpenStatus
    BY <1>3, <2>4, <2>6 DEF StatusOf
  <2> QED
    BY <2>5, <2>6
<1>9. \A x \in Generated(d) : SameOrder(e.orders[x], d.orders[x])
  BY SetStatusKeeps
<1> HIDE DEF d1, bought, crowded, died, orders2
<1> QED
  BY <1>3, <1>8, <1>9 DEF StatusSet, StatusOf

\* Only the update of an order that is settled from stock at price zero is kept of the log.
LEMMA LogKept ==
    ASSUME NEW d \in Database, NEW o
    PROVE  /\ Entitle(d, o).auditlog = d.auditlog /\ ReverseRows(d, o).auditlog = d.auditlog
           /\ WithdrawEntitlement(d, o).auditlog = d.auditlog
           /\ Distribute(d, o).auditlog = d.auditlog /\ RollBackTriple(d, o).auditlog = d.auditlog
           /\ \A amount, mark, st : PostDelivery(d, o, amount, mark, st).auditlog = d.auditlog
           /\ RevokeDeliveryOf(d, o).auditlog = d.auditlog
<1> DEFINE Rec(x) == DOMAIN x = DOMAIN d
<1>1. ASSUME NEW x, Rec(x), NEW a, NEW delta
      PROVE  MoveAward(x, a, delta).auditlog = x.auditlog
  BY <1>1 DEF MoveAward, Database
<1>2. Distribute(d, o).auditlog = d.auditlog
  <2> DEFINE u == Upstream[d.orders[o].studentid]
             pid == d.orders[o].productid
             R == PayoutRows(d, o)
             taken == IF TakesStock(d, o) THEN [d EXCEPT !.inventory[u][pid] = @ - 1] ELSE d
             posted == [taken EXCEPT !.account = Credit(@, R),
                                     !.activity = @ \cup R,
                                     !.partitionaward = @ \cup PartitionAwards(R)]
             named == [posted EXCEPT !.award[u].lastorderid = o]
  <2>1. Rec(taken) /\ taken.auditlog = d.auditlog
    BY DEF Database
  <2> HIDE DEF taken, R
  <2>2. Rec(posted) /\ posted.auditlog = d.auditlog
    BY <2>1 DEF Database
  <2> HIDE DEF posted
  <2>3. Rec(named) /\ named.auditlog = d.auditlog
    BY <2>2 DEF Database
  <2>4. /\ Distribute(d, o) = UnlockTriple(posted, o, R)
    BY DEF Distribute, taken, posted, R
  <2>5. \E a, delta : UnlockTriple(posted, o, R) \in
            {posted, MoveAward([posted EXCEPT !.award[a].lastorderid = o], a, delta)}
    BY DEF UnlockTriple
  <2> QED
    BY <1>1, <2>2, <2>4, <2>5 DEF Database
<1>3. RollBackTriple(d, o).auditlog = d.auditlog
  BY <1>1 DEF RollBackTriple
<1>4. \A amount, mark, st : PostDelivery(d, o, amount, mark, st).auditlog = d.auditlog
  BY DEF PostDelivery, Database
<1>5. RevokeDeliveryOf(d, o).auditlog = d.auditlog
  BY <1>4 DEF RevokeDeliveryOf
<1>6. Entitle(d, o).auditlog = d.auditlog /\ ReverseRows(d, o).auditlog = d.auditlog
  BY DEF Entitle, ReverseRows, Database
<1>7. WithdrawEntitlement(d, o).auditlog = d.auditlog
  BY DEF WithdrawEntitlement, Database
<1> QED
  BY <1>2, <1>3, <1>4, <1>5, <1>6, <1>7

\* pay_success activates what was not paid before, takes a unit if it settles an order
\* from stock, may open the delivery, and adds rows of its order only.
Settles(d, e, o, force) ==
    /\ StatusSet(d, e, o, PaidStatus(d.orders[o].paymentmethod, force))
    /\ \A x \in Student, t \in EntitlementType :
           e.entitlement[x][t] = IF StatusOf(d, o) = "paid" THEN d.entitlement[x][t]
                                 ELSE Extended(d, o, x, t)
    /\ StockMoved(d, e, o, IF Distributes(d, o, force) THEN Taken(d, o) ELSE 0)
    /\ e.delivery[o] \in {d.delivery[o], "PENDING"}
    /\ \A x \in Order \ {o} : e.delivery[x] = d.delivery[x]
    /\ \A r \in e.activity : r \in d.activity \/ r.orderid = o
    /\ e.auditlog = d.auditlog \cup Gratis(d, o)

LEMMA PaySettles ==
    ASSUME NEW d \in Database, Books(d), NEW o \in Generated(d), ~ HasActivity(d, o),
           NEW force, today \in Int, NEW e, e = Pay(d, o, force)
    PROVE  Settles(d, e, o, force)
<1> DEFINE granted == IF StatusOf(d, o) = "paid" THEN d ELSE Entitle(d, o)
           paid == IF Distributes(d, o, force) THEN Distribute(granted, o) ELSE granted
           settled == Audited(paid, o)
           st == PaidStatus(d.orders[o].paymentmethod, force)
<1>1. /\ granted \in Database /\ granted.orders = d.orders /\ granted.activity = d.activity
      /\ \A x \in Order \ {o} : granted.delivery[x] = d.delivery[x]
      /\ granted.delivery[o] \in {d.delivery[o], "PENDING"}
      /\ Books(granted) /\ granted.inventory = d.inventory /\ granted.auditlog = d.auditlog
      /\ \A x \in Student, t \in EntitlementType :
             granted.entitlement[x][t] = IF StatusOf(d, o) = "paid" THEN d.entitlement[x][t]
                                         ELSE Extended(d, o, x, t)
  BY EntitleType, EntitleBooks, LogKept
<1> HIDE DEF granted
<1>2. o \in Generated(granted) /\ ~ HasActivity(granted, o)
  BY <1>1 DEF Generated, HasActivity, RowsOf
<1>3. /\ settled \in Database /\ settled.orders = d.orders
      /\ settled.delivery = granted.delivery
      /\ settled.activity \in {d.activity, d.activity \cup PayoutRows(granted, o)}
      /\ settled.entitlement = granted.entitlement
      /\ StockMoved(granted, settled, o, IF Distributes(d, o, force) THEN Taken(granted, o) ELSE 0)
      /\ settled.auditlog = d.auditlog \cup Gratis(d, o)
  <2>1. /\ paid \in Database /\ paid.orders = d.orders
        /\ paid.delivery = granted.delivery
        /\ paid.activity \in {d.activity, d.activity \cup PayoutRows(granted, o)}
        /\ paid.entitlement = granted.entitlement /\ paid.auditlog = d.auditlog
        /\ StockMoved(granted, paid, o, IF Distributes(d, o, force) THEN Taken(granted, o) ELSE 0)
    <3>1. CASE Distributes(d, o, force)
      BY <1>1, <1>2, <3>1, DistributeType, DistributeBooks, LogKept
    <3>2. CASE ~ Distributes(d, o, force)
      <4>1. \A a \in Agent, p \in Product : granted.inventory[a][p] \in Int
        BY <1>1 DEF Database
      <4> QED
        BY <1>1, <3>2, <4>1 DEF StockMoved
    <3> QED
      BY <3>1, <3>2
  <2> HIDE DEF paid
  <2>2. o \in Generated(paid) /\ Gratis(paid, o) = Gratis(d, o)
    BY <2>1 DEF Generated, Gratis
  <2> QED
    BY <2>1, <2>2, AuditedType DEF StockMoved
<1> HIDE DEF settled, paid
<1>4. o \in Generated(settled) /\ Generated(settled) = Generated(d)
  BY <1>3 DEF Generated
<1>5. st \in Status
  BY DEF PaidStatus, Status, FinalStatus
<1> HIDE DEF st
<1>6. e = SetStatus(settled, o, st)
  BY DEF Pay, granted, paid, settled, st
<1>7. StatusSet(settled, e, o, st) /\ e = [settled EXCEPT !.orders = e.orders]
  BY <1>3, <1>4, <1>5, <1>6, SetStatusFields
<1>8. /\ e.activity = settled.activity /\ e.delivery = settled.delivery
      /\ e.entitlement = settled.entitlement /\ e.inventory = settled.inventory
      /\ e.auditlog = settled.auditlog
  BY <1>3, <1>7 DEF Database
<1>9. StatusSet(d, e, o, st)
  <2>1. /\ LimitOf(settled, o) = LimitOf(d, o)
        /\ BoughtAlready(settled, o) = BoughtAlready(d, o)
        /\ SamePurchase(settled, o) = SamePurchase(d, o)
        /\ \A x : StatusOf(settled, x) = StatusOf(d, x)
    BY <1>3 DEF LimitOf, BoughtAlready, SamePurchase, OrdersIn, StatusOf, Generated
  <2> QED
    BY <1>3, <1>4, <1>7, <2>1 DEF StatusSet
<1>10. StockMoved(d, e, o, IF Distributes(d, o, force) THEN Taken(d, o) ELSE 0)
  <2>1. Taken(granted, o) = Taken(d, o) /\ \A a, p : UnitOf(granted, o, a, p) = UnitOf(d, o, a, p)
    BY <1>1 DEF Taken, TakesStock, UnitOf
  <2> QED
    BY <1>1, <1>3, <1>8, <2>1 DEF StockMoved
<1>11. \A r \in e.activity : r \in d.activity \/ r.orderid = o
  <2>1. granted \in Database
    BY <1>1
  <2>2. \A r \in PayoutRows(granted, o) : r.orderid = o
    BY <1>2, <2>1, PayoutRowsShape
  <2> QED
    BY <1>3, <1>8, <2>2
<1> QED
  BY <1>1, <1>3, <1>8, <1>9, <1>10, <1>11 DEF Settles, st

\* revoke_pay takes the awards of its order back, the delivery with them, and, unless it
\* retains the entitlement, the days and the unit.
Retracts(d, e, o, retain) ==
    /\ StatusSet(d, e, o, IF retain THEN "uncommisioned" ELSE "refunded")
    /\ \A x \in Student, t \in EntitlementType :
           e.entitlement[x][t] = d.entitlement[x][t]
               - IF ~ retain /\ x = d.orders[o].studentid
                 THEN Pricing[d.orders[o].productid].validdays[t] ELSE 0
    /\ StockMoved(d, e, o, IF ~ retain /\ d.orders[o].paymentmethod \in InventoryMethod
                           THEN 1 ELSE 0)
    /\ e.delivery[o] \in {"none", "REFUNDED"}
    /\ \A x \in Order \ {o} : e.delivery[x] = d.delivery[x]
    /\ \A r \in e.activity : r.mark = "plain" /\ r.source # "delivery"
                                 => r \in d.activity /\ r.orderid # o
    /\ e.auditlog = d.auditlog

LEMMA RevokeRetracts ==
    ASSUME NEW d \in Database, Sound(d), Books(d), NEW o \in Generated(d), CanRevoke(d, o),
           NEW retain \in BOOLEAN, NEW e, e = Revoke(d, o, retain)
    PROVE  Retracts(d, e, o, retain)
<1> DEFINE d1 == ReverseRows(d, o)
           d2 == RollBackTriple(d1, o)
           d3 == IF retain THEN d2 ELSE WithdrawEntitlement(d2, o)
           d4 == RevokeDeliveryOf(d3, o)
           st == IF retain THEN "uncommisioned" ELSE "refunded"
           Days(x, t) == IF ~ retain /\ x = d.orders[o].studentid
                         THEN Pricing[d.orders[o].productid].validdays[t] ELSE 0
           back == IF ~ retain /\ d.orders[o].paymentmethod \in InventoryMethod THEN 1 ELSE 0
<1>1. /\ d1 \in Database /\ d1.orders = d.orders /\ d1.delivery = d.delivery /\ Books(d1)
      /\ d1.entitlement = d.entitlement /\ d1.inventory = d.inventory
      /\ d1.auditlog = d.auditlog
  BY ReverseRowsType, ReverseBooks, LogKept
<1> HIDE DEF d1
<1>2. /\ d2 \in Database /\ d2.orders = d.orders /\ d2.delivery = d.delivery /\ Books(d2)
      /\ d2.entitlement = d.entitlement /\ d2.inventory = d.inventory
      /\ d2.auditlog = d.auditlog
  <2>1. o \in Generated(d1)
    BY <1>1 DEF Generated
  <2> QED
    BY <1>1, <2>1, RollBackTripleType, RollBackBooks, LogKept
<1> HIDE DEF d2
<1>3. o \in Generated(d2) /\ o \in Order /\ d.orders[o] \in OrderRow
  BY <1>2, GeneratedRow DEF Generated
<1>4. /\ d3 \in Database /\ Generated(d3) = Generated(d)
      /\ StatusOf(d3, o) = StatusOf(d, o) /\ SameOrder(d3.orders[o], d.orders[o])
      /\ d3.orders[o].couponcode \in {d.orders[o].couponcode, NULL}
      /\ \A x \in Order \ {o} : d3.orders[x] = d.orders[x]
      /\ \A x \in Student, t \in EntitlementType :
             d3.entitlement[x][t] = d.entitlement[x][t] - Days(x, t)
      /\ StockMoved(d, d3, o, back)
  <2>1. CASE retain
    <3>1. /\ \A x \in Student, t \in EntitlementType : d.entitlement[x][t] \in Int
          /\ \A a \in Agent, p \in Product : d.inventory[a][p] \in Int
      BY DEF Database
    <3> QED
      BY <1>2, <2>1, <3>1 DEF Generated, StatusOf, SameOrder, StockMoved
  <2>2. CASE ~ retain
    <3>1. /\ d3 \in Database
          /\ d3.orders = [d.orders EXCEPT ![o] = [@ EXCEPT !.couponcode = NULL]]
      <4>1. d3 = WithdrawEntitlement(d2, o)
        BY <2>2
      <4>2. d2 \in Database /\ d2.orders = d.orders
        BY <1>2
      <4> HIDE DEF d3
      <4> QED
        BY <1>3, <4>1, <4>2, WithdrawEntitlementType
    <3>2. /\ \A x \in Student, t \in EntitlementType :
                 d3.entitlement[x][t] = d2.entitlement[x][t]
                     - IF x = d2.orders[o].studentid
                       THEN Pricing[d2.orders[o].productid].validdays[t] ELSE 0
          /\ StockMoved(d2, d3, o,
                        IF d2.orders[o].paymentmethod \in InventoryMethod THEN 1 ELSE 0)
      BY <1>2, <1>3, <2>2, WithdrawFields
    <3> DEFINE row == [d.orders[o] EXCEPT !.couponcode = NULL]
    <3>3. /\ row \in OrderRow /\ row.couponcode = NULL /\ row.status = d.orders[o].status
          /\ SameOrder(row, d.orders[o])
      BY <1>3 DEF OrderRow, SameOrder
    <3> HIDE DEF d3
    <3>4. /\ d3.orders[o] = row
          /\ \A x \in Order \ {o} : d3.orders[x] = d.orders[x]
      BY <1>3, <3>1 DEF Database
    <3> HIDE DEF row
    <3>5. Generated(d3) = Generated(d)
      BY <1>3, <3>3, <3>4, NullIsNoOrder DEF Generated
    <3>6. StockMoved(d, d3, o, back)
      BY <1>2, <2>2, <3>2 DEF StockMoved, UnitOf
    <3>7. \A x \in Student, t \in EntitlementType :
              d3.entitlement[x][t] = d.entitlement[x][t] - Days(x, t)
      BY <1>2, <2>2, <3>2
    <3> QED
      BY <3>1, <3>3, <3>4, <3>5, <3>6, <3>7 DEF StatusOf
  <2> QED
    BY <2>1, <2>2
<1>16. d3.auditlog = d.auditlog
  BY <1>2, LogKept
<1> HIDE DEF d3, back, Days
<1>5. o \in Generated(d3)
  BY <1>4
<1>6. /\ d4 \in Database /\ d4.orders = d3.orders
      /\ d4.entitlement = d3.entitlement /\ d4.inventory = d3.inventory
  <2>1. CASE d3.delivery[o] = "none"
    BY <1>4, <2>1 DEF RevokeDeliveryOf
  <2>2. CASE d3.delivery[o] # "none"
    <3> DEFINE amount == -Pricing[d3.orders[o].productid].delivery
    <3>1. amount \in Int
      BY <1>4, <1>5, StudentOfOrder, PricingAssumption
    <3>2. d4 = PostDelivery(d3, o, amount, "reversal", "REFUNDED")
      BY <2>2 DEF RevokeDeliveryOf
    <3> HIDE DEF amount, d4
    <3>3. "REFUNDED" \in DeliveryStatus
      BY DEF DeliveryStatus
    <3> HIDE DEF st
    <3>4. /\ d4 \in Database /\ d4.orders = d3.orders
          /\ d4.delivery = [d3.delivery EXCEPT ![o] = "REFUNDED"]
      BY <1>4, <1>5, <3>1, <3>2, <3>3, PostDeliveryType
    <3>5. d4.entitlement = d3.entitlement /\ d4.inventory = d3.inventory
      BY <1>4, <3>2 DEF PostDelivery, Database
    <3> QED
      BY <3>4, <3>5
  <2> QED
    BY <2>1, <2>2
<1>17. d4.auditlog = d.auditlog
  BY <1>4, <1>16, LogKept
<1> HIDE DEF d4
<1>7. o \in Generated(d4) /\ Generated(d4) = Generated(d)
  BY <1>4, <1>5, <1>6 DEF Generated
<1>8. st \in Status /\ st \notin PurchasedStatus
  BY DEF Status, FinalStatus, PurchasedStatus
<1>9. e = SetStatus(d4, o, st)
  BY DEF Revoke, d1, d2, d3, d4
<1> HIDE DEF st
<1>10. StatusSet(d4, e, o, st) /\ e = [d4 EXCEPT !.orders = e.orders]
  BY <1>6, <1>7, <1>8, <1>9, SetStatusFields
<1>11. e.entitlement = d4.entitlement /\ e.inventory = d4.inventory /\ e.auditlog = d4.auditlog
  BY <1>6, <1>10 DEF Database
<1>12. StatusSet(d, e, o, st)
  <2>1. \A x \in Generated(d) : /\ SameOrder(d4.orders[x], d.orders[x])
                                /\ d4.orders[x].couponcode \in {d.orders[x].couponcode, NULL}
                                /\ StatusOf(d4, x) = StatusOf(d, x)
    BY <1>4, <1>6, GeneratedRow DEF SameOrder, StatusOf
  <2> QED
    BY <1>7, <1>8, <1>10, <2>1 DEF StatusSet, SameOrder
<1>13. /\ e.delivery[o] \in {"none", "REFUNDED"}
       /\ \A x \in Order \ {o} : e.delivery[x] = d.delivery[x]
       /\ \E D \in SUBSET {r \in Row : /\ r.orderid = o /\ r.source = "delivery"
                                      /\ r.mark = "reversal"} :
              e.activity = ReversedActivity(d, o) \cup D
  <2>1. /\ OthersKept(d, e, o)
        /\ e.delivery[o] = IF d.delivery[o] = "none" THEN "none" ELSE "REFUNDED"
        /\ \E D \in SUBSET {r \in Row : /\ r.orderid = o /\ r.source = "delivery"
                                       /\ r.mark = "reversal"} :
               e.activity = ReversedActivity(d, o) \cup D
    BY RevokeEffect
  <2>2. e.delivery[o] \in {"none", "REFUNDED"}
    BY <2>1
  <2>3. \A x \in Order \ {o} : e.delivery[x] = d.delivery[x]
    BY <2>1 DEF OthersKept
  <2> QED
    BY <2>1, <2>2, <2>3
<1>14. ASSUME NEW r \in e.activity, r.mark = "plain", r.source # "delivery"
       PROVE  r \in d.activity /\ r.orderid # o
  <2>1. r \in ReversedActivity(d, o)
    BY <1>13, <1>14
  <2>2. \A x \in Row : Revoked(x).mark = "revoked" /\ Reversal(x).mark = "reversal"
    BY Opposites
  <2>3. RevocableRows(d, o) \subseteq Row
    BY DEF RevocableRows, RowsOf, Database
  <2>4. r \in d.activity \ RevocableRows(d, o)
    BY <1>14, <2>1, <2>2, <2>3 DEF ReversedActivity
  <2> QED
    BY <1>14, <2>4 DEF RevocableRows, RowsOf
<1>15. StockMoved(d, e, o, back)
  BY <1>4, <1>6, <1>11 DEF StockMoved
<1> QED
  BY <1>4, <1>6, <1>11, <1>12, <1>13, <1>14, <1>15, <1>17 DEF Retracts, st, back, Days

\* A payment in steps: the order is prepared, settled, and its awards may be revoked.
InSteps(d, e, o, force, d1, d2) ==
    /\ Prepared(d, d1, o) /\ Readied(d, d1, o) /\ Books(d1) /\ CanPay(d1, o, force)
    /\ d2 \in Database /\ Sound(d2) /\ Books(d2) /\ o \in Generated(d2)
    /\ Settles(d1, d2, o, force)
    /\ \/ e = d2
       \/ CanRevoke(d2, o) /\ Retracts(d2, e, o, TRUE)

LEMMA PaysInSteps ==
    ASSUME NEW d \in Database, today \in Int, Sound(d), Books(d), NEW e, Pays(d, e)
    PROVE  \E o \in Order, force \in BOOLEAN : \E d1, d2 : InSteps(d, e, o, force, d1, d2)
<1>1. PICK o \in Order, force \in BOOLEAN : \E d1 :
          /\ Prepared(d, d1, o) /\ CanPay(d1, o, force)
          /\ \/ e = Pay(d1, o, force)
             \/ CanRevoke(Pay(d1, o, force), o) /\ e = Revoke(Pay(d1, o, force), o, TRUE)
  BY DEF Pays
<1>2. PICK d1 :
          /\ Prepared(d, d1, o) /\ CanPay(d1, o, force)
          /\ \/ e = Pay(d1, o, force)
             \/ CanRevoke(Pay(d1, o, force), o) /\ e = Revoke(Pay(d1, o, force), o, TRUE)
  BY <1>1
<1>3. Readied(d, d1, o)
  BY <1>2, PreparedReadies
<1>4. /\ d1 \in Database /\ Sound(d1) /\ o \in Generated(d1) /\ Books(d1)
      /\ \A x \in Order : d1.delivery[x] # "none" => x \in Generated(d1)
      /\ ~ HasActivity(d1, o)
  BY <1>2, <1>3, ReadiedBooks DEF Readied, CanPay
<1> DEFINE d2 == Pay(d1, o, force)
<1>5. Books(d2) /\ Settles(d1, d2, o, force)
  BY <1>4, PayBooks, PaySettles
<1>6. d2 \in Database /\ Sound(d2) /\ o \in Generated(d2)
  BY <1>4, PaySound, PayEffect DEF OthersKept
<1>7. \/ e = d2
      \/ CanRevoke(d2, o) /\ e = Revoke(d2, o, TRUE)
  BY <1>2
<1> HIDE DEF d2
<1>8. CanRevoke(d2, o) /\ e = Revoke(d2, o, TRUE) => Retracts(d2, e, o, TRUE)
  BY <1>5, <1>6, RevokeRetracts
<1>9. \/ e = d2
      \/ CanRevoke(d2, o) /\ Retracts(d2, e, o, TRUE)
  BY <1>7, <1>8
<1>10. InSteps(d, e, o, force, d1, d2)
  BY <1>2, <1>3, <1>4, <1>5, <1>6, <1>9 DEF InSteps
<1> QED
  BY <1>1, <1>10

-----------------------------------------------------------------------------
(***************************************************************************)
(* Entitlements cover the orders held                                      *)
(***************************************************************************)

\* The days of the orders held add up to a natural number.
LEMMA DaysHeldSum ==
    ASSUME NEW d \in Database, NEW s, NEW t \in EntitlementType, NEW f,
           \A x \in HeldWith(d, s, t) : f[x] = DaysOf(d, x, t)
    PROVE  /\ IsFiniteSet(HeldWith(d, s, t))
           /\ \A x \in HeldWith(d, s, t) : f[x] \in Nat
           /\ DaysHeld(d, s, t) = SumFunctionOnSet(f, HeldWith(d, s, t))
<1> DEFINE S == HeldWith(d, s, t)
           g == [o \in S |-> DaysOf(d, o, t)]
<1>1. S \subseteq Generated(d) /\ S \subseteq Order
  BY GeneratedRow DEF HeldWith, OrdersIn
<1>2. IsFiniteSet(S)
  BY <1>1, FiniteAssumption, FS_Subset
<1>3. \A x \in S : f[x] \in Nat
  BY <1>1, StudentOfOrder, PricingAssumption DEF DaysOf
<1>4. DaysHeld(d, s, t) = SumFunctionOnSet(g, S)
  BY DEF DaysHeld, SumFunction
<1>5. \A x \in S : f[x] \in Int /\ g[x] = f[x]
  BY <1>3
<1> HIDE DEF S, g
<1>6. SumFunctionOnSet(g, S) = SumFunctionOnSet(f, S)
  BY <1>2, <1>5, SumSame
<1> QED
  BY <1>2, <1>3, <1>4, <1>6 DEF S

\* An order may come to be held if its days are added, and its days be taken back if it
\* no longer is; others may only cease to be held.
Shifts(d, e, o, s, t) ==
    \/ /\ e.entitlement[s][t] >= d.entitlement[s][t]
       /\ o \in HeldWith(e, s, t) => o \in HeldWith(d, s, t)
    \/ /\ o \in HeldWith(e, s, t) \ HeldWith(d, s, t)
       /\ e.entitlement[s][t] = ExtendedTo(d.entitlement[s][t], DaysOf(e, o, t))
    \/ /\ o \in HeldWith(d, s, t) \ HeldWith(e, s, t)
       /\ e.entitlement[s][t] = d.entitlement[s][t] - DaysOf(d, o, t)

LEMMA ShiftCovers ==
    ASSUME NEW d \in Database, NEW e \in Database, today = 1, Covers(d),
           NEW o, NEW s \in Student, NEW t \in EntitlementType, Shifts(d, e, o, s, t),
           HeldWith(e, s, t) \ {o} \subseteq HeldWith(d, s, t),
           \A x \in HeldWith(e, s, t) \cap HeldWith(d, s, t) : DaysOf(e, x, t) = DaysOf(d, x, t),
           HeldWith(e, s, t) # {}
    PROVE  e.entitlement[s][t] >= 1 + DaysHeld(e, s, t)
<1> DEFINE D == HeldWith(d, s, t)
           E == HeldWith(e, s, t)
           f == [x \in D \cup E |-> IF x \in D THEN DaysOf(d, x, t) ELSE DaysOf(e, x, t)]
           Sum(S) == SumFunctionOnSet(f, S)
           old == d.entitlement[s][t]
           new == e.entitlement[s][t]
<1>1. /\ \A x \in D : f[x] = DaysOf(d, x, t)
      /\ \A x \in E : f[x] = DaysOf(e, x, t)
  OBVIOUS
<1> HIDE DEF f
<1>2. /\ IsFiniteSet(D) /\ IsFiniteSet(E) /\ \A x \in D \cup E : f[x] \in Nat
      /\ DaysHeld(d, s, t) = Sum(D) /\ DaysHeld(e, s, t) = Sum(E)
  BY <1>1, DaysHeldSum
<1>3. old \in Int /\ new \in Int
  BY DEF Database
<1>4. D # {} => old >= 1 + Sum(D)
  BY <1>2 DEF Covers
<1>5. E # {} /\ E \ {o} \subseteq D
  OBVIOUS
<1>6. \/ new >= old /\ (o \in E => o \in D)
      \/ o \in E \ D /\ new = ExtendedTo(old, f[o])
      \/ o \in D \ E /\ new = old - f[o]
  BY <1>1 DEF Shifts
<1> HIDE DEF D, E, old, new
\* Of the orders held before, some remain.
<1>7. ASSUME NEW S \in SUBSET D
      PROVE  IsFiniteSet(S) /\ Sum(S) \in Nat /\ Sum(D) >= Sum(S)
  <2>1. IsFiniteSet(S) /\ IsFiniteSet(D \ S)
    BY <1>2, FS_Subset
  <2>2. Sum(S) \in Nat /\ Sum(D \ S) \in Nat
    BY <1>2, <2>1, SumNat
  <2>3. \A x \in D : f[x] \in Int
    BY <1>2
  <2>4. Sum(D) = Sum(S) + Sum(D \ S)
    BY <1>2, <2>3, SumSplit
  <2> QED
    BY <2>1, <2>2, <2>4
<1> SUFFICES new >= 1 + Sum(E)
  BY <1>2 DEF new
<1>8. CASE new >= old /\ (o \in E => o \in D)
  <2>1. E \subseteq D /\ D # {}
    BY <1>5, <1>8
  <2>2. Sum(E) \in Nat /\ Sum(D) >= Sum(E) /\ Sum(D) \in Nat
    BY <1>7, <2>1
  <2> HIDE DEF Sum
  <2> QED
    BY <1>3, <1>4, <1>8, <2>1, <2>2
<1>9. CASE o \in E \ D /\ new = ExtendedTo(old, f[o])
  <2> DEFINE R == E \ {o}
  <2>1. R \in SUBSET D /\ E = R \cup {o} /\ o \notin R /\ \A x \in R : f[x] \in Int
    BY <1>2, <1>5, <1>9
  <2>2. f[o] \in Nat
    BY <1>2, <1>9
  <2> HIDE DEF R
  <2>3. IsFiniteSet(R) /\ Sum(R) \in Nat /\ Sum(D) >= Sum(R) /\ Sum(D) \in Nat
    BY <1>7, <2>1
  <2>4. Sum(E) = f[o] + Sum(R)
    BY <2>1, <2>2, <2>3, SumInsert
  <2>5. new = IF old < 1 THEN 1 + f[o] ELSE old + f[o]
    BY <1>9 DEF ExtendedTo
  <2>6. CASE D = {}
    <3>1. Sum(R) = 0
      BY <2>1, <2>6, SumEmpty
    <3> HIDE DEF Sum
    <3> QED
      BY <1>3, <2>2, <2>4, <2>5, <3>1
  <2>7. CASE D # {}
    <3> HIDE DEF Sum
    <3> QED
      BY <1>3, <1>4, <2>2, <2>3, <2>4, <2>5, <2>7
  <2> QED
    BY <2>6, <2>7
<1>10. CASE o \in D \ E /\ new = old - f[o]
  <2> DEFINE R == D \ {o}
  <2>1. E \in SUBSET R /\ R \in SUBSET D /\ f[o] \in Nat /\ D # {}
        /\ \A x \in D : f[x] \in Int
    BY <1>2, <1>5, <1>10
  <2>2. Sum(D) = f[o] + Sum(R)
    BY <1>2, <1>10, <2>1, SumRemove
  <2> HIDE DEF R
  <2>3. IsFiniteSet(R) /\ Sum(R) \in Nat /\ IsFiniteSet(E) /\ IsFiniteSet(R \ E)
    BY <1>7, <2>1, FS_Subset
  <2>4. Sum(E) \in Nat /\ Sum(R \ E) \in Nat
    BY <1>2, <2>1, <2>3, SumNat
  <2>5. Sum(R) = Sum(E) + Sum(R \ E)
    <3>1. \A x \in R : f[x] \in Int
      BY <2>1
    <3> QED
      BY <2>1, <2>3, <3>1, SumSplit
  <2> HIDE DEF Sum
  <2> QED
    BY <1>3, <1>4, <1>10, <2>1, <2>2, <2>3, <2>4, <2>5
<1> QED
  BY <1>6, <1>8, <1>9, <1>10

\* All that is held, of all students, after a change to order o.
LEMMA ShiftsCover ==
    ASSUME NEW d \in Database, NEW e \in Database, today = 1, Covers(d), NEW o,
           \A x \in OrdersIn(e, BoughtStatus) : x # o => x \in OrdersIn(d, BoughtStatus),
           \A x \in Generated(d) \cap Generated(e) :
               /\ e.orders[x].studentid = d.orders[x].studentid
               /\ e.orders[x].productid = d.orders[x].productid,
           \A s \in Student, t \in EntitlementType : Shifts(d, e, o, s, t)
    PROVE  Covers(e)
<1> SUFFICES ASSUME NEW s \in Student, NEW t \in EntitlementType, HeldWith(e, s, t) # {}
             PROVE  e.entitlement[s][t] >= 1 + DaysHeld(e, s, t)
  BY DEF Covers
<1>1. OrdersIn(d, BoughtStatus) \subseteq Generated(d)
      /\ OrdersIn(e, BoughtStatus) \subseteq Generated(e)
  BY DEF OrdersIn
<1>2. HeldWith(e, s, t) \ {o} \subseteq HeldWith(d, s, t)
  BY <1>1 DEF HeldWith, DaysOf
<1>3. \A x \in HeldWith(e, s, t) \cap HeldWith(d, s, t) : DaysOf(e, x, t) = DaysOf(d, x, t)
  BY <1>1 DEF HeldWith, DaysOf
<1> QED
  BY <1>2, <1>3, ShiftCovers

\* What each kind of transaction does to the orders held and to their days.
LEMMA ReadiedCovers ==
    ASSUME NEW d \in Database, Covers(d), today = 1, NEW o, NEW e, Readied(d, e, o)
    PROVE  Covers(e)
<1>1. /\ e \in Database /\ e.entitlement = d.entitlement /\ Generated(e) = Generated(d) \cup {o}
      /\ \A x \in Generated(d) :
             /\ e.orders[x].status = d.orders[x].status
             /\ e.orders[x].studentid = d.orders[x].studentid
             /\ e.orders[x].productid = d.orders[x].productid
      /\ o \notin Generated(d) => e.orders[o].status = "created"
  BY DEF Readied, Inserted
<1>2. OrdersIn(e, BoughtStatus) = OrdersIn(d, BoughtStatus)
  BY <1>1 DEF OrdersIn, StatusOf, BoughtStatus, PurchasedStatus
<1>3. \A s, t : HeldWith(e, s, t) \subseteq HeldWith(d, s, t)
  BY <1>1, <1>2 DEF HeldWith, DaysOf, OrdersIn
<1>4. \A s \in Student, t \in EntitlementType : d.entitlement[s][t] \in Int
  BY DEF Database
<1>5. \A s \in Student, t \in EntitlementType : Shifts(d, e, o, s, t)
  BY <1>1, <1>3, <1>4 DEF Shifts
<1> QED
  BY <1>1, <1>2, <1>5, ShiftsCover

\* The orders held, when a status is set.
LEMMA HeldAfter ==
    ASSUME NEW d \in Database, NEW o \in Generated(d), NEW st, NEW e, StatusSet(d, e, o, st)
    PROVE  /\ e \in Database /\ Generated(e) = Generated(d)
           /\ \A x \in OrdersIn(e, BoughtStatus) : x # o => x \in OrdersIn(d, BoughtStatus)
           /\ \A x \in Generated(d) :
                  /\ e.orders[x].studentid = d.orders[x].studentid
                  /\ e.orders[x].productid = d.orders[x].productid
           /\ o \in OrdersIn(e, BoughtStatus) <=> st \in BoughtStatus
BY DEF StatusSet, SameOrder, OrdersIn, StatusOf, BoughtStatus, PurchasedStatus

LEMMA SettleCovers ==
    ASSUME NEW d \in Database, Covers(d), today = 1, NEW o \in Generated(d), NEW force,
           CanPay(d, o, force), NEW e, Settles(d, e, o, force)
    PROVE  Covers(e)
<1> DEFINE st == PaidStatus(d.orders[o].paymentmethod, force)
<1>1. /\ StatusSet(d, e, o, st) /\ st \in BoughtStatus
      /\ \A x \in Student, t \in EntitlementType :
             e.entitlement[x][t] = IF StatusOf(d, o) = "paid" THEN d.entitlement[x][t]
                                   ELSE Extended(d, o, x, t)
  BY DEF Settles, PaidStatus, BoughtStatus, PurchasedStatus
<1>2. StatusOf(d, o) = "paid" \/ StatusOf(d, o) \notin BoughtStatus
  BY DEF CanPay, StatusOf, FinalStatus, BoughtStatus, PurchasedStatus
<1> HIDE DEF st
<1>3. /\ e \in Database /\ Generated(e) = Generated(d)
      /\ \A x \in OrdersIn(e, BoughtStatus) : x # o => x \in OrdersIn(d, BoughtStatus)
      /\ \A x \in Generated(d) :
             /\ e.orders[x].studentid = d.orders[x].studentid
             /\ e.orders[x].productid = d.orders[x].productid
      /\ o \in OrdersIn(e, BoughtStatus)
  BY <1>1, HeldAfter
<1>4. ASSUME NEW s \in Student, NEW t \in EntitlementType
      PROVE  Shifts(d, e, o, s, t)
  <2>1. /\ d.entitlement[s][t] \in Int /\ DaysOf(d, o, t) \in Nat
        /\ DaysOf(e, o, t) = DaysOf(d, o, t)
    <3>1. d.orders[o].productid \in Product /\ e.orders[o].productid = d.orders[o].productid
      BY <1>3, StudentOfOrder
    <3>2. Pricing[d.orders[o].productid].validdays[t] \in Nat
      BY <3>1, PricingAssumption
    <3>3. d.entitlement[s][t] \in Int
      BY DEF Database
    <3> QED
      BY <3>1, <3>2, <3>3 DEF DaysOf
  <2>2. e.entitlement[s][t] = IF StatusOf(d, o) = "paid" THEN d.entitlement[s][t]
                              ELSE IF s = d.orders[o].studentid /\ DaysOf(d, o, t) # 0
                              THEN ExtendedTo(d.entitlement[s][t], DaysOf(d, o, t))
                              ELSE d.entitlement[s][t]
    BY <1>1 DEF Extended, DaysOf
  <2>3. o \in HeldWith(e, s, t) <=> s = d.orders[o].studentid /\ DaysOf(d, o, t) > 0
    BY <1>3, <2>1 DEF HeldWith
  <2>4. o \in HeldWith(d, s, t) <=> /\ StatusOf(d, o) = "paid"
                                    /\ s = d.orders[o].studentid /\ DaysOf(d, o, t) > 0
    BY <1>2 DEF HeldWith, OrdersIn, BoughtStatus, PurchasedStatus
  <2>5. CASE StatusOf(d, o) = "paid" \/ ~ (s = d.orders[o].studentid /\ DaysOf(d, o, t) # 0)
    <3>1. e.entitlement[s][t] = d.entitlement[s][t]
      BY <2>2, <2>5
    <3> QED
      BY <2>1, <2>3, <2>4, <2>5, <3>1 DEF Shifts
  <2>6. CASE StatusOf(d, o) # "paid" /\ s = d.orders[o].studentid /\ DaysOf(d, o, t) # 0
    <3>1. e.entitlement[s][t] = ExtendedTo(d.entitlement[s][t], DaysOf(e, o, t))
      BY <2>1, <2>2, <2>6
    <3>2. o \in HeldWith(e, s, t) \ HeldWith(d, s, t)
      BY <2>1, <2>3, <2>4, <2>6
    <3> QED
      BY <3>1, <3>2 DEF Shifts
  <2> QED
    BY <2>5, <2>6
<1> QED
  BY <1>3, <1>4, ShiftsCover

LEMMA RetractCovers ==
    ASSUME NEW d \in Database, Covers(d), today = 1, NEW o \in Generated(d), CanRevoke(d, o),
           NEW retain \in BOOLEAN, NEW e, Retracts(d, e, o, retain)
    PROVE  Covers(e)
<1> DEFINE st == IF retain THEN "uncommisioned" ELSE "refunded"
<1>1. /\ StatusSet(d, e, o, st) /\ (st \in BoughtStatus <=> retain)
      /\ \A x \in Student, t \in EntitlementType :
             e.entitlement[x][t] = d.entitlement[x][t]
                 - IF ~ retain /\ x = d.orders[o].studentid THEN DaysOf(d, o, t) ELSE 0
  BY DEF Retracts, DaysOf, BoughtStatus, PurchasedStatus
<1>2. o \in OrdersIn(d, BoughtStatus)
  BY DEF CanRevoke, OrdersIn, BoughtStatus, PurchasedStatus
<1> HIDE DEF st
<1>3. /\ e \in Database /\ Generated(e) = Generated(d)
      /\ \A x \in OrdersIn(e, BoughtStatus) : x # o => x \in OrdersIn(d, BoughtStatus)
      /\ \A x \in Generated(d) :
             /\ e.orders[x].studentid = d.orders[x].studentid
             /\ e.orders[x].productid = d.orders[x].productid
      /\ o \in OrdersIn(e, BoughtStatus) <=> retain
  BY <1>1, HeldAfter
<1>4. ASSUME NEW s \in Student, NEW t \in EntitlementType
      PROVE  Shifts(d, e, o, s, t)
  <2>1. /\ d.entitlement[s][t] \in Int /\ DaysOf(d, o, t) \in Nat
        /\ DaysOf(e, o, t) = DaysOf(d, o, t)
    <3>1. d.orders[o].productid \in Product /\ e.orders[o].productid = d.orders[o].productid
      BY <1>3, StudentOfOrder
    <3>2. Pricing[d.orders[o].productid].validdays[t] \in Nat
      BY <3>1, PricingAssumption
    <3>3. d.entitlement[s][t] \in Int
      BY DEF Database
    <3> QED
      BY <3>1, <3>2, <3>3 DEF DaysOf
  <2>2. o \in HeldWith(d, s, t) <=> s = d.orders[o].studentid /\ DaysOf(d, o, t) > 0
    BY <1>2 DEF HeldWith
  <2>3. o \in HeldWith(e, s, t) <=>
            retain /\ s = d.orders[o].studentid /\ DaysOf(d, o, t) > 0
    BY <1>3, <2>1 DEF HeldWith
  <2>4. e.entitlement[s][t] = d.entitlement[s][t]
            - IF ~ retain /\ s = d.orders[o].studentid THEN DaysOf(d, o, t) ELSE 0
    BY <1>1
  <2> QED
    BY <2>1, <2>2, <2>3, <2>4 DEF Shifts
<1> QED
  BY <1>3, <1>4, ShiftsCover

LEMMA WriteCovers ==
    ASSUME NEW d \in Database, Covers(d), today = 1, NEW o \in Generated(d),
           NEW st \in Status \ BoughtStatus, NEW e, e = SetStatus(d, o, st)
    PROVE  Covers(e)
<1>1. StatusSet(d, e, o, st) /\ e = [d EXCEPT !.orders = e.orders]
  BY SetStatusFields
<1>2. e.entitlement = d.entitlement
  BY <1>1 DEF Database
<1>3. /\ e \in Database /\ Generated(e) = Generated(d)
      /\ \A x \in OrdersIn(e, BoughtStatus) : x # o => x \in OrdersIn(d, BoughtStatus)
      /\ \A x \in Generated(d) :
             /\ e.orders[x].studentid = d.orders[x].studentid
             /\ e.orders[x].productid = d.orders[x].productid
      /\ o \notin OrdersIn(e, BoughtStatus)
  BY <1>1, HeldAfter
<1>4. ASSUME NEW s \in Student, NEW t \in EntitlementType
      PROVE  Shifts(d, e, o, s, t)
  <2>1. d.entitlement[s][t] \in Int
    BY DEF Database
  <2>2. o \notin HeldWith(e, s, t)
    BY <1>3 DEF HeldWith
  <2> QED
    BY <1>2, <2>1, <2>2 DEF Shifts
<1> QED
  BY <1>3, <1>4, ShiftsCover

\* A transaction on the first day keeps the orders held covered.
LEMMA CoversTransact ==
    ASSUME NEW d \in Database, today = 1, Sound(d), Books(d), Covers(d), NEW e, Transacts(d, e)
    PROVE  Covers(e)
<1>1. CASE Edits(d, e)
  BY <1>1, EditReadies, ReadiedCovers DEF Edits
<1>2. CASE Pays(d, e)
  <2>1. PICK o \in Order, force \in BOOLEAN : \E d1, d2 : InSteps(d, e, o, force, d1, d2)
    BY <1>2, PaysInSteps
  <2>2. PICK d1, d2 : InSteps(d, e, o, force, d1, d2)
    BY <2>1
  <2>3. d1 \in Database /\ Covers(d1) /\ o \in Generated(d1)
    BY <2>2, ReadiedCovers DEF InSteps, Readied
  <2>4. d2 \in Database /\ Covers(d2)
    BY <2>2, <2>3, SettleCovers DEF InSteps
  <2>5. CASE e = d2
    BY <2>4, <2>5
  <2>6. CASE CanRevoke(d2, o) /\ Retracts(d2, e, o, TRUE)
    BY <2>2, <2>4, <2>6, RetractCovers DEF InSteps
  <2> QED
    BY <2>2, <2>5, <2>6 DEF InSteps
<1>3. CASE Writes(d, e)
  <2>1. PICK o \in Generated(d), st \in Status : MayWrite(d, o, st) /\ e = SetStatus(d, o, st)
    BY <1>3 DEF Writes
  <2>2. st \notin BoughtStatus
    BY <2>1 DEF MayWrite, BoughtStatus, PurchasedStatus
  <2> QED
    BY <2>1, <2>2, WriteCovers
<1>4. CASE Revokes(d, e)
  BY <1>4, RevokeRetracts, RetractCovers DEF Revokes
<1>5. CASE Delivers(d, e)
  <2>1. e.orders = d.orders /\ e.entitlement = d.entitlement
    BY <1>5 DEF Delivers, PostDelivery, Database
  <2>2. \A s, t : HeldWith(e, s, t) = HeldWith(d, s, t) /\ DaysHeld(e, s, t) = DaysHeld(d, s, t)
    BY <2>1 DEF HeldWith, DaysHeld, DaysOf, OrdersIn, StatusOf, Generated
  <2> QED
    BY <2>1, <2>2 DEF Covers
<1> QED
  BY <1>1, <1>2, <1>3, <1>4, <1>5 DEF Transacts

\* While no day passes, a student's entitlement runs for at least the days bought with
\* the orders that hold and bring it, whatever is paid, refunded, revoked and declined on
\* pages however stale.
THEOREM OrdersHeldAreCovered == Spec => []EntitlementCoversOrders
<1> DEFINE Covered == today >= 1 /\ (today = 1 => Covers(db))
<1>1. Init => Covered
  <2> SUFFICES ASSUME Init PROVE Covers(db) /\ today = 1
    OBVIOUS
  <2>1. OrdersIn(db, BoughtStatus) = {}
    BY DEF Init, OrdersIn, Generated
  <2> QED
    BY <2>1 DEF Init, Covers, HeldWith
<1>2. Consistent /\ Books(db) /\ Covered /\ [Next]_vars => Covered'
  <2> SUFFICES ASSUME Consistent, Books(db), Covered, [Next]_vars PROVE Covered'
    OBVIOUS
  <2>1. TypeOK /\ Sound(db) /\ db \in Database /\ today \in Int
    BY ConsistentIsSound, BoundsAssumption DEF TypeOK
  <2>2. CASE Next
    <3>1. CASE db' = db /\ today' = today + 1
      BY <2>1, <3>1
    <3>2. CASE Transacts(db, db') /\ today' = today
      <4>1. today = 1 => Covers(db')
        BY <2>1, <3>2, CoversTransact
      <4> QED
        BY <3>2, <4>1
    <3> QED
      BY <2>1, <2>2, <3>1, <3>2, NextTransacts
  <2>3. CASE UNCHANGED vars
    BY <2>3 DEF vars
  <2> QED
    BY <2>2, <2>3
<1>3. Covered => EntitlementCoversOrders
  BY DEF Covers, EntitlementCoversOrders, HeldWith, DaysHeld, DaysOf, BoughtStatus
<1> QED
  BY <1>1, <1>2, <1>3, StaysConsistent, BooksKept, PTL DEF Spec

-----------------------------------------------------------------------------
(***************************************************************************)
(* When whoever writes a status has seen the current one                   *)
(***************************************************************************)

LEMMA PurchasedFinite ==
    ASSUME NEW d \in Database, NEW o
    PROVE  /\ IsFiniteSet(PurchasedWith(d, o)) /\ Cardinality(PurchasedWith(d, o)) \in Nat
           /\ o \in Order => IsFiniteSet(BoughtAlready(d, o))
<1>1. /\ PurchasedWith(d, o) \subseteq Order
      /\ o \in Order => BoughtAlready(d, o) \subseteq Order
  BY DEF PurchasedWith, BoughtAlready, OrdersIn, Generated
<1> QED
  BY <1>1, FiniteAssumption, FS_Subset, FS_CardinalityType

LEMMA LimitType ==
    ASSUME NEW d \in Database, NEW o \in Generated(d)
    PROVE  LimitOf(d, o) \in Nat \cup {NULL}
BY StudentOfOrder, PricingAssumption DEF LimitOf

\* There is room for what is open if no order comes to be open or purchased.
LEMMA RoomKept ==
    ASSUME NEW d \in Database, NEW e \in Database, RoomLeft(d), Generated(e) = Generated(d),
           \A x \in Generated(d) :
               /\ e.orders[x].studentid = d.orders[x].studentid
               /\ e.orders[x].productid = d.orders[x].productid
               /\ StatusOf(e, x) \in OpenStatus => StatusOf(d, x) \in OpenStatus
               /\ StatusOf(e, x) \in PurchasedStatus => StatusOf(d, x) \in PurchasedStatus
    PROVE  RoomLeft(e)
<1> SUFFICES ASSUME NEW o \in Generated(e), LimitOf(e, o) # NULL
             PROVE  /\ StatusOf(e, o) \in OpenStatus
                           => Cardinality(PurchasedWith(e, o)) < LimitOf(e, o)
                    /\ StatusOf(e, o) \in PurchasedStatus
                           => Cardinality(PurchasedWith(e, o)) <= LimitOf(e, o)
  BY DEF RoomLeft
<1>1. LimitOf(e, o) = LimitOf(d, o) /\ LimitOf(d, o) \in Nat
  <2>1. LimitOf(e, o) = LimitOf(d, o)
    BY DEF LimitOf
  <2> QED
    BY <2>1, LimitType
<1>2. PurchasedWith(e, o) \subseteq PurchasedWith(d, o)
  BY DEF PurchasedWith, SamePurchase, OrdersIn
<1>3. /\ Cardinality(PurchasedWith(e, o)) <= Cardinality(PurchasedWith(d, o))
      /\ Cardinality(PurchasedWith(e, o)) \in Nat /\ Cardinality(PurchasedWith(d, o)) \in Nat
  BY <1>2, PurchasedFinite, FS_Subset
<1>4. /\ StatusOf(d, o) \in OpenStatus => Cardinality(PurchasedWith(d, o)) < LimitOf(d, o)
      /\ StatusOf(d, o) \in PurchasedStatus => Cardinality(PurchasedWith(d, o)) <= LimitOf(d, o)
  BY <1>1 DEF RoomLeft
<1> QED
  BY <1>1, <1>3, <1>4

\* The last purchase there is room for leaves no order open.
LEMMA RoomTaken ==
    ASSUME NEW d \in Database, RoomLeft(d), NEW o \in Generated(d), NEW e,
           StatusOf(d, o) \in OpenStatus, NEW st \in PurchasedStatus, StatusSet(d, e, o, st)
    PROVE  RoomLeft(e)
<1>1. /\ e \in Database /\ Generated(e) = Generated(d) /\ StatusOf(e, o) = st
      /\ \A x \in Generated(d) : /\ e.orders[x].studentid = d.orders[x].studentid
                                 /\ e.orders[x].productid = d.orders[x].productid
      /\ \A x \in Generated(d) \ {o} :
             \/ StatusOf(e, x) = StatusOf(d, x)
             \/ StatusOf(d, x) \in OpenStatus /\ StatusOf(e, x) = "failed"
      /\ LimitReached(LimitOf(d, o), Cardinality(BoughtAlready(d, o)))
             => \A x \in SamePurchase(d, o) \ {o} : StatusOf(e, x) \notin OpenStatus
  BY DEF StatusSet, SameOrder
<1> SUFFICES ASSUME NEW x \in Generated(d), LimitOf(e, x) # NULL
             PROVE  /\ StatusOf(e, x) \in OpenStatus
                           => Cardinality(PurchasedWith(e, x)) < LimitOf(e, x)
                    /\ StatusOf(e, x) \in PurchasedStatus
                           => Cardinality(PurchasedWith(e, x)) <= LimitOf(e, x)
  BY <1>1 DEF RoomLeft
<1>2. LimitOf(e, x) = LimitOf(d, x) /\ LimitOf(d, x) \in Nat
  <2>1. LimitOf(e, x) = LimitOf(d, x)
    BY <1>1 DEF LimitOf
  <2> QED
    BY <2>1, LimitType
<1>3. SamePurchase(e, x) = SamePurchase(d, x)
  BY <1>1 DEF SamePurchase
<1> DEFINE P == PurchasedWith(d, x)
<1>4. IsFiniteSet(P) /\ Cardinality(P) \in Nat
  BY PurchasedFinite
<1>5. CASE o \notin SamePurchase(d, x)
  <2>1. x # o
    BY <1>5 DEF SamePurchase
  <2>2. PurchasedWith(e, x) \subseteq P
    BY <1>1, <1>3, <1>5 DEF PurchasedWith, OrdersIn, SamePurchase, PurchasedStatus
  <2>3. Cardinality(PurchasedWith(e, x)) <= Cardinality(P)
        /\ Cardinality(PurchasedWith(e, x)) \in Nat
    BY <1>4, <2>2, <1>1, PurchasedFinite, FS_Subset
  <2>4. /\ StatusOf(e, x) \in OpenStatus => StatusOf(d, x) \in OpenStatus
        /\ StatusOf(e, x) \in PurchasedStatus => StatusOf(d, x) \in PurchasedStatus
    BY <1>1, <2>1 DEF OpenStatus, PurchasedStatus
  <2>5. /\ StatusOf(d, x) \in OpenStatus => Cardinality(P) < LimitOf(d, x)
        /\ StatusOf(d, x) \in PurchasedStatus => Cardinality(P) <= LimitOf(d, x)
    BY <1>2 DEF RoomLeft
  <2> HIDE DEF P
  <2> QED
    BY <1>2, <1>4, <2>3, <2>4, <2>5
<1>6. CASE o \in SamePurchase(d, x)
  <2>1. /\ LimitOf(d, x) = LimitOf(d, o) /\ SamePurchase(d, x) = SamePurchase(d, o)
        /\ x \in SamePurchase(d, o)
    BY <1>6 DEF LimitOf, SamePurchase
  <2>2. Cardinality(P) < LimitOf(d, o)
    BY <1>2, <2>1 DEF RoomLeft, PurchasedWith
  <2>3. PurchasedWith(e, x) \subseteq P \cup {o}
    BY <1>1, <1>3 DEF PurchasedWith, OrdersIn, PurchasedStatus
  <2>4. P \cup {o} \subseteq BoughtAlready(d, o)
    BY <2>1 DEF PurchasedWith, BoughtAlready, OrdersIn, BoughtStatus
  <2>5. IsFiniteSet(BoughtAlready(d, o))
    BY GeneratedRow, PurchasedFinite
  <2> HIDE DEF P
  <2>6. /\ IsFiniteSet(P \cup {o})
        /\ Cardinality(P \cup {o}) \in {Cardinality(P), Cardinality(P) + 1}
    BY <1>4, FS_AddElement
  <2>7. /\ Cardinality(PurchasedWith(e, x)) <= Cardinality(P \cup {o})
        /\ Cardinality(PurchasedWith(e, x)) \in Nat
    BY <2>3, <2>6, FS_Subset, FS_CardinalityType
  <2>8. /\ Cardinality(P \cup {o}) <= Cardinality(BoughtAlready(d, o))
        /\ Cardinality(BoughtAlready(d, o)) \in Nat
    BY <2>4, <2>5, FS_Subset, FS_CardinalityType
  <2>9. Cardinality(PurchasedWith(e, x)) <= LimitOf(e, x)
    BY <1>2, <1>4, <2>1, <2>2, <2>6, <2>7
  <2>10. ASSUME StatusOf(e, x) \in OpenStatus
         PROVE  Cardinality(PurchasedWith(e, x)) < LimitOf(e, x)
    <3>1. x # o
      BY <1>1, <2>10 DEF OpenStatus, PurchasedStatus
    <3>2. ~ LimitReached(LimitOf(d, o), Cardinality(BoughtAlready(d, o)))
      BY <1>1, <2>1, <2>10, <3>1
    <3>3. Cardinality(BoughtAlready(d, o)) < LimitOf(d, o)
      <4>1. LimitOf(d, o) \in Nat /\ LimitOf(d, o) # NULL /\ LimitOf(d, o) > 0
        BY <1>2, <1>4, <2>1, <2>2
      <4> QED
        BY <2>8, <3>2, <4>1 DEF LimitReached
    <3>4. LimitOf(e, x) = LimitOf(d, o) /\ LimitOf(d, o) \in Nat
      BY <1>2, <2>1
    <3>5. Cardinality(P \cup {o}) \in Nat
      BY <1>4, <2>6
    <3> QED
      BY <2>7, <2>8, <3>3, <3>4, <3>5
  <2> QED
    BY <2>9, <2>10
<1> QED
  BY <1>5, <1>6

\* What is current of a database whose orders keep their status.
LEMMA ReadiedCurrent ==
    ASSUME NEW d \in Database, Sound(d), Current(d), NEW o, NEW e, Readied(d, e, o)
    PROVE  Current(e)
<1>1. /\ e \in Database /\ Generated(e) = Generated(d) \cup {o}
      /\ e.activity = d.activity /\ e.delivery = d.delivery
      /\ \A x \in Generated(d) :
             /\ e.orders[x].status = d.orders[x].status
             /\ e.orders[x].studentid = d.orders[x].studentid
             /\ e.orders[x].productid = d.orders[x].productid
      /\ o \notin Generated(d) => Inserted(d, o, e.orders[o])
  BY DEF Readied
<1>2. /\ \A r \in d.activity : r.orderid \in Generated(d)
      /\ \A x \in Order : d.delivery[x] # "none" => x \in Generated(d)
  BY DEF Sound, Owned
<1>3. AwardedWhenPaid(e)
  BY <1>1, <1>2 DEF Current, AwardedWhenPaid, PlainRows, StatusOf
<1>4. DeliveredWhenHeld(e)
  <2> SUFFICES ASSUME NEW x \in Generated(e), e.delivery[x] \in {"PENDING", "CONFIRMED"}
               PROVE  StatusOf(e, x) \in BoughtStatus \cup {"declined"}
    BY DEF DeliveredWhenHeld
  <2>1. x \in Order
    BY <1>1, GeneratedRow
  <2>2. x \in Generated(d)
    BY <1>1, <1>2, <2>1
  <2> QED
    BY <1>1, <2>2 DEF Current, DeliveredWhenHeld, StatusOf
<1>5. CASE o \in Generated(d)
  <2>1. Generated(e) = Generated(d)
    BY <1>1, <1>5
  <2>2. RoomLeft(e)
    BY <1>1, <2>1, RoomKept DEF Current, StatusOf
  <2> QED
    BY <1>3, <1>4, <2>2 DEF Current
<1>6. CASE o \notin Generated(d)
  <2>1. /\ e.orders[o].status = "created"
        /\ LimitOf(e, o) # NULL =>
               Cardinality(BoughtBy(d, e.orders[o].studentid, e.orders[o].productid)) < LimitOf(e, o)
    BY <1>1, <1>6 DEF Inserted, LimitOf
  <2>2. OrdersIn(e, PurchasedStatus) = OrdersIn(d, PurchasedStatus)
    BY <1>1, <1>6, <2>1 DEF OrdersIn, StatusOf, PurchasedStatus
  <2>3. PurchasedWith(e, o) = BoughtBy(d, e.orders[o].studentid, e.orders[o].productid)
    BY <1>1, <2>2 DEF PurchasedWith, BoughtBy, SamePurchase, OrdersIn
  <2>4. \A x \in Generated(d) : /\ PurchasedWith(e, x) = PurchasedWith(d, x)
                                /\ LimitOf(e, x) = LimitOf(d, x)
    BY <1>1, <2>2 DEF PurchasedWith, SamePurchase, OrdersIn, LimitOf
  <2>5. RoomLeft(e)
    <3> SUFFICES ASSUME NEW x \in Generated(e), LimitOf(e, x) # NULL
                 PROVE  /\ StatusOf(e, x) \in OpenStatus
                               => Cardinality(PurchasedWith(e, x)) < LimitOf(e, x)
                        /\ StatusOf(e, x) \in PurchasedStatus
                               => Cardinality(PurchasedWith(e, x)) <= LimitOf(e, x)
      BY DEF RoomLeft
    <3>1. CASE x = o
      BY <2>1, <2>3, <3>1 DEF StatusOf, PurchasedStatus
    <3>2. CASE x # o
      <4>1. x \in Generated(d) /\ StatusOf(e, x) = StatusOf(d, x)
        BY <1>1, <3>2 DEF StatusOf
      <4> QED
        BY <2>4, <4>1 DEF Current, RoomLeft
    <3> QED
      BY <3>1, <3>2
  <2> QED
    BY <1>3, <1>4, <2>5 DEF Current
<1> QED
  BY <1>5, <1>6

\* Awards and deliveries of orders that had them, when o has a status they go with.
LEMMA HeldKept ==
    ASSUME NEW d \in Database, Sound(d), AwardedWhenPaid(d), DeliveredWhenHeld(d),
           NEW o \in Generated(d), NEW st, NEW e, StatusSet(d, e, o, st),
           \A r \in e.activity :
               r.mark = "plain" /\ r.source # "delivery"
                   => \/ r \in d.activity /\ r.orderid # o
                      \/ r.orderid = o /\ st \in {"paid", "settled", "declined"},
           \A x \in Generated(d) \ {o} : e.delivery[x] = d.delivery[x],
           e.delivery[o] \in {"PENDING", "CONFIRMED"} => st \in BoughtStatus \cup {"declined"}
    PROVE  AwardedWhenPaid(e) /\ DeliveredWhenHeld(e)
<1>1. /\ Generated(e) = Generated(d) /\ StatusOf(e, o) = st
      /\ \A x \in Generated(d) \ {o} :
             \/ StatusOf(e, x) = StatusOf(d, x)
             \/ StatusOf(d, x) \in OpenStatus
  BY DEF StatusSet
<1>2. ASSUME NEW r \in e.activity, r.mark = "plain", r.source # "delivery"
      PROVE  StatusOf(e, r.orderid) \in {"paid", "settled", "declined"}
  <2>1. CASE r \in d.activity /\ r.orderid # o
    <3>1. StatusOf(d, r.orderid) \in {"paid", "settled", "declined"}
      BY <1>2, <2>1 DEF AwardedWhenPaid, PlainRows
    <3>2. r.orderid \in Generated(d)
      BY <2>1 DEF Sound, Owned
    <3> QED
      BY <1>1, <2>1, <3>1, <3>2 DEF OpenStatus
  <2>2. CASE r.orderid = o /\ st \in {"paid", "settled", "declined"}
    BY <1>1, <2>2
  <2> QED
    BY <1>2, <2>1, <2>2
<1>3. ASSUME NEW x \in Generated(d), e.delivery[x] \in {"PENDING", "CONFIRMED"}
      PROVE  StatusOf(e, x) \in BoughtStatus \cup {"declined"}
  <2>1. CASE x = o
    BY <1>1, <1>3, <2>1
  <2>2. CASE x # o
    <3>1. StatusOf(d, x) \in BoughtStatus \cup {"declined"}
      BY <1>3, <2>2 DEF DeliveredWhenHeld
    <3> QED
      BY <1>1, <2>2, <3>1 DEF OpenStatus, BoughtStatus, PurchasedStatus
  <2> QED
    BY <2>1, <2>2
<1>4. AwardedWhenPaid(e)
  BY <1>2 DEF AwardedWhenPaid, PlainRows
<1>5. DeliveredWhenHeld(e)
  BY <1>1, <1>3 DEF DeliveredWhenHeld
<1> QED
  BY <1>4, <1>5

LEMMA SettleCurrent ==
    ASSUME NEW d \in Database, Sound(d), Current(d), NEW o \in Generated(d), NEW force,
           CanPay(d, o, force), NEW e, Settles(d, e, o, force)
    PROVE  Current(e)
<1> DEFINE st == PaidStatus(d.orders[o].paymentmethod, force)
<1>1. /\ StatusSet(d, e, o, st) /\ st \in {"paid", "settled"}
      /\ \A x \in Order \ {o} : e.delivery[x] = d.delivery[x]
      /\ \A r \in e.activity : r \in d.activity \/ r.orderid = o
  BY DEF Settles, PaidStatus
<1> HIDE DEF st
<1>2. AwardedWhenPaid(e) /\ DeliveredWhenHeld(e)
  <2>1. \A x \in Generated(d) \ {o} : e.delivery[x] = d.delivery[x]
    BY <1>1, GeneratedRow
  <2>2. st \in BoughtStatus
    BY <1>1 DEF BoughtStatus, PurchasedStatus
  <2>3. ASSUME NEW r \in e.activity
        PROVE  \/ r \in d.activity /\ r.orderid # o
               \/ r.orderid = o /\ st \in {"paid", "settled", "declined"}
    BY <1>1
  <2> QED
    BY <1>1, <2>1, <2>2, <2>3, HeldKept DEF Current
<1>3. StatusOf(d, o) \in OpenStatus \cup {"paid"}
  <2>1. StatusOf(d, o) \in Status /\ StatusOf(d, o) \notin FinalStatus
    BY GeneratedRow DEF CanPay, StatusOf, OrderRow
  <2> QED
    BY <2>1 DEF Status
<1>4. RoomLeft(e)
  <2>1. CASE StatusOf(d, o) \in OpenStatus
    BY <1>1, <2>1, RoomTaken DEF Current, PurchasedStatus
  <2>2. CASE StatusOf(d, o) = "paid"
    <3>1. /\ e \in Database /\ Generated(e) = Generated(d) /\ StatusOf(e, o) = st
          /\ \A x \in Generated(d) : /\ e.orders[x].studentid = d.orders[x].studentid
                                     /\ e.orders[x].productid = d.orders[x].productid
          /\ \A x \in Generated(d) \ {o} :
                 \/ StatusOf(e, x) = StatusOf(d, x)
                 \/ StatusOf(d, x) \in OpenStatus /\ StatusOf(e, x) = "failed"
      BY <1>1 DEF StatusSet, SameOrder
    <3>2. \A x \in Generated(d) :
              /\ StatusOf(e, x) \in OpenStatus => StatusOf(d, x) \in OpenStatus
              /\ StatusOf(e, x) \in PurchasedStatus => StatusOf(d, x) \in PurchasedStatus
      BY <1>1, <2>2, <3>1 DEF OpenStatus, PurchasedStatus
    <3> QED
      BY <3>1, <3>2, RoomKept DEF Current
  <2> QED
    BY <1>3, <2>1, <2>2
<1> QED
  BY <1>2, <1>4 DEF Current

\* When o comes to a status that is not purchased, or stays open, there is room.
LEMMA RoomAfter ==
    ASSUME NEW d \in Database, RoomLeft(d), NEW o \in Generated(d),
           NEW st \in Status \ PurchasedStatus, st \in OpenStatus => StatusOf(d, o) \in OpenStatus,
           NEW e, StatusSet(d, e, o, st)
    PROVE  RoomLeft(e)
<1>1. /\ e \in Database /\ Generated(e) = Generated(d) /\ StatusOf(e, o) = st
      /\ \A x \in Generated(d) : /\ e.orders[x].studentid = d.orders[x].studentid
                                 /\ e.orders[x].productid = d.orders[x].productid
      /\ \A x \in Generated(d) \ {o} :
             \/ StatusOf(e, x) = StatusOf(d, x)
             \/ StatusOf(d, x) \in OpenStatus /\ StatusOf(e, x) = "failed"
  BY DEF StatusSet, SameOrder
<1>2. \A x \in Generated(d) :
          /\ StatusOf(e, x) \in OpenStatus => StatusOf(d, x) \in OpenStatus
          /\ StatusOf(e, x) \in PurchasedStatus => StatusOf(d, x) \in PurchasedStatus
  BY <1>1 DEF OpenStatus, PurchasedStatus
<1> QED
  BY <1>1, <1>2, RoomKept

LEMMA RetractCurrent ==
    ASSUME NEW d \in Database, Sound(d), Current(d), NEW o \in Generated(d),
           NEW retain \in BOOLEAN, NEW e, Retracts(d, e, o, retain)
    PROVE  Current(e)
<1> DEFINE st == IF retain THEN "uncommisioned" ELSE "refunded"
<1>1. /\ StatusSet(d, e, o, st) /\ st \in Status \ PurchasedStatus /\ st \notin OpenStatus
      /\ e.delivery[o] \in {"none", "REFUNDED"}
      /\ \A x \in Order \ {o} : e.delivery[x] = d.delivery[x]
      /\ \A r \in e.activity : r.mark = "plain" /\ r.source # "delivery"
                                   => r \in d.activity /\ r.orderid # o
  BY DEF Retracts, Status, FinalStatus, PurchasedStatus, OpenStatus
<1> HIDE DEF st
<1>2. AwardedWhenPaid(e) /\ DeliveredWhenHeld(e)
  <2>1. \A x \in Generated(d) \ {o} : e.delivery[x] = d.delivery[x]
    BY <1>1, GeneratedRow
  <2> QED
    BY <1>1, <2>1, HeldKept DEF Current
<1>3. RoomLeft(e)
  BY <1>1, RoomAfter DEF Current
<1> QED
  BY <1>2, <1>3 DEF Current

LEMMA WriteCurrent ==
    ASSUME FreshViews, NEW d \in Database, Sound(d), Current(d), NEW o \in Generated(d),
           NEW st \in Status, MayWrite(d, o, st), NEW e, e = SetStatus(d, o, st)
    PROVE  Current(e)
<1>1. StatusSet(d, e, o, st) /\ e.activity = d.activity /\ e.delivery = d.delivery
  <2>1. StatusSet(d, e, o, st) /\ e = [d EXCEPT !.orders = e.orders]
    BY SetStatusFields
  <2> QED
    BY <2>1 DEF Database
<1>2. \/ st = "declined"
      \/ st \in {"pending_confirmation", "failed"} /\ StatusOf(d, o) \in OpenStatus
  BY DEF MayWrite
<1>3. st \in Status \ PurchasedStatus /\ (st \in OpenStatus => StatusOf(d, o) \in OpenStatus)
  BY <1>2 DEF PurchasedStatus, OpenStatus
<1>4. AwardedWhenPaid(e) /\ DeliveredWhenHeld(e)
  <2>1. ASSUME NEW r \in e.activity, r.mark = "plain", r.source # "delivery"
        PROVE  \/ r \in d.activity /\ r.orderid # o
               \/ r.orderid = o /\ st \in {"paid", "settled", "declined"}
    <3>1. StatusOf(d, r.orderid) \in {"paid", "settled", "declined"}
      BY <1>1, <2>1 DEF Current, AwardedWhenPaid, PlainRows
    <3> QED
      BY <1>1, <1>2, <2>1, <3>1 DEF OpenStatus
  <2>2. e.delivery[o] \in {"PENDING", "CONFIRMED"} => st \in BoughtStatus \cup {"declined"}
    <3>1. d.delivery[o] \in {"PENDING", "CONFIRMED"}
              => StatusOf(d, o) \in BoughtStatus \cup {"declined"}
      BY DEF Current, DeliveredWhenHeld
    <3> QED
      BY <1>1, <1>2, <3>1 DEF OpenStatus, BoughtStatus, PurchasedStatus
  <2>3. \A x \in Generated(d) \ {o} : e.delivery[x] = d.delivery[x]
    BY <1>1
  <2> QED
    BY <1>1, <2>1, <2>2, <2>3, HeldKept DEF Current
<1>5. RoomLeft(e)
  BY <1>1, <1>3, RoomAfter DEF Current
<1> QED
  BY <1>4, <1>5 DEF Current

LEMMA DeliveryCurrent ==
    ASSUME NEW d \in Database, Current(d), NEW o \in Generated(d), NEW amount, NEW mark,
           NEW st, DeliveryMove(d, o, amount, mark, st),
           NEW e, e = PostDelivery(d, o, amount, mark, st)
    PROVE  Current(e)
<1>1. /\ e.orders = d.orders /\ e.delivery = [d.delivery EXCEPT ![o] = st]
      /\ \A r \in e.activity : r \in d.activity \/ r.source = "delivery"
  BY DEF PostDelivery, Database
<1>2. /\ Generated(e) = Generated(d) /\ \A x : StatusOf(e, x) = StatusOf(d, x)
      /\ \A x : PurchasedWith(e, x) = PurchasedWith(d, x) /\ LimitOf(e, x) = LimitOf(d, x)
  BY <1>1 DEF Generated, StatusOf, PurchasedWith, SamePurchase, OrdersIn, LimitOf
<1>3. RoomLeft(e)
  BY <1>2 DEF Current, RoomLeft
<1>4. AwardedWhenPaid(e)
  BY <1>1, <1>2 DEF Current, AwardedWhenPaid, PlainRows
<1>5. DeliveredWhenHeld(e)
  <2>1. d.delivery \in [Order -> DeliveryStatus] /\ o \in Order
    BY GeneratedRow DEF Database
  <2>2. d.delivery[o] \in {"PENDING", "CONFIRMED"}
    BY DEF DeliveryMove
  <2>3. ASSUME NEW x \in Generated(d), e.delivery[x] \in {"PENDING", "CONFIRMED"}
        PROVE  d.delivery[x] \in {"PENDING", "CONFIRMED"}
    BY <1>1, <2>1, <2>2, <2>3, GeneratedRow
  <2> QED
    BY <1>2, <2>3 DEF Current, DeliveredWhenHeld
<1> QED
  BY <1>3, <1>4, <1>5 DEF Current

LEMMA CurrentTransact ==
    ASSUME FreshViews, NEW d \in Database, today \in Int, Sound(d), Books(d), Current(d),
           NEW e, Transacts(d, e)
    PROVE  Current(e)
<1>1. CASE Edits(d, e)
  BY <1>1, EditReadies, ReadiedCurrent DEF Edits
<1>2. CASE Pays(d, e)
  <2>1. PICK o \in Order, force \in BOOLEAN : \E d1, d2 : InSteps(d, e, o, force, d1, d2)
    BY <1>2, PaysInSteps
  <2>2. PICK d1, d2 : InSteps(d, e, o, force, d1, d2)
    BY <2>1
  <2>3. d1 \in Database /\ Sound(d1) /\ Current(d1) /\ o \in Generated(d1)
    BY <2>2, ReadiedCurrent DEF InSteps, Readied
  <2>4. d2 \in Database /\ Sound(d2) /\ Current(d2) /\ o \in Generated(d2)
    BY <2>2, <2>3, SettleCurrent DEF InSteps
  <2>5. CASE e = d2
    BY <2>4, <2>5
  <2>6. CASE Retracts(d2, e, o, TRUE)
    BY <2>4, <2>6, RetractCurrent
  <2> QED
    BY <2>2, <2>5, <2>6 DEF InSteps
<1>3. CASE Writes(d, e)
  BY <1>3, WriteCurrent DEF Writes
<1>4. CASE Revokes(d, e)
  BY <1>4, RevokeRetracts, RetractCurrent DEF Revokes
<1>5. CASE Delivers(d, e)
  BY <1>5, DeliveryCurrent DEF Delivers
<1> QED
  BY <1>1, <1>2, <1>3, <1>4, <1>5 DEF Transacts

\* What is current stays so while whoever writes a status has seen the current one.
THEOREM StaysCurrent == FreshViews => (Spec => []Current(db))
<1> SUFFICES ASSUME FreshViews PROVE Spec => []Current(db)
  OBVIOUS
<1>1. Init => Current(db)
  BY DEF Init, Current, AwardedWhenPaid, PlainRows, DeliveredWhenHeld, RoomLeft, Generated
<1>2. Consistent /\ Books(db) /\ Current(db) /\ [Next]_vars => Current(db)'
  <2> SUFFICES ASSUME Consistent, Books(db), Current(db), [Next]_vars PROVE Current(db')
    OBVIOUS
  <2>1. TypeOK /\ Sound(db) /\ db \in Database /\ today \in Int
    BY ConsistentIsSound, BoundsAssumption DEF TypeOK
  <2>2. CASE Next
    BY <2>1, <2>2, NextTransacts, CurrentTransact
  <2>3. CASE UNCHANGED vars
    BY <2>3 DEF vars
  <2> QED
    BY <2>2, <2>3
<1> QED
  BY <1>1, <1>2, StaysConsistent, BooksKept, PTL DEF Spec

\* The books explain every balance, the unlock details what was unlocked, and awards in
\* force are those of orders that were paid, when nobody acts on an outdated page.
THEOREM BooksAreExplained == FreshViews => (Spec => []BooksExplain)
<1> SUFFICES ASSUME FreshViews PROVE Spec => []BooksExplain
  OBVIOUS
<1>1. Consistent /\ Current(db) => AwardsOfPaid
  <2> SUFFICES ASSUME Consistent, Current(db),
                      NEW r \in db.activity, r.mark = "plain", r.source # "delivery"
               PROVE  r.orderid \in SearchOrders(SearchParams(
                          [AnyOrder EXCEPT !.statuslist = {"paid", "settled", "declined"}]))
    BY DEF AwardsOfPaid
  <2> DEFINE body == [AnyOrder EXCEPT !.statuslist = {"paid", "settled", "declined"}]
             params == SearchParams(body)
  <2>1. r.orderid \in Generated(db)
    BY ConsistentIsSound DEF Sound, Owned
  <2>2. StatusOf(db, r.orderid) \in {"paid", "settled", "declined"}
    BY DEF Current, AwardedWhenPaid, PlainRows
  <2>3. /\ body.from = 0 /\ body.to = 0 /\ body.paymentmethod = ""
        /\ body.statuslist = {"paid", "settled", "declined"}
    BY DEF AnyOrder
  <2> HIDE DEF body
  <2>4. /\ params.from = NULL /\ params.to = NULL /\ params.paymentmethod = NULL
        /\ params.statuslist = {"paid", "settled", "declined"}
    BY <2>3 DEF SearchParams
  <2> HIDE DEF params
  <2>5. r.orderid \in SearchOrders(params)
    BY <2>1, <2>2, <2>4 DEF SearchOrders, StatusOf
  <2> QED
    BY <2>5 DEF params, body
<1>2. LedgerExplainsBalances /\ AwardsOfPaid /\ UnlocksAddUp => BooksExplain
  BY DEF BooksExplain
<1> QED
  BY <1>1, <1>2, StaysConsistent, StaysCurrent, LedgerExplains, UnlockDetailsAddUp, PTL

\* The partners are paid what the status of a delivery says, and are shown as due or done
\* the deliveries of orders that are held or were declined, when nobody acts on an outdated
\* page.
THEOREM DeliveriesStaySound == FreshViews => (Spec => []DeliveriesSound)
<1> SUFFICES ASSUME FreshViews PROVE Spec => []DeliveriesSound
  OBVIOUS
<1>1. Current(db) => DeliveriesOfBuyers
  BY DEF Current, DeliveredWhenHeld, DeliveriesOfBuyers, ListDelivery
<1>2. DeliveryPaidByStatus /\ DeliveriesOfBuyers => DeliveriesSound
  BY DEF DeliveriesSound
<1> QED
  BY <1>1, <1>2, StaysCurrent, PartnersPaidByStatus, PTL

\* An order that is held alone brings a day more than the first.
LEMMA HeldIsEntitled ==
    ASSUME NEW d \in Database, Covers(d), NEW s \in Student, NEW t \in EntitlementType,
           NEW o \in HeldWith(d, s, t)
    PROVE  d.entitlement[s][t] > 1
<1> DEFINE f == [x \in HeldWith(d, s, t) |-> DaysOf(d, x, t)]
           S == HeldWith(d, s, t)
<1>1. /\ IsFiniteSet(S) /\ \A x \in S : f[x] \in Nat
      /\ DaysHeld(d, s, t) = SumFunctionOnSet(f, S) /\ f[o] > 0 /\ o \in S
  <2>1. \A x \in S : f[x] = DaysOf(d, x, t)
    OBVIOUS
  <2>2. DaysOf(d, o, t) > 0
    BY DEF HeldWith
  <2>3. f[o] > 0
    BY <2>1, <2>2
  <2> HIDE DEF f
  <2> QED
    BY <2>1, <2>3, DaysHeldSum
<1>2. d.entitlement[s][t] >= 1 + DaysHeld(d, s, t) /\ d.entitlement[s][t] \in Int
  BY DEF Covers, Database
<1> HIDE DEF f, S
<1>3. IsFiniteSet(S \ {o}) /\ \A x \in S : f[x] \in Int
  BY <1>1, FS_Subset
<1>4. SumFunctionOnSet(f, S) = f[o] + SumFunctionOnSet(f, S \ {o})
  BY <1>1, <1>3, SumRemove
<1>5. SumFunctionOnSet(f, S \ {o}) \in Nat
  BY <1>1, <1>3, SumNat
<1> QED
  BY <1>1, <1>2, <1>4, <1>5

\* What the student's page calls purchased gives it every entitlement of the product, on
\* the day of the purchase, whatever else was refunded and on pages however stale.
THEOREM BuyersStayEntitled == Spec => []BuyersEntitled
<1>1. Consistent /\ EntitlementCoversOrders => BuyersEntitled
  <2> SUFFICES ASSUME Consistent, EntitlementCoversOrders,
                      NEW s \in Student, NEW t \in EntitlementType,
                      NEW bought \in GetPurchasedProducts(s),
                      today = 1, Pricing[bought.productid].validdays[t] > 0
               PROVE  db.entitlement[s][t] > today
    BY DEF BuyersEntitled
  <2>1. db \in Database
    BY DEF Consistent, TypeOK
  <2>2. Covers(db)
    BY DEF Covers, EntitlementCoversOrders, HeldWith, DaysHeld, DaysOf, BoughtStatus
  <2>3. PICK o \in HeldBy(s) : bought.productid = db.orders[o].productid
    BY DEF GetPurchasedProducts, GetOrderProductsByOrderId
  <2>4. o \in HeldWith(db, s, t)
    BY <2>3 DEF HeldWith, HeldBy, DaysOf
  <2> QED
    BY <2>1, <2>2, <2>4, HeldIsEntitled
<1> QED
  BY <1>1, StaysConsistent, OrdersHeldAreCovered, PTL

\* No student exceeds a purchase limit, what its shop no longer offers is open in no order
\* of it, and what it purchased it is entitled to, when nobody acts on an outdated page.
THEOREM LimitIsKept == FreshViews => (Spec => []LimitKept)
<1> SUFFICES ASSUME FreshViews PROVE Spec => []LimitKept
  OBVIOUS
<1>1. Current(db) => WithinPurchaseLimit
  BY DEF Current, RoomLeft, WithinPurchaseLimit, PurchasedWith, LimitOf, OrdersIn
<1>2. Consistent /\ Current(db) => NothingOpenOffShelf
  <2> SUFFICES ASSUME Consistent, Current(db), NEW s \in Student, NEW pid \in Product,
                      pid \notin GetPurchasableProducts(s),
                      {o \in OrdersIn(db, {"uncommisioned"}) :
                          db.orders[o].studentid = s /\ db.orders[o].productid = pid} = {},
                      NEW o \in OrdersIn(db, OpenStatus),
                      db.orders[o].studentid = s, db.orders[o].productid = pid
               PROVE  FALSE
    BY DEF NothingOpenOffShelf
  <2> DEFINE held == {x \in HeldBy(s) : GetOrderProductsByOrderId(x).productid = pid}
             limit == Pricing[pid].purchaselimit
  <2>1. limit # NULL /\ ~ (limit > Cardinality(held))
    BY DEF GetPurchasableProducts
  <2>2. held = PurchasedWith(db, o)
    <3>1. \A x : x \in held <=> /\ x \in OrdersIn(db, BoughtStatus)
                                /\ db.orders[x].studentid = s /\ db.orders[x].productid = pid
      BY DEF HeldBy, GetOrderProductsByOrderId
    <3>2. \A x : x \in PurchasedWith(db, o) <=>
                     /\ x \in OrdersIn(db, PurchasedStatus)
                     /\ db.orders[x].studentid = s /\ db.orders[x].productid = pid
      BY DEF PurchasedWith, SamePurchase, OrdersIn
    <3>3. \A x : /\ db.orders[x].studentid = s /\ db.orders[x].productid = pid
                 => (x \in OrdersIn(db, BoughtStatus) <=> x \in OrdersIn(db, PurchasedStatus))
      BY DEF OrdersIn, BoughtStatus
    <3> HIDE DEF held
    <3> QED
      BY <3>1, <3>2, <3>3
  <2>3. db \in Database /\ o \in Generated(db) /\ StatusOf(db, o) \in OpenStatus
    BY DEF Consistent, TypeOK, OrdersIn
  <2>4. LimitOf(db, o) = limit /\ limit \in Nat
    BY <2>1, <2>3, LimitType DEF LimitOf
  <2>5. Cardinality(PurchasedWith(db, o)) < LimitOf(db, o)
    BY <2>1, <2>3, <2>4 DEF Current, RoomLeft
  <2>6. Cardinality(PurchasedWith(db, o)) \in Nat
    BY <2>3, PurchasedFinite
  <2>7. ~ (limit > Cardinality(PurchasedWith(db, o)))
    <3> HIDE DEF held
    <3> QED
      BY <2>1, <2>2, Zenon
  <2> QED
    BY <2>4, <2>5, <2>6, <2>7
<1>3. WithinPurchaseLimit /\ NothingOpenOffShelf /\ BuyersEntitled => LimitKept
  BY DEF LimitKept
<1> QED
  BY <1>1, <1>2, <1>3, StaysConsistent, StaysCurrent, BuyersStayEntitled, PTL

-----------------------------------------------------------------------------
(***************************************************************************)
(* Stock and coupons                                                       *)
(***************************************************************************)

\* The orders that took a unit and hold, and those that may have kept theirs; the refunded
\* ones that took none and gave one back, and those that may have.
Holding(d, a, pid) == FromStock(d, a, pid, {"settled", "uncommisioned"}) \ d.auditlog
Keeping(d, a, pid) == FromStock(d, a, pid, {"settled", "uncommisioned", "declined"}) \ d.auditlog
Giving(d, a, pid) == FromStock(d, a, pid, {"refunded"}) \cap d.auditlog
Given(d, a, pid) == FromStock(d, a, pid, {"refunded", "declined"}) \cap d.auditlog

\* A unit that is missing went to an order that holds it, or was declined while it did; one
\* too many came from an order that was refunded and had none, declined since perhaps.
UnitsKept(d, a, pid) ==
    /\ d.inventory[a][pid] >= 0
    /\ \E S \in SUBSET Keeping(d, a, pid), M \in SUBSET Given(d, a, pid) :
           /\ Holding(d, a, pid) \subseteq S /\ Giving(d, a, pid) \subseteq M
           /\ Cardinality(S) - Cardinality(M) = OpeningStock[a][pid] - d.inventory[a][pid]
StockKept(d) == \A a \in Agent, pid \in Product : UnitsKept(d, a, pid)

\* The orders of the log were settled for good.
LogSettled(d) ==
    \A o \in d.auditlog : o \in Generated(d) /\ StatusOf(d, o) \in FinalStatus

CouponsKept(d) ==
    \A c \in Coupon : CouponTerms[c].maxcount # NULL =>
        Cardinality(UsesOf(d, c)) <= CouponTerms[c].maxcount

LEMMA StockFinite ==
    ASSUME NEW d \in Database, NEW a, NEW pid, NEW c
    PROVE  /\ IsFiniteSet(Keeping(d, a, pid)) /\ IsFiniteSet(Given(d, a, pid))
           /\ IsFiniteSet(UsesOf(d, c))
<1>1. /\ Keeping(d, a, pid) \subseteq Order /\ Given(d, a, pid) \subseteq Order
      /\ UsesOf(d, c) \subseteq Order
  BY DEF Keeping, Given, FromStock, UsesOf, OrdersIn, Generated
<1> QED
  BY <1>1, FiniteAssumption, FS_Subset

\* The sets that account for the units, in d and then in e.
Narrower(d, e, a, pid) ==
    Holding(e, a, pid) \subseteq Holding(d, a, pid) /\ Keeping(d, a, pid) \subseteq Keeping(e, a, pid)
GivesNoMore(d, e, a, pid) ==
    Giving(e, a, pid) \subseteq Giving(d, a, pid) /\ Given(d, a, pid) \subseteq Given(e, a, pid)

\* The units are kept when none moves, and when one goes to an order that comes to hold it,
\* comes back from one that held it, or comes back from one that had none.
LEMMA UnitMoves ==
    ASSUME NEW d \in Database, NEW e \in Database, NEW a \in Agent, NEW pid \in Product,
           UnitsKept(d, a, pid), NEW o,
           \/ /\ e.inventory[a][pid] = d.inventory[a][pid]
              /\ Narrower(d, e, a, pid) /\ GivesNoMore(d, e, a, pid)
           \/ /\ e.inventory[a][pid] = d.inventory[a][pid] - 1 /\ d.inventory[a][pid] >= 1
              /\ o \notin Keeping(d, a, pid)
              /\ Holding(e, a, pid) \subseteq Holding(d, a, pid) \cup {o}
              /\ Keeping(d, a, pid) \cup {o} \subseteq Keeping(e, a, pid)
              /\ GivesNoMore(d, e, a, pid)
           \/ /\ e.inventory[a][pid] = d.inventory[a][pid] + 1
              /\ o \in Holding(d, a, pid)
              /\ Holding(e, a, pid) \subseteq Holding(d, a, pid) \ {o}
              /\ Keeping(d, a, pid) \ {o} \subseteq Keeping(e, a, pid)
              /\ GivesNoMore(d, e, a, pid)
           \/ /\ e.inventory[a][pid] = d.inventory[a][pid] + 1
              /\ Narrower(d, e, a, pid) /\ o \notin Given(d, a, pid)
              /\ Giving(e, a, pid) \subseteq Giving(d, a, pid) \cup {o}
              /\ Given(d, a, pid) \cup {o} \subseteq Given(e, a, pid)
    PROVE  UnitsKept(e, a, pid)
<1> DEFINE H(x) == Holding(x, a, pid)
           K(x) == Keeping(x, a, pid)
           G(x) == Giving(x, a, pid)
           L(x) == Given(x, a, pid)
           inv(x) == x.inventory[a][pid]
           opening == OpeningStock[a][pid]
<1>1. inv(d) \in Int /\ opening \in Int /\ inv(d) >= 0
  BY OpeningAssumption DEF Database, UnitsKept
<1>2. PICK S \in SUBSET K(d), M \in SUBSET L(d) :
          H(d) \subseteq S /\ G(d) \subseteq M /\ Cardinality(S) - Cardinality(M) = opening - inv(d)
  BY DEF UnitsKept
<1>3. /\ IsFiniteSet(S) /\ IsFiniteSet(M)
      /\ Cardinality(S) \in Int /\ Cardinality(M) \in Int
  BY <1>2, StockFinite, FS_Subset, FS_CardinalityType
<1>4. SUFFICES /\ inv(e) >= 0
               /\ \E T \in SUBSET K(e), N \in SUBSET L(e) :
                      /\ H(e) \subseteq T /\ G(e) \subseteq N
                      /\ Cardinality(T) - Cardinality(N) = opening - inv(e)
  BY DEF UnitsKept
<1>5. CASE /\ inv(e) = inv(d)
           /\ H(e) \subseteq H(d) /\ K(d) \subseteq K(e) /\ G(e) \subseteq G(d) /\ L(d) \subseteq L(e)
  <2> HIDE DEF H, K, G, L, inv, opening
  <2>1. S \in SUBSET K(e) /\ H(e) \subseteq S /\ M \in SUBSET L(e) /\ G(e) \subseteq M
    BY <1>2, <1>5
  <2> QED
    BY <1>1, <1>2, <1>5, <2>1
<1>6. CASE /\ inv(e) = inv(d) - 1 /\ inv(d) >= 1 /\ o \notin K(d)
           /\ H(e) \subseteq H(d) \cup {o} /\ K(d) \cup {o} \subseteq K(e)
           /\ G(e) \subseteq G(d) /\ L(d) \subseteq L(e)
  <2> HIDE DEF H, K, G, L, inv, opening
  <2>1. /\ S \cup {o} \in SUBSET K(e) /\ H(e) \subseteq S \cup {o} /\ o \notin S
        /\ M \in SUBSET L(e) /\ G(e) \subseteq M
    BY <1>2, <1>6
  <2>2. Cardinality(S \cup {o}) = Cardinality(S) + 1
    BY <1>3, <2>1, FS_AddElement
  <2>3. Cardinality(S \cup {o}) - Cardinality(M) = opening - inv(e)
    BY <1>1, <1>2, <1>3, <1>6, <2>2
  <2> QED
    BY <1>1, <1>6, <2>1, <2>3
<1>7. CASE /\ inv(e) = inv(d) + 1 /\ o \in H(d)
           /\ H(e) \subseteq H(d) \ {o} /\ K(d) \ {o} \subseteq K(e)
           /\ G(e) \subseteq G(d) /\ L(d) \subseteq L(e)
  <2> HIDE DEF H, K, G, L, inv, opening
  <2>1. /\ S \ {o} \in SUBSET K(e) /\ H(e) \subseteq S \ {o} /\ o \in S
        /\ M \in SUBSET L(e) /\ G(e) \subseteq M
    BY <1>2, <1>7
  <2>2. Cardinality(S \ {o}) = Cardinality(S) - 1
    BY <1>3, <2>1, FS_RemoveElement
  <2>3. Cardinality(S \ {o}) - Cardinality(M) = opening - inv(e)
    BY <1>1, <1>2, <1>3, <1>7, <2>2
  <2> QED
    BY <1>1, <1>7, <2>1, <2>3
<1>8. CASE /\ inv(e) = inv(d) + 1 /\ o \notin L(d)
           /\ H(e) \subseteq H(d) /\ K(d) \subseteq K(e)
           /\ G(e) \subseteq G(d) \cup {o} /\ L(d) \cup {o} \subseteq L(e)
  <2> HIDE DEF H, K, G, L, inv, opening
  <2>1. /\ S \in SUBSET K(e) /\ H(e) \subseteq S
        /\ M \cup {o} \in SUBSET L(e) /\ G(e) \subseteq M \cup {o} /\ o \notin M
    BY <1>2, <1>8
  <2>2. Cardinality(M \cup {o}) = Cardinality(M) + 1
    BY <1>3, <2>1, FS_AddElement
  <2>3. Cardinality(S) - Cardinality(M \cup {o}) = opening - inv(e)
    BY <1>1, <1>2, <1>3, <1>8, <2>2
  <2> QED
    BY <1>1, <1>8, <2>1, <2>3
<1> QED
  BY <1>5, <1>6, <1>7, <1>8 DEF Narrower, GivesNoMore

\* A method that changes neither takes an order to the stock nor off it, or is that of an
\* order that is not final.
LEMMA ReadiedStock ==
    ASSUME NEW d \in Database, StockKept(d), NEW o, NEW e, Readied(d, e, o),
           \/ StatusOf(e, o) \notin FinalStatus
           \/ /\ o \in Generated(d)
              /\ d.orders[o].paymentmethod \in InventoryMethod
                     <=> e.orders[o].paymentmethod \in InventoryMethod
    PROVE  StockKept(e)
<1> SUFFICES ASSUME NEW a \in Agent, NEW pid \in Product PROVE UnitsKept(e, a, pid)
  BY DEF StockKept
<1>1. /\ e \in Database /\ Generated(e) = Generated(d) \cup {o} /\ e.inventory = d.inventory
      /\ e.auditlog = d.auditlog
      /\ \A x \in Generated(d) :
             /\ e.orders[x].status = d.orders[x].status
             /\ e.orders[x].studentid = d.orders[x].studentid
             /\ e.orders[x].productid = d.orders[x].productid
      /\ \A x \in Generated(d) \ {o} : e.orders[x] = d.orders[x]
      /\ o \notin Generated(d) => e.orders[o].status = "created"
  BY DEF Readied, Inserted
<1>2. ASSUME NEW T \in SUBSET FinalStatus
      PROVE  FromStock(e, a, pid, T) = FromStock(d, a, pid, T)
  <2>1. "created" \notin T
    BY DEF FinalStatus
  <2>2. OrdersIn(e, T) = OrdersIn(d, T)
    BY <1>1, <2>1 DEF OrdersIn, StatusOf
  <2>3. \A x \in OrdersIn(d, T) :
            /\ e.orders[x].studentid = d.orders[x].studentid
            /\ e.orders[x].productid = d.orders[x].productid
            /\ d.orders[x].paymentmethod \in InventoryMethod
                   <=> e.orders[x].paymentmethod \in InventoryMethod
    BY <1>1 DEF OrdersIn, StatusOf
  <2> QED
    BY <2>2, <2>3 DEF FromStock
<1>3. /\ Holding(e, a, pid) = Holding(d, a, pid) /\ Keeping(e, a, pid) = Keeping(d, a, pid)
      /\ Giving(e, a, pid) = Giving(d, a, pid) /\ Given(e, a, pid) = Given(d, a, pid)
  BY <1>1, <1>2 DEF Holding, Keeping, Giving, Given, FinalStatus
<1> QED
  BY <1>1, <1>3, UnitMoves DEF StockKept, Narrower, GivesNoMore

\* The orders from stock, after o has another status.
LEMMA StockAfter ==
    ASSUME NEW d \in Database, NEW o \in Generated(d), NEW st, NEW e, StatusSet(d, e, o, st),
           NEW a \in Agent, NEW pid \in Product, NEW T \in SUBSET (FinalStatus \ {"failed"})
    PROVE  /\ FromStock(e, a, pid, T) \subseteq FromStock(d, a, pid, T) \cup {o}
           /\ FromStock(d, a, pid, T) \subseteq FromStock(e, a, pid, T) \cup {o}
           /\ o \in FromStock(e, a, pid, T) <=>
                  /\ st \in T /\ d.orders[o].paymentmethod \in InventoryMethod
                  /\ UnitOf(d, o, a, pid)
           /\ o \in FromStock(d, a, pid, T) <=>
                  /\ StatusOf(d, o) \in T /\ d.orders[o].paymentmethod \in InventoryMethod
                  /\ UnitOf(d, o, a, pid)
<1>1. /\ Generated(e) = Generated(d) /\ StatusOf(e, o) = st
      /\ \A x \in Generated(d) : SameOrder(e.orders[x], d.orders[x])
      /\ \A x \in Generated(d) \ {o} : StatusOf(e, x) \in T <=> StatusOf(d, x) \in T
  BY DEF StatusSet, OpenStatus, FinalStatus
<1> QED
  BY <1>1 DEF FromStock, OrdersIn, UnitOf, SameOrder

\* What o counts for after it has another status, and was logged perhaps; the other orders
\* count for what they did.
Sold(d, o, a, pid) == d.orders[o].paymentmethod \in InventoryMethod /\ UnitOf(d, o, a, pid)

LEMMA UnitsAfter ==
    ASSUME NEW d \in Database, NEW o \in Generated(d), NEW st, NEW e, StatusSet(d, e, o, st),
           e.auditlog \in {d.auditlog, d.auditlog \cup {o}},
           NEW a \in Agent, NEW pid \in Product
    PROVE  /\ \A x : x # o => /\ x \in Holding(e, a, pid) <=> x \in Holding(d, a, pid)
                              /\ x \in Keeping(e, a, pid) <=> x \in Keeping(d, a, pid)
                              /\ x \in Giving(e, a, pid) <=> x \in Giving(d, a, pid)
                              /\ x \in Given(e, a, pid) <=> x \in Given(d, a, pid)
           /\ o \in Holding(d, a, pid) <=> /\ Sold(d, o, a, pid) /\ o \notin d.auditlog
                                           /\ StatusOf(d, o) \in {"settled", "uncommisioned"}
           /\ o \in Keeping(d, a, pid) <=>
                  /\ Sold(d, o, a, pid) /\ o \notin d.auditlog
                  /\ StatusOf(d, o) \in {"settled", "uncommisioned", "declined"}
           /\ o \in Giving(d, a, pid) <=> /\ Sold(d, o, a, pid) /\ o \in d.auditlog
                                          /\ StatusOf(d, o) = "refunded"
           /\ o \in Given(d, a, pid) <=> /\ Sold(d, o, a, pid) /\ o \in d.auditlog
                                         /\ StatusOf(d, o) \in {"refunded", "declined"}
           /\ o \in Holding(e, a, pid) <=> /\ Sold(d, o, a, pid) /\ o \notin e.auditlog
                                           /\ st \in {"settled", "uncommisioned"}
           /\ o \in Keeping(e, a, pid) <=>
                  /\ Sold(d, o, a, pid) /\ o \notin e.auditlog
                  /\ st \in {"settled", "uncommisioned", "declined"}
           /\ o \in Giving(e, a, pid) <=> /\ Sold(d, o, a, pid) /\ o \in e.auditlog
                                          /\ st = "refunded"
           /\ o \in Given(e, a, pid) <=> /\ Sold(d, o, a, pid) /\ o \in e.auditlog
                                         /\ st \in {"refunded", "declined"}
<1>1. ASSUME NEW T \in SUBSET (FinalStatus \ {"failed"})
      PROVE  /\ \A x : x # o => (x \in FromStock(e, a, pid, T) <=> x \in FromStock(d, a, pid, T))
             /\ o \in FromStock(e, a, pid, T) <=> st \in T /\ Sold(d, o, a, pid)
             /\ o \in FromStock(d, a, pid, T) <=> StatusOf(d, o) \in T /\ Sold(d, o, a, pid)
  <2>1. /\ FromStock(e, a, pid, T) \subseteq FromStock(d, a, pid, T) \cup {o}
        /\ FromStock(d, a, pid, T) \subseteq FromStock(e, a, pid, T) \cup {o}
    BY StockAfter
  <2>2. /\ o \in FromStock(e, a, pid, T) <=> st \in T /\ Sold(d, o, a, pid)
        /\ o \in FromStock(d, a, pid, T) <=> StatusOf(d, o) \in T /\ Sold(d, o, a, pid)
    BY StockAfter DEF Sold
  <2> QED
    BY <2>1, <2>2
<1>2. \A x : x # o => (x \in e.auditlog <=> x \in d.auditlog)
  OBVIOUS
<1>3. /\ {"settled", "uncommisioned"} \in SUBSET (FinalStatus \ {"failed"})
      /\ {"settled", "uncommisioned", "declined"} \in SUBSET (FinalStatus \ {"failed"})
      /\ {"refunded"} \in SUBSET (FinalStatus \ {"failed"})
      /\ {"refunded", "declined"} \in SUBSET (FinalStatus \ {"failed"})
  BY DEF FinalStatus
<1>4. /\ \A x : x # o => (x \in Holding(e, a, pid) <=> x \in Holding(d, a, pid))
      /\ o \in Holding(d, a, pid) <=> /\ Sold(d, o, a, pid) /\ o \notin d.auditlog
                                      /\ StatusOf(d, o) \in {"settled", "uncommisioned"}
      /\ o \in Holding(e, a, pid) <=> /\ Sold(d, o, a, pid) /\ o \notin e.auditlog
                                      /\ st \in {"settled", "uncommisioned"}
  BY <1>1, <1>2, <1>3 DEF Holding
<1>5. /\ \A x : x # o => (x \in Keeping(e, a, pid) <=> x \in Keeping(d, a, pid))
      /\ o \in Keeping(d, a, pid) <=> /\ Sold(d, o, a, pid) /\ o \notin d.auditlog
                                      /\ StatusOf(d, o) \in {"settled", "uncommisioned", "declined"}
      /\ o \in Keeping(e, a, pid) <=> /\ Sold(d, o, a, pid) /\ o \notin e.auditlog
                                      /\ st \in {"settled", "uncommisioned", "declined"}
  BY <1>1, <1>2, <1>3 DEF Keeping
<1>6. /\ \A x : x # o => (x \in Giving(e, a, pid) <=> x \in Giving(d, a, pid))
      /\ o \in Giving(d, a, pid) <=> /\ Sold(d, o, a, pid) /\ o \in d.auditlog
                                     /\ StatusOf(d, o) = "refunded"
      /\ o \in Giving(e, a, pid) <=> /\ Sold(d, o, a, pid) /\ o \in e.auditlog
                                     /\ st = "refunded"
  BY <1>1, <1>2, <1>3 DEF Giving
<1>7. /\ \A x : x # o => (x \in Given(e, a, pid) <=> x \in Given(d, a, pid))
      /\ o \in Given(d, a, pid) <=> /\ Sold(d, o, a, pid) /\ o \in d.auditlog
                                    /\ StatusOf(d, o) \in {"refunded", "declined"}
      /\ o \in Given(e, a, pid) <=> /\ Sold(d, o, a, pid) /\ o \in e.auditlog
                                    /\ st \in {"refunded", "declined"}
  BY <1>1, <1>2, <1>3 DEF Given
<1> QED
  BY <1>4, <1>5, <1>6, <1>7

LEMMA SettleStock ==
    ASSUME NEW d \in Database, StockKept(d), LogSettled(d), NEW o \in Generated(d), NEW force,
           CanPay(d, o, force), NEW e, Settles(d, e, o, force)
    PROVE  StockKept(e)
<1> SUFFICES ASSUME NEW a \in Agent, NEW pid \in Product PROVE UnitsKept(e, a, pid)
  BY DEF StockKept
<1> DEFINE st == PaidStatus(d.orders[o].paymentmethod, force)
           sold == Sold(d, o, a, pid)
<1>1. /\ StatusSet(d, e, o, st) /\ (sold => st = "settled") /\ e \in Database
      /\ StockMoved(d, e, o, IF Distributes(d, o, force) THEN Taken(d, o) ELSE 0)
      /\ e.auditlog = d.auditlog \cup Gratis(d, o)
  BY DEF Settles, StatusSet, PaidStatus, OnlineMethod, InventoryMethod, Sold
<1> HIDE DEF st
<1>2. StatusOf(d, o) \notin FinalStatus /\ o \notin d.auditlog
  BY DEF CanPay, StatusOf, LogSettled
<1>3. /\ e.auditlog \in {d.auditlog, d.auditlog \cup {o}}
      /\ sold => (o \in e.auditlog <=> d.orders[o].price = 0)
  BY <1>1, <1>2 DEF Gratis, Sold
<1> HIDE DEF sold
<1>4. /\ \A x : x # o => /\ x \in Holding(e, a, pid) <=> x \in Holding(d, a, pid)
                         /\ x \in Keeping(e, a, pid) <=> x \in Keeping(d, a, pid)
                         /\ x \in Giving(e, a, pid) <=> x \in Giving(d, a, pid)
                         /\ x \in Given(e, a, pid) <=> x \in Given(d, a, pid)
      /\ o \notin Holding(d, a, pid) /\ o \notin Keeping(d, a, pid)
      /\ o \notin Giving(d, a, pid) /\ o \notin Given(d, a, pid)
      /\ o \notin Giving(e, a, pid) /\ o \notin Given(e, a, pid)
      /\ o \in Holding(e, a, pid) => sold /\ o \notin e.auditlog
      /\ sold /\ o \notin e.auditlog => o \in Keeping(e, a, pid)
  <2>1. StatusOf(d, o) \notin {"settled", "uncommisioned", "declined", "refunded"}
    BY <1>2 DEF FinalStatus
  <2>2. sold = Sold(d, o, a, pid)
    BY DEF sold
  <2>3. StatusSet(d, e, o, st) /\ e.auditlog \in {d.auditlog, d.auditlog \cup {o}}
    BY <1>1, <1>3
  <2>4. /\ \A x : x # o => /\ x \in Holding(e, a, pid) <=> x \in Holding(d, a, pid)
                           /\ x \in Keeping(e, a, pid) <=> x \in Keeping(d, a, pid)
                           /\ x \in Giving(e, a, pid) <=> x \in Giving(d, a, pid)
                           /\ x \in Given(e, a, pid) <=> x \in Given(d, a, pid)
    BY <2>3, UnitsAfter
  <2>5. /\ o \notin Holding(d, a, pid) /\ o \notin Keeping(d, a, pid)
        /\ o \notin Giving(d, a, pid) /\ o \notin Given(d, a, pid)
    BY <2>1, <2>3, UnitsAfter
  <2>6. /\ o \in Holding(e, a, pid) => sold /\ o \notin e.auditlog
        /\ sold /\ o \notin e.auditlog /\ st = "settled" => o \in Keeping(e, a, pid)
        /\ o \in Giving(e, a, pid) => st = "refunded" /\ sold
        /\ o \in Given(e, a, pid) => st \in {"refunded", "declined"} /\ sold
    BY <2>2, <2>3, UnitsAfter
  <2>7. sold => st = "settled"
    BY <1>1
  <2> QED
    BY <2>4, <2>5, <2>6, <2>7
<1>5. d.inventory[a][pid] \in Int
  BY DEF Database
<1>6. e.inventory[a][pid] = d.inventory[a][pid]
          + IF UnitOf(d, o, a, pid) THEN IF Distributes(d, o, force) THEN Taken(d, o) ELSE 0 ELSE 0
  BY <1>1 DEF StockMoved
<1>7. CASE sold /\ d.orders[o].price # 0
  <2>1. HasDirectAgent(d.orders[o].studentid) /\ Distributes(d, o, force)
    BY <1>7, TreeAssumption DEF sold, Sold, UnitOf, HasDirectAgent, Distributes, InventoryMethod
  <2>2. Taken(d, o) = -1
    BY <1>7, <2>1 DEF sold, Sold, Taken, TakesStock
  <2>3. d.inventory[a][pid] >= 1
    BY <1>7, <2>1 DEF sold, Sold, CanPay, UnitOf
  <2>4. e.inventory[a][pid] = d.inventory[a][pid] - 1
    BY <1>5, <1>6, <1>7, <2>1, <2>2 DEF sold, Sold
  <2>5. /\ Holding(e, a, pid) \subseteq Holding(d, a, pid) \cup {o}
        /\ Keeping(d, a, pid) \cup {o} \subseteq Keeping(e, a, pid)
        /\ o \notin Keeping(d, a, pid) /\ GivesNoMore(d, e, a, pid)
    BY <1>3, <1>4, <1>7 DEF GivesNoMore
  <2> QED
    BY <1>1, <2>3, <2>4, <2>5, UnitMoves DEF StockKept
<1>8. CASE ~ (sold /\ d.orders[o].price # 0)
  <2>1. UnitOf(d, o, a, pid) => Taken(d, o) = 0
    BY <1>8 DEF sold, Sold, Taken, TakesStock
  <2>2. e.inventory[a][pid] = d.inventory[a][pid]
    BY <1>5, <1>6, <2>1
  <2>3. Narrower(d, e, a, pid) /\ GivesNoMore(d, e, a, pid)
    BY <1>3, <1>4, <1>8 DEF Narrower, GivesNoMore
  <2> QED
    BY <1>1, <2>2, <2>3, UnitMoves DEF StockKept
<1> QED
  BY <1>7, <1>8

LEMMA RetractStock ==
    ASSUME NEW d \in Database, StockKept(d), NEW o \in Generated(d), CanRevoke(d, o),
           NEW retain \in BOOLEAN, NEW e, Retracts(d, e, o, retain)
    PROVE  StockKept(e)
<1> SUFFICES ASSUME NEW a \in Agent, NEW pid \in Product PROVE UnitsKept(e, a, pid)
  BY DEF StockKept
<1> DEFINE st == IF retain THEN "uncommisioned" ELSE "refunded"
           stocked == d.orders[o].paymentmethod \in InventoryMethod
           sold == Sold(d, o, a, pid)
           free == o \in d.auditlog
<1>1. /\ StatusSet(d, e, o, st) /\ e \in Database
      /\ StockMoved(d, e, o, IF ~ retain /\ stocked THEN 1 ELSE 0)
      /\ retain => st = "uncommisioned"
      /\ ~ retain => st = "refunded"
      /\ e.auditlog = d.auditlog
  BY DEF Retracts, StatusSet
<1> HIDE DEF st
<1>2. StatusOf(d, o) = "settled"
  BY DEF CanRevoke
<1>3. /\ \A x : x # o => /\ x \in Holding(e, a, pid) <=> x \in Holding(d, a, pid)
                         /\ x \in Keeping(e, a, pid) <=> x \in Keeping(d, a, pid)
                         /\ x \in Giving(e, a, pid) <=> x \in Giving(d, a, pid)
                         /\ x \in Given(e, a, pid) <=> x \in Given(d, a, pid)
      /\ o \in Holding(d, a, pid) <=> sold /\ ~ free
      /\ o \in Keeping(d, a, pid) <=> sold /\ ~ free
      /\ o \notin Giving(d, a, pid) /\ o \notin Given(d, a, pid)
      /\ o \in Holding(e, a, pid) <=> sold /\ ~ free /\ retain
      /\ o \in Keeping(e, a, pid) <=> sold /\ ~ free /\ retain
      /\ o \in Giving(e, a, pid) <=> sold /\ free /\ ~ retain
      /\ o \in Given(e, a, pid) <=> sold /\ free /\ ~ retain
  BY <1>1, <1>2, UnitsAfter
<1>4. d.inventory[a][pid] \in Int
  BY DEF Database
<1>5. e.inventory[a][pid] = d.inventory[a][pid] + IF sold /\ ~ retain THEN 1 ELSE 0
  BY <1>1, <1>4 DEF StockMoved, Sold
<1> HIDE DEF sold, free
<1>6. CASE sold /\ ~ retain /\ ~ free
  <2>1. e.inventory[a][pid] = d.inventory[a][pid] + 1
    BY <1>5, <1>6
  <2>2. /\ Holding(e, a, pid) \subseteq Holding(d, a, pid) \ {o} /\ o \in Holding(d, a, pid)
        /\ Keeping(d, a, pid) \ {o} \subseteq Keeping(e, a, pid)
        /\ GivesNoMore(d, e, a, pid)
    BY <1>3, <1>6 DEF GivesNoMore
  <2> QED
    BY <1>1, <2>1, <2>2, UnitMoves DEF StockKept
<1>7. CASE sold /\ ~ retain /\ free
  <2>1. e.inventory[a][pid] = d.inventory[a][pid] + 1
    BY <1>5, <1>7
  <2>2. /\ Narrower(d, e, a, pid) /\ o \notin Given(d, a, pid)
        /\ Giving(e, a, pid) \subseteq Giving(d, a, pid) \cup {o}
        /\ Given(d, a, pid) \cup {o} \subseteq Given(e, a, pid)
    BY <1>3, <1>7 DEF Narrower
  <2> QED
    BY <1>1, <2>1, <2>2, UnitMoves DEF StockKept
<1>8. CASE ~ sold \/ retain
  <2>1. e.inventory[a][pid] = d.inventory[a][pid]
    BY <1>4, <1>5, <1>8
  <2>2. Narrower(d, e, a, pid) /\ GivesNoMore(d, e, a, pid)
    BY <1>3, <1>8 DEF Narrower, GivesNoMore
  <2> QED
    BY <1>1, <2>1, <2>2, UnitMoves DEF StockKept
<1> QED
  BY <1>6, <1>7, <1>8

LEMMA WriteStock ==
    ASSUME NEW d \in Database, StockKept(d), NEW o \in Generated(d), NEW st \in Status,
           MayWrite(d, o, st), NEW e, e = SetStatus(d, o, st)
    PROVE  StockKept(e)
<1> SUFFICES ASSUME NEW a \in Agent, NEW pid \in Product PROVE UnitsKept(e, a, pid)
  BY DEF StockKept
<1>1. /\ StatusSet(d, e, o, st) /\ e \in Database /\ e.inventory = d.inventory
      /\ e.auditlog = d.auditlog
  <2>1. StatusSet(d, e, o, st) /\ e = [d EXCEPT !.orders = e.orders]
    BY SetStatusFields
  <2> QED
    BY <2>1 DEF Database, StatusSet
<1>2. Sold(d, o, a, pid) => st = "declined"
  BY DEF MayWrite, InventoryMethod, Sold
<1>3. st \notin {"settled", "uncommisioned", "refunded"}
  BY DEF MayWrite
<1>4. /\ \A x : x # o => /\ x \in Holding(e, a, pid) <=> x \in Holding(d, a, pid)
                         /\ x \in Keeping(e, a, pid) <=> x \in Keeping(d, a, pid)
                         /\ x \in Giving(e, a, pid) <=> x \in Giving(d, a, pid)
                         /\ x \in Given(e, a, pid) <=> x \in Given(d, a, pid)
      /\ o \notin Holding(e, a, pid) /\ o \notin Giving(e, a, pid)
      /\ o \in Keeping(d, a, pid) => o \in Keeping(e, a, pid)
      /\ o \in Given(d, a, pid) => o \in Given(e, a, pid)
  BY <1>1, <1>2, <1>3, UnitsAfter
<1>5. Narrower(d, e, a, pid) /\ GivesNoMore(d, e, a, pid)
  BY <1>4 DEF Narrower, GivesNoMore
<1> QED
  BY <1>1, <1>5, UnitMoves DEF StockKept

\* The log, and the uses of coupons, when o has another status.
LEMMA StatusKeeps ==
    ASSUME NEW d \in Database, NEW o \in Generated(d), NEW st, NEW e, StatusSet(d, e, o, st)
    PROVE  /\ CouponsKept(d) => CouponsKept(e)
           /\ /\ LogSettled(d) /\ e.auditlog \in {d.auditlog, d.auditlog \cup {o}}
              /\ o \in e.auditlog => st \in FinalStatus
              => LogSettled(e)
<1>1. /\ e \in Database /\ Generated(e) = Generated(d) /\ StatusOf(e, o) = st
      /\ \A x \in Generated(d) : /\ SameOrder(e.orders[x], d.orders[x])
                                 /\ e.orders[x].couponcode \in {d.orders[x].couponcode, NULL}
      /\ \A x \in Generated(d) \ {o} :
             StatusOf(e, x) = StatusOf(d, x) \/ StatusOf(e, x) \in FinalStatus
  BY DEF StatusSet, FinalStatus
<1>2. ASSUME CouponsKept(d) PROVE CouponsKept(e)
  <2> SUFFICES ASSUME NEW c \in Coupon, CouponTerms[c].maxcount # NULL
               PROVE  Cardinality(UsesOf(e, c)) <= CouponTerms[c].maxcount
    BY DEF CouponsKept
  <2>1. UsesOf(e, c) \subseteq UsesOf(d, c)
    BY <1>1, PricingAssumption DEF UsesOf
  <2>2. /\ Cardinality(UsesOf(e, c)) <= Cardinality(UsesOf(d, c))
        /\ Cardinality(UsesOf(e, c)) \in Nat /\ Cardinality(UsesOf(d, c)) \in Nat
    BY <1>1, <2>1, StockFinite, FS_Subset, FS_CardinalityType
  <2>3. Cardinality(UsesOf(d, c)) <= CouponTerms[c].maxcount /\ CouponTerms[c].maxcount \in Nat
    BY <1>2, PricingAssumption DEF CouponsKept
  <2> QED
    BY <2>2, <2>3
<1>3. ASSUME LogSettled(d), e.auditlog \in {d.auditlog, d.auditlog \cup {o}},
             o \in e.auditlog => st \in FinalStatus
      PROVE  LogSettled(e)
  BY <1>1, <1>3 DEF LogSettled
<1> QED
  BY <1>2, <1>3

\* A coupon is used once more only by an order that is new, and when it may be.
LEMMA ReadiedCoupons ==
    ASSUME NEW d \in Database, CouponsKept(d), NEW o, NEW e, Readied(d, e, o)
    PROVE  CouponsKept(e)
<1> SUFFICES ASSUME NEW c \in Coupon, CouponTerms[c].maxcount # NULL
             PROVE  Cardinality(UsesOf(e, c)) <= CouponTerms[c].maxcount
  BY DEF CouponsKept
<1>1. /\ e \in Database /\ Generated(e) = Generated(d) \cup {o}
      /\ \A x \in Generated(d) : e.orders[x].couponcode = d.orders[x].couponcode
      /\ o \notin Generated(d) => Inserted(d, o, e.orders[o])
  BY DEF Readied
<1>2. /\ CouponTerms[c].maxcount \in Nat /\ c # NULL
      /\ Cardinality(UsesOf(d, c)) <= CouponTerms[c].maxcount
      /\ IsFiniteSet(UsesOf(d, c)) /\ Cardinality(UsesOf(d, c)) \in Nat
  BY PricingAssumption, StockFinite, FS_CardinalityType DEF CouponsKept
<1>3. CASE o \in Generated(d) \/ e.orders[o].couponcode # c
  <2>1. UsesOf(e, c) = UsesOf(d, c)
    BY <1>1, <1>3 DEF UsesOf
  <2> QED
    BY <1>2, <2>1
<1>4. CASE o \notin Generated(d) /\ e.orders[o].couponcode = c
  <2>1. Cardinality(UsesOf(d, c)) < CouponTerms[c].maxcount
    BY <1>1, <1>2, <1>4 DEF Inserted
  <2>2. UsesOf(e, c) = UsesOf(d, c) \cup {o}
    BY <1>1, <1>4 DEF UsesOf
  <2>3. Cardinality(UsesOf(e, c)) \in {Cardinality(UsesOf(d, c)), Cardinality(UsesOf(d, c)) + 1}
    BY <1>2, <2>2, FS_AddElement
  <2> QED
    BY <1>2, <2>1, <2>3
<1> QED
  BY <1>3, <1>4

GoodsKept(d) == StockKept(d) /\ LogSettled(d) /\ CouponsKept(d)

\* An order that is prepared and can be paid, or edited and not paid.
LEMMA PreparedGoods ==
    ASSUME NEW d \in Database, GoodsKept(d), NEW o \in Order, NEW e, Readied(d, e, o),
           \/ StatusOf(e, o) \notin FinalStatus
           \/ /\ o \in Generated(d)
              /\ d.orders[o].paymentmethod \in InventoryMethod
                     <=> e.orders[o].paymentmethod \in InventoryMethod
    PROVE  GoodsKept(e)
<1>1. StockKept(e)
  BY ReadiedStock DEF GoodsKept
<1>2. CouponsKept(e)
  BY ReadiedCoupons DEF GoodsKept
<1>3. LogSettled(e)
  BY DEF GoodsKept, LogSettled, Readied, StatusOf
<1> QED
  BY <1>1, <1>2, <1>3 DEF GoodsKept

LEMMA EditGoods ==
    ASSUME NEW d \in Database, Sound(d), GoodsKept(d), NEW o \in Order,
           NEW row \in OrderRow, NEW e, Edited(d, e, o, row), EditAlone(d, o, row)
    PROVE  GoodsKept(e)
<1>1. Readied(d, e, o) /\ e.orders[o] = row
  BY EditReadies
<1>2. CASE Inserted(d, o, row)
  <2>1. StatusOf(e, o) \notin FinalStatus
    BY <1>1, <1>2 DEF Inserted, StatusOf, FinalStatus
  <2> QED
    BY <1>1, <2>1, PreparedGoods
<1>3. CASE Rewritten(d, o, row)
  <2>1. /\ o \in Generated(d) /\ row.status = d.orders[o].status
        /\ row.paymentmethod # d.orders[o].paymentmethod =>
               /\ row.paymentmethod \notin InventoryMethod
               /\ \/ d.orders[o].paymentmethod \notin InventoryMethod
                  \/ d.orders[o].status \in OpenStatus \cup {"paid"}
    BY <1>3 DEF Rewritten, EditAlone
  <2>2. \/ StatusOf(e, o) \notin FinalStatus
        \/ d.orders[o].paymentmethod \in InventoryMethod
               <=> e.orders[o].paymentmethod \in InventoryMethod
    BY <1>1, <2>1 DEF StatusOf, OpenStatus, FinalStatus
  <2> QED
    BY <1>1, <2>1, <2>2, PreparedGoods
<1> QED
  BY <1>2, <1>3 DEF Edited

LEMMA GoodsTransact ==
    ASSUME FreshViews, NEW d \in Database, today \in Int, Sound(d), Books(d),
           GoodsKept(d), NEW e, Transacts(d, e)
    PROVE  GoodsKept(e)
<1>1. CASE Edits(d, e)
  BY <1>1, EditGoods DEF Edits
<1>2. CASE Pays(d, e)
  <2>1. PICK o \in Order, force \in BOOLEAN : \E d1, d2 : InSteps(d, e, o, force, d1, d2)
    BY <1>2, PaysInSteps
  <2>2. PICK d1, d2 : InSteps(d, e, o, force, d1, d2)
    BY <2>1
  <2>3. /\ d1 \in Database /\ o \in Generated(d1) /\ CanPay(d1, o, force)
        /\ Prepared(d, d1, o) /\ Settles(d1, d2, o, force)
        /\ d2 \in Database /\ o \in Generated(d2)
        /\ \/ e = d2
           \/ CanRevoke(d2, o) /\ Retracts(d2, e, o, TRUE)
    BY <2>2 DEF InSteps, Readied
  <2>4. Readied(d, d1, o) /\ StatusOf(d1, o) \notin FinalStatus
    BY <2>2 DEF InSteps, CanPay, StatusOf
  <2>5. GoodsKept(d1)
    BY <2>4, PreparedGoods
  <2>6. StockKept(d2)
    BY <2>3, <2>5, SettleStock DEF GoodsKept
  <2> DEFINE st == PaidStatus(d1.orders[o].paymentmethod, force)
  <2>7. /\ StatusSet(d1, d2, o, st)
        /\ d2.auditlog = d1.auditlog \cup Gratis(d1, o)
    BY <2>3 DEF Settles
  <2>8. /\ d2.auditlog \in {d1.auditlog, d1.auditlog \cup {o}}
        /\ o \in d2.auditlog => st \in FinalStatus
    BY <2>4, <2>5, <2>7
       DEF GoodsKept, LogSettled, Gratis, PaidStatus, FinalStatus, InventoryMethod, OnlineMethod
  <2> HIDE DEF st
  <2>9. CouponsKept(d2) /\ LogSettled(d2)
    BY <2>3, <2>5, <2>7, <2>8, StatusKeeps DEF GoodsKept
  <2>10. CASE e = d2
    BY <2>6, <2>9, <2>10 DEF GoodsKept
  <2>11. CASE CanRevoke(d2, o) /\ Retracts(d2, e, o, TRUE)
    <3>1. StockKept(e)
      BY <2>3, <2>6, <2>11, RetractStock
    <3>2. /\ StatusSet(d2, e, o, "uncommisioned") /\ "uncommisioned" \in FinalStatus
          /\ e.auditlog = d2.auditlog
      BY <2>11 DEF Retracts, FinalStatus
    <3>3. CouponsKept(e) /\ LogSettled(e)
      BY <2>3, <2>9, <3>2, StatusKeeps
    <3> QED
      BY <3>1, <3>3 DEF GoodsKept
  <2> QED
    BY <2>3, <2>10, <2>11
<1>3. CASE Writes(d, e)
  <2>1. PICK o \in Generated(d), st \in Status : MayWrite(d, o, st) /\ e = SetStatus(d, o, st)
    BY <1>3 DEF Writes
  <2>2. StockKept(e)
    BY <2>1, WriteStock DEF GoodsKept
  <2>3. StatusSet(d, e, o, st) /\ e.auditlog = d.auditlog
    <3>1. StatusSet(d, e, o, st) /\ e = [d EXCEPT !.orders = e.orders]
      BY <2>1, SetStatusFields
    <3> QED
      BY <3>1 DEF Database
  <2>4. st \in FinalStatus \/ StatusOf(d, o) \notin FinalStatus
    BY <2>1 DEF MayWrite, FinalStatus, OpenStatus
  <2>5. o \in e.auditlog => st \in FinalStatus
    BY <2>3, <2>4 DEF GoodsKept, LogSettled
  <2>6. CouponsKept(e) /\ LogSettled(e)
    BY <2>3, <2>5, StatusKeeps DEF GoodsKept
  <2> QED
    BY <2>2, <2>6 DEF GoodsKept
<1>4. CASE Revokes(d, e)
  <2>1. PICK o \in Generated(d), retain \in BOOLEAN :
            CanRevoke(d, o) /\ e = Revoke(d, o, retain)
    BY <1>4 DEF Revokes
  <2>2. Retracts(d, e, o, retain)
    BY <2>1, RevokeRetracts
  <2>3. StockKept(e)
    BY <2>1, <2>2, RetractStock DEF GoodsKept
  <2> DEFINE st == IF retain THEN "uncommisioned" ELSE "refunded"
  <2>4. StatusSet(d, e, o, st) /\ st \in FinalStatus /\ e.auditlog = d.auditlog
    BY <2>2 DEF Retracts, FinalStatus
  <2> HIDE DEF st
  <2>5. CouponsKept(e) /\ LogSettled(e)
    BY <2>4, StatusKeeps DEF GoodsKept
  <2> QED
    BY <2>3, <2>5 DEF GoodsKept
<1>5. CASE Delivers(d, e)
  <2>1. e.orders = d.orders /\ e.inventory = d.inventory /\ e.auditlog = d.auditlog
    BY <1>5 DEF Delivers, PostDelivery, Database
  <2>2. /\ Generated(e) = Generated(d) /\ \A x : StatusOf(e, x) = StatusOf(d, x)
        /\ \A c : UsesOf(e, c) = UsesOf(d, c)
        /\ \A a, pid : Holding(e, a, pid) = Holding(d, a, pid)
                       /\ Keeping(e, a, pid) = Keeping(d, a, pid)
                       /\ Giving(e, a, pid) = Giving(d, a, pid)
                       /\ Given(e, a, pid) = Given(d, a, pid)
    BY <2>1 DEF Generated, StatusOf, UsesOf, Holding, Keeping, Giving, Given, FromStock, OrdersIn
  <2>3. LogSettled(e) /\ CouponsKept(e)
    BY <2>1, <2>2 DEF GoodsKept, LogSettled, CouponsKept
  <2>4. StockKept(e)
    BY <2>1, <2>2 DEF GoodsKept, StockKept, UnitsKept
  <2> QED
    BY <2>3, <2>4 DEF GoodsKept
<1> QED
  BY <1>1, <1>2, <1>3, <1>4, <1>5 DEF Transacts

LEMMA GoodsInit == Init => GoodsKept(db)
<1> SUFFICES ASSUME Init PROVE GoodsKept(db)
  OBVIOUS
<1>1. Generated(db) = {} /\ db.inventory = OpeningStock
  BY DEF Init, Generated
<1>2. LogSettled(db)
  BY DEF Init, LogSettled
<1>3. CouponsKept(db)
  <2> SUFFICES ASSUME NEW c \in Coupon, CouponTerms[c].maxcount # NULL
               PROVE  Cardinality(UsesOf(db, c)) <= CouponTerms[c].maxcount
    BY DEF CouponsKept
  <2>1. UsesOf(db, c) = {}
    BY <1>1 DEF UsesOf
  <2>2. Cardinality(UsesOf(db, c)) = 0
    BY <2>1, FS_EmptySet
  <2>3. CouponTerms[c].maxcount \in Nat
    BY PricingAssumption
  <2> QED
    BY <2>2, <2>3
<1>4. ASSUME NEW a \in Agent, NEW pid \in Product PROVE UnitsKept(db, a, pid)
  <2>1. db.inventory[a][pid] \in Nat /\ OpeningStock[a][pid] - db.inventory[a][pid] = 0
    BY <1>1, OpeningAssumption
  <2>2. Holding(db, a, pid) = {} /\ Giving(db, a, pid) = {}
    BY <1>1 DEF Holding, Giving, FromStock, OrdersIn
  <2>3. Cardinality({}) = 0
    BY FS_EmptySet
  <2> QED
    BY <2>1, <2>2, <2>3 DEF UnitsKept
<1> QED
  BY <1>2, <1>3, <1>4 DEF GoodsKept, StockKept

\* The orders that the page of an agent shows with a unit each.
ShownUnits(a, pid) ==
    {row \in InventoryCourseOrders(a) :
        /\ row.product.productid = pid
        /\ row.paymentmethod \in InventoryMethod
        /\ row.status \in BoughtStatus \cup {"declined"}
        /\ row.id \notin db.auditlog}

\* The page of an agent shows an order for every unit that is kept.
LEMMA KeptShown ==
    ASSUME db \in Database, NEW a, NEW pid, NEW S \in SUBSET Keeping(db, a, pid)
    PROVE  /\ Cardinality(ShownUnits(a, pid)) \in Nat
           /\ Cardinality(S) <= Cardinality(ShownUnits(a, pid))
<1> DEFINE Line(o) == [id |-> o, paymentmethod |-> db.orders[o].paymentmethod,
                       status |-> StatusOf(db, o), product |-> GetOrderProductsByOrderId(o)]
           below == {x \in Generated(db) : Upstream[db.orders[x].studentid] = a}
           lines == [o \in below |-> Line(o)]
           rows == ShownUnits(a, pid)
<1>1. InventoryCourseOrders(a) = {lines[o] : o \in below}
  BY DEF InventoryCourseOrders
<1>2. IsFiniteSet(below)
  <2>1. below \subseteq Order
    BY DEF Generated
  <2> QED
    BY <2>1, FiniteAssumption, FS_Subset
<1>3. S \subseteq below
  BY DEF Keeping, FromStock, OrdersIn
<1>4. \A o \in S : lines[o] \in rows
  <2> SUFFICES ASSUME NEW o \in S PROVE lines[o] \in rows
    OBVIOUS
  <2>1. /\ StatusOf(db, o) \in BoughtStatus \cup {"declined"}
        /\ db.orders[o].paymentmethod \in InventoryMethod
        /\ db.orders[o].productid = pid /\ o \notin db.auditlog
    BY DEF Keeping, FromStock, OrdersIn, BoughtStatus, PurchasedStatus
  <2>2. lines[o].product.productid = pid
    BY <1>3, <2>1 DEF GetOrderProductsByOrderId
  <2>3. lines[o].paymentmethod \in InventoryMethod
        /\ lines[o].status \in BoughtStatus \cup {"declined"}
        /\ lines[o].id \notin db.auditlog
    BY <1>3, <2>1
  <2> QED
    BY <1>1, <1>3, <2>2, <2>3 DEF ShownUnits
<1>5. \A x, y \in below : lines[x] = lines[y] => x = y
  <2>1. \A x \in below : lines[x].id = x
    OBVIOUS
  <2> QED
    BY <2>1
<1> HIDE DEF lines
<1>6. IsFiniteSet(rows)
  <2>1. IsFiniteSet(InventoryCourseOrders(a))
    BY <1>1, <1>2, ImageFinite
  <2>2. rows \subseteq InventoryCourseOrders(a)
    BY DEF ShownUnits
  <2> HIDE DEF rows
  <2> QED
    BY <2>1, <2>2, FS_Subset
<1> HIDE DEF rows, below
<1> DEFINE g == [o \in S |-> lines[o]]
<1>7. g \in Injection(S, rows)
  BY <1>3, <1>4, <1>5 DEF Injection, IsInjective
<1> HIDE DEF g
<1>8. Cardinality(S) <= Cardinality(rows) /\ Cardinality(rows) \in Nat
  BY <1>6, <1>7, FS_Injection, FS_CardinalityType
<1> QED
  BY <1>8 DEF rows

\* No unit of stock is sold twice or given back twice, every unit that is missing is shown
\* with an order, and coupons are used as often as they may be, when nobody acts on an
\* outdated page -- but for the orders approved at price zero, which take no unit and give
\* one back when they are refunded: no other order does.
THEOREM StockIsExplained == FreshViews => (Spec => []StockExplained)
<1> SUFFICES ASSUME FreshViews PROVE Spec => []StockExplained
  OBVIOUS
<1>1. Consistent /\ Books(db) /\ GoodsKept(db) /\ [Next]_vars => GoodsKept(db)'
  <2> SUFFICES ASSUME Consistent, Books(db), GoodsKept(db), [Next]_vars PROVE GoodsKept(db')
    OBVIOUS
  <2>1. TypeOK /\ Sound(db) /\ db \in Database /\ today \in Int
    BY ConsistentIsSound, BoundsAssumption DEF TypeOK
  <2>2. CASE Next
    BY <2>1, <2>2, NextTransacts, GoodsTransact
  <2>3. CASE UNCHANGED vars
    BY <2>3 DEF vars
  <2> QED
    BY <2>2, <2>3
<1>2. Consistent /\ GoodsKept(db) => StockExplained
  <2> SUFFICES ASSUME Consistent, GoodsKept(db) PROVE StockExplained
    OBVIOUS
  <2>1. db \in Database /\ today \in Int
    BY BoundsAssumption DEF Consistent, TypeOK
  <2>2. ASSUME NEW a \in Agent, NEW pid \in Product
        PROVE  /\ db.inventory[a][pid] >= 0
               /\ db.inventory[a][pid] + Cardinality(Holding(db, a, pid))
                      <= OpeningStock[a][pid] + Cardinality(Given(db, a, pid))
               /\ OpeningStock[a][pid] - db.inventory[a][pid] + Cardinality(Giving(db, a, pid))
                      <= Cardinality(ShownUnits(a, pid))
    <3>1. PICK S \in SUBSET Keeping(db, a, pid), M \in SUBSET Given(db, a, pid) :
              /\ Holding(db, a, pid) \subseteq S /\ Giving(db, a, pid) \subseteq M
              /\ Cardinality(S) - Cardinality(M) = OpeningStock[a][pid] - db.inventory[a][pid]
      BY DEF GoodsKept, StockKept, UnitsKept
    <3>2. /\ IsFiniteSet(S) /\ IsFiniteSet(M) /\ IsFiniteSet(Given(db, a, pid))
          /\ IsFiniteSet(Holding(db, a, pid)) /\ IsFiniteSet(Giving(db, a, pid))
      BY <2>1, <3>1, StockFinite, FS_Subset
    <3>3. /\ Cardinality(S) \in Nat /\ Cardinality(M) \in Nat
          /\ Cardinality(Given(db, a, pid)) \in Nat /\ Cardinality(Holding(db, a, pid)) \in Nat
          /\ Cardinality(Giving(db, a, pid)) \in Nat
      BY <3>2, FS_CardinalityType
    <3>4. /\ Cardinality(Holding(db, a, pid)) <= Cardinality(S)
          /\ Cardinality(Giving(db, a, pid)) <= Cardinality(M)
          /\ Cardinality(M) <= Cardinality(Given(db, a, pid))
      BY <3>1, <3>2, FS_Subset
    <3>5. /\ OpeningStock[a][pid] \in Int /\ db.inventory[a][pid] \in Int
          /\ db.inventory[a][pid] >= 0
      BY <2>1, OpeningAssumption DEF Database, GoodsKept, StockKept, UnitsKept
    <3>6. /\ Cardinality(S) <= Cardinality(ShownUnits(a, pid))
          /\ Cardinality(ShownUnits(a, pid)) \in Nat
      BY <2>1, <3>1, KeptShown
    <3>7. /\ db.inventory[a][pid] + Cardinality(Holding(db, a, pid))
                 <= OpeningStock[a][pid] + Cardinality(Given(db, a, pid))
          /\ OpeningStock[a][pid] - db.inventory[a][pid] + Cardinality(Giving(db, a, pid))
                 <= Cardinality(ShownUnits(a, pid))
      BY <3>1, <3>3, <3>4, <3>5, <3>6
    <3> QED
      BY <3>5, <3>7
  <2>3. StockNotMinted /\ MissingUnitsShown
    BY <2>2 DEF StockNotMinted, MissingUnitsShown, Holding, Given, Giving, ShownUnits
  <2>4. ValidCouponsOrder
    <3> SUFFICES ASSUME NEW c \in SearchCoupon(NULL, TRUE, FALSE)
                 PROVE  /\ CouponTerms[c].duedate # NULL => today <= CouponTerms[c].duedate
                        /\ CouponTerms[c].maxcount # NULL =>
                               Cardinality(UsesOf(db, c)) <= CouponTerms[c].maxcount
      BY DEF ValidCouponsOrder, GetCouponByCode, UsesOf, ListOrders, GetOrderProductsByOrderId
    <3>1. c \in Coupon /\ (CouponTerms[c].duedate # NULL => today < CouponTerms[c].duedate)
      BY DEF SearchCoupon, SearchOrderCoupon
    <3>2. CouponTerms[c].duedate \in Nat \cup {NULL}
      BY <3>1, PricingAssumption
    <3> QED
      BY <2>1, <3>1, <3>2 DEF GoodsKept, CouponsKept
  <2> QED
    BY <2>3, <2>4 DEF StockExplained
<1> QED
  BY <1>1, <1>2, GoodsInit, StaysConsistent, BooksKept, PTL DEF Spec
=============================================================================
