------------------------------- MODULE Wallet -------------------------------
(***************************************************************************)
(* The wallet and the stock of one agent for one product: withdrawals,     *)
(* inventory orders and adjustments, against columns of account that       *)
(* settlement moves meanwhile.  An SQL call is one transaction at READ     *)
(* COMMITTED that queries first and writes at the end, so a session has    *)
(* two steps: its queries and checks, which lock nothing, and its writes,  *)
(* which commit together.  Between the two other sessions commit.  Writes  *)
(* of a session happen in one step because it takes its row locks in the   *)
(* order account, productinventory, inventoryorder: whoever waits for one  *)
(* only waits.  A check that raises leaves everything as it was: the step  *)
(* is not enabled.  Money is counted in cents.                             *)
(***************************************************************************)
EXTENDS Integers, FiniteSetsExt

CONSTANTS
    Withdraw,        \* withdraw.id
    InventoryOrder,  \* inventoryorder.id
    Method,          \* userwithdrawmethod.id
    Card,            \* what a row of userwithdrawmethod names: bank, holder and number
    Session,         \* calls in flight
    Opening,         \* the columns of account before the first step
    UnitPrice,       \* purchase price of a unit, from product.pricingschedule
    Amounts,         \* amounts an agent asks for
    Quantities,      \* quantities an agent orders
    Moves,           \* what settlement, revocations and adjustments may add to a column
    MaxMoves,        \* bound on their number
    MaxCalls,        \* bound on the calls of sessions and the changes of cards
    DELETED,         \* in place of a row that was deleted
    NULL

Column == {"balance", "balancetriple", "balanceleft", "balanceright"}
Side == {"balanceleft", "balanceright"}

Withdrawtype == {"balance", "partition", "triple"}
WithdrawStatus == {"REQUESTED", "LOCKED", "PAID", "DECLINED"}
Inventoryordertype == {"agent_topup", "from_balance", "hq_initiated"}
Inventoryorderstatus == {"pending", "settled", "declined"}

VARIABLES
    account,         \* the columns of the account
    withdraw,
    inventoryorder,
    stock,           \* productinventory.quantity
    history,         \* productinventoryhistory: units an order added
    posted,          \* balanceactivity: the sum of the rows of a cause and a column
    session,         \* what a call has read
    userwithdrawmethod,
    page,            \* orders on the head quarter's approval page, as last loaded
    moves,           \* settlements and adjustments so far
    calls,           \* of those so far
    raced            \* which calls wrote although a table they had read had changed

vars == <<account, withdraw, inventoryorder, stock, history, posted, session,
          userwithdrawmethod, page, moves, calls, raced>>

Cause == Withdraw \cup InventoryOrder \cup {"settlement", "adjustment"}

WithdrawRow == [type : Withdrawtype, amount : Nat, method : Method \cup {NULL}, status : WithdrawStatus]
InventoryRow == [type : Inventoryordertype, quantity : Nat, status : Inventoryorderstatus]

\* A call in flight: of is the row it is about, row what it is to insert or has read of
\* it, account the balances a purchase has read, stale what has changed since.
Call == [kind : {"request", "confirm", "topup", "purchase", "approve"},
         of : Withdraw \cup InventoryOrder,
         row : WithdrawRow \cup InventoryRow,
         account : [Column -> Int],
         stale : SUBSET ({"account"} \cup Withdraw \cup InventoryOrder)]

\* The server takes any amount and any quantity; the drawer of the wallet page asks for an
\* amount of at least one, and the form of the stock page for a quantity above zero.
ASSUME WalletAssumption ==
    /\ Opening \in [Column -> Nat]
    /\ UnitPrice \in Nat \ {0}
    /\ Amounts \subseteq Nat \ {0} /\ Quantities \subseteq Nat \ {0}
    /\ Moves \subseteq {"settlement", "adjustment"} \X Column \X (Int \ {0}) /\ MaxMoves \in Nat /\ MaxCalls \in Nat
    /\ NULL \notin Withdraw \cup InventoryOrder \cup Session \cup Method \cup Card
    /\ DELETED \notin Card \cup {NULL}
    /\ IsFiniteSet(Withdraw) /\ IsFiniteSet(InventoryOrder)
    /\ Withdraw \cap InventoryOrder = {} /\ "account" \notin Withdraw \cup InventoryOrder
    /\ {"settlement", "adjustment"} \cap (Withdraw \cup InventoryOrder) = {}
    /\ NULL \notin WithdrawRow /\ NULL \notin InventoryRow /\ NULL \notin Call

\* The rows that decide a call.
Decisive(call) ==
    CASE call.kind = "request"  -> {"account"} \cup Withdraw \cup InventoryOrder
      [] call.kind = "confirm"  -> {"account", call.of}
      [] call.kind = "topup"    -> Withdraw \cup InventoryOrder
      [] call.kind = "purchase" -> {"account"} \cup Withdraw
      [] call.kind = "approve"  -> {call.of}

TableOf(x) == CASE x \in Withdraw       -> "withdraw"
                [] x \in InventoryOrder -> "inventoryorder"
                [] OTHER                -> "account"

TypeOK ==
    /\ account \in [Column -> Int]
    /\ withdraw \in [Withdraw -> WithdrawRow \cup {NULL}]
    /\ inventoryorder \in [InventoryOrder -> InventoryRow \cup {NULL}]
    /\ stock \in Nat
    /\ history \in [InventoryOrder -> Nat]
    /\ posted \in [Cause \X Column -> Int]
    /\ session \in [Session -> Call \cup {NULL}]
    /\ userwithdrawmethod \in [Method -> Card \cup {NULL, DELETED}]
    /\ page \subseteq InventoryOrder
    /\ moves \in 0..MaxMoves /\ calls \in 0..MaxCalls
    /\ raced \subseteq {"request", "confirm", "topup", "purchase", "approve"}
                       \X {"account", "withdraw", "inventoryorder"}

Init ==
    /\ account = Opening
    /\ withdraw = [w \in Withdraw |-> NULL]
    /\ inventoryorder = [o \in InventoryOrder |-> NULL]
    /\ stock = 0
    /\ history = [o \in InventoryOrder |-> 0]
    /\ posted = [p \in Cause \X Column |-> 0]
    /\ session = [s \in Session |-> NULL]
    /\ userwithdrawmethod = [m \in Method |-> NULL]
    /\ page = {}
    /\ moves = 0 /\ calls = 0
    /\ raced = {}

-----------------------------------------------------------------------------
(***************************************************************************)
(* Queries                                                                 *)
(***************************************************************************)

Least(a) == IF a["balanceleft"] <= a["balanceright"] THEN a["balanceleft"] ELSE a["balanceright"]

\* GetOngoingWithdraws, and per type GetOngoingWithdrawAmount, which the wallet page shows.
GetOngoingWithdraws ==
    {w \in Withdraw : withdraw[w] # NULL /\ withdraw[w].status \in {"REQUESTED", "LOCKED"}}

GetOngoingWithdrawAmount(type) ==
    LET mine == {w \in GetOngoingWithdraws : withdraw[w].type = type} IN
    [sum |-> MapThenSumSet(LAMBDA w : withdraw[w].amount, mine),
     no_pending |-> mine = {},
     request_exist |-> \E w \in mine : withdraw[w].status = "REQUESTED"]

ListWithdrawMethods == {m \in Method : userwithdrawmethod[m] \in Card}

PendingOrders ==
    {o \in InventoryOrder : inventoryorder[o] # NULL /\ inventoryorder[o].status = "pending"}

ListInventoriesForHQ == {o \in PendingOrders : inventoryorder[o].type = "agent_topup"}

\* The largest amount validate_withdraw lets an account ask for.
WithdrawLimit(a, type) ==
    CASE type = "balance"   -> a["balance"]
      [] type = "partition" -> Least(a)
      [] type = "triple"    -> a["balancetriple"]

\* confirm_withdraw compares half of a partition withdrawal with either side.
ConfirmCovered(a, row) ==
    IF row.type = "partition" THEN row.amount <= 2 * Least(a)
                              ELSE row.amount <= WithdrawLimit(a, row.type)

\* What an order paid from the balance may cost at most.
Purchasable(a) == a["balance"] + a["balancetriple"] + 2 * Least(a)

\* get_max_inventory_quantity: a numeric assigned to an int rounds half away from zero.
GetMaximumQuantity(a) ==
    LET have == Purchasable(a) IN
    IF have >= 0 THEN (2 * have + UnitPrice) \div (2 * UnitPrice)
                 ELSE -((2 * (-have) + UnitPrice) \div (2 * UnitPrice))

-----------------------------------------------------------------------------
(***************************************************************************)
(* Postings.  A side of the partition pays half: the column keeps cents of *)
(* balance - half, and the row cents of -half, both rounded away from zero.*)
(***************************************************************************)

CeilHalf(x) == (x + 1) \div 2
LessHalf(b, x) == IF 2 * b >= x THEN b - (x \div 2) ELSE b - CeilHalf(x)

\* The columns and the rows of a payment of x out of one column or both sides.
Debited(a, c, x) == [a EXCEPT ![c] = @ - x]
Halved(a, x) == [c \in Column |-> IF c \in Side THEN LessHalf(a[c], x) ELSE a[c]]

Post(cause, rows) ==
    posted' = [p \in Cause \X Column |->
                  IF p[1] = cause THEN posted[p] + rows[p[2]] ELSE posted[p]]

NoRows == [c \in Column |-> 0]

\* Session s ends, or a call outside of any session commits, having changed rows: what
\* the others have read of them is out of date.
Outdate(s, rows) ==
    session' = [t \in Session |->
        IF t = s \/ session[t] = NULL THEN NULL
        ELSE [session[t] EXCEPT !.stale = @ \cup rows]]

NoteRace(s) ==
    raced' = raced \cup {<<session[s].kind, TableOf(x)>> : x \in session[s].stale \cap Decisive(session[s])}

Begin(s, kind, of, row) ==
    /\ session[s] = NULL
    /\ calls < MaxCalls
    /\ calls' = calls + 1
    /\ session' = [session EXCEPT ![s] =
           [kind |-> kind, of |-> of, row |-> row, stale |-> {},
            account |-> IF kind = "purchase" THEN account ELSE NoRows]]
    /\ UNCHANGED <<account, withdraw, inventoryorder, stock, history, posted, userwithdrawmethod, page, moves, raced>>

Busy(id) == \E s \in Session : session[s] # NULL /\ session[s].of = id

-----------------------------------------------------------------------------
(***************************************************************************)
(* Withdrawals                                                             *)
(***************************************************************************)

\* check_withdraw_status and validate_withdraw, before the row is inserted.
MayRequest(type, amount) ==
    /\ GetOngoingWithdrawAmount(type).no_pending
    /\ PendingOrders = {}
    /\ amount <= WithdrawLimit(account, type)

\* Without a card the agent arranges the payment with the head quarter.
CreateWithdraw(s, w, type, amount, m) ==
    /\ withdraw[w] = NULL /\ ~ Busy(w)
    /\ m \in {NULL} \cup {k \in Method : userwithdrawmethod[k] # NULL}
    /\ MayRequest(type, amount)
    /\ Begin(s, "request", w,
             [type |-> type, amount |-> amount, method |-> m, status |-> "REQUESTED"])

\* withdraw_method_fkey: the row of the card is there when the withdrawal is inserted ...
MethodFound(m) == m \in ListWithdrawMethods \cup {NULL}

InsertWithdraw(s) ==
    /\ session[s] # NULL /\ session[s].kind = "request"
    /\ MethodFound(session[s].row.method)
    /\ withdraw' = [withdraw EXCEPT ![session[s].of] = session[s].row]
    /\ Outdate(s, {session[s].of}) /\ NoteRace(s)
    /\ UNCHANGED <<account, inventoryorder, stock, history, posted, userwithdrawmethod, page, moves, calls>>

\* ... or the insert raises, as when the page that offered the card is out of date.
RefuseWithdraw(s) ==
    /\ session[s] # NULL /\ session[s].kind = "request"
    /\ ~ MethodFound(session[s].row.method)
    /\ session' = [session EXCEPT ![s] = NULL]
    /\ UNCHANGED <<account, withdraw, inventoryorder, stock, history, posted,
                   userwithdrawmethod, page, moves, calls, raced>>

\* The agent's page of cards.  A withdrawal keeps the id of a card and not what it says,
\* so a change of the card changes where open withdrawals will be paid to.
CreateBankWithdrawMethod(m, card) ==
    /\ userwithdrawmethod[m] = NULL
    /\ userwithdrawmethod' = [userwithdrawmethod EXCEPT ![m] = card]
    /\ calls < MaxCalls /\ calls' = calls + 1
    /\ UNCHANGED <<account, withdraw, inventoryorder, stock, history, posted, session, page,
                   moves, raced>>

UpdateBankWithdrawMethod(m, card) ==
    /\ m \in ListWithdrawMethods
    /\ userwithdrawmethod' = [userwithdrawmethod EXCEPT ![m] = card]
    /\ calls < MaxCalls /\ calls' = calls + 1
    /\ UNCHANGED <<account, withdraw, inventoryorder, stock, history, posted, session, page,
                   moves, raced>>

\* The foreign key lets go only of a card that no withdrawal names, paid ones included.
DeleteWithdrawMethod(m) ==
    /\ m \in ListWithdrawMethods
    /\ \A w \in Withdraw : withdraw[w] # NULL => withdraw[w].method # m
    /\ userwithdrawmethod' = [userwithdrawmethod EXCEPT ![m] = DELETED]
    /\ calls < MaxCalls /\ calls' = calls + 1
    /\ UNCHANGED <<account, withdraw, inventoryorder, stock, history, posted, session, page,
                   moves, raced>>

\* The head quarter handles a request in the database: it locks it, and declines or pays it.
UpdateWithdrawStatus(w, status) ==
    /\ withdraw[w] # NULL
    /\ \/ withdraw[w].status = "REQUESTED" /\ status \in {"LOCKED", "DECLINED"}
       \/ withdraw[w].status = "LOCKED" /\ status = "DECLINED"
    /\ withdraw' = [withdraw EXCEPT ![w].status = status]
    /\ Outdate(NULL, {w})
    /\ UNCHANGED <<account, inventoryorder, stock, history, posted, userwithdrawmethod, page, moves, calls, raced>>

ConfirmWithdraw_AnyStatus(s, w) ==
    /\ withdraw[w] # NULL
    /\ ConfirmCovered(account, withdraw[w])
    /\ Begin(s, "confirm", w, withdraw[w])

\* confirm_withdraw: status and balance are read here ...
ConfirmWithdraw(s, w) ==
    /\ withdraw[w] # NULL
    /\ withdraw[w].status = "LOCKED"
    /\ ConfirmCovered(account, withdraw[w])
    /\ Begin(s, "confirm", w, withdraw[w])

\* ... and subtracted from whatever the balance is now.
PayWithdraw(s) ==
    LET w == session[s].of
        x == session[s].row.amount
        c == IF session[s].row.type = "triple" THEN "balancetriple" ELSE "balance"
    IN
    /\ session[s] # NULL /\ session[s].kind = "confirm"
    /\ IF session[s].row.type = "partition"
       THEN /\ account' = Halved(account, x)
            /\ Post(w, [d \in Column |-> IF d \in Side THEN -CeilHalf(x) ELSE 0])
       ELSE /\ account' = Debited(account, c, x)
            /\ Post(w, [NoRows EXCEPT ![c] = -x])
    /\ withdraw' = [withdraw EXCEPT ![w].status = "PAID"]
    /\ Outdate(s, {"account", w}) /\ NoteRace(s)
    /\ UNCHANGED <<inventoryorder, stock, history, userwithdrawmethod, page, moves, calls>>

-----------------------------------------------------------------------------
(***************************************************************************)
(* Inventory orders                                                        *)
(***************************************************************************)

Grant(o, quantity) ==
    /\ stock' = stock + quantity
    /\ history' = [history EXCEPT ![o] = @ + quantity]

MayOrder_Always(o) == inventoryorder[o] = NULL /\ ~ Busy(o)

\* set_inventory_unitprice refuses while a withdrawal is open.
MayOrder(o) == inventoryorder[o] = NULL /\ ~ Busy(o) /\ GetOngoingWithdraws = {}

\* A top-up is paid to the head quarter: the order stays pending.  A second one of the
\* product updates the pending one instead, before any check (see AmendTopUp).
TopUp(s, o, quantity) ==
    /\ ListInventoriesForHQ = {}
    /\ MayOrder(o)
    /\ Begin(s, "topup", o, [type |-> "agent_topup", quantity |-> quantity, status |-> "pending"])

InsertTopUp(s) ==
    /\ session[s] # NULL /\ session[s].kind = "topup"
    /\ inventoryorder' = [inventoryorder EXCEPT ![session[s].of] = session[s].row]
    /\ Outdate(s, {session[s].of}) /\ NoteRace(s)
    /\ UNCHANGED <<account, withdraw, stock, history, posted, userwithdrawmethod, page, moves, calls>>

\* upsert_inventory_order; with two pending orders check_inventoryorder_status raises.
AmendTopUp(o, quantity) ==
    /\ ListInventoriesForHQ = {o}
    /\ inventoryorder' = [inventoryorder EXCEPT ![o].quantity = quantity]
    /\ Outdate(NULL, {o})
    /\ UNCHANGED <<account, withdraw, stock, history, posted, userwithdrawmethod, page, moves, calls, raced>>

\* A purchase from the balance: the columns are read here ...
Purchase(s, o, quantity) ==
    /\ MayOrder(o)
    /\ \/ account["balance"] >= UnitPrice * quantity
       \/ account["balance"] + account["balancetriple"] >= UnitPrice * quantity
       \/ Purchasable(account) >= UnitPrice * quantity
    /\ Begin(s, "purchase", o, [type |-> "from_balance", quantity |-> quantity, status |-> "settled"])

\* ... and add_inventory empties those that do not cover the price alone, setting them to zero.
Paid(now, read, price) ==
    LET rest == price - read["balance"]
        half == rest - read["balancetriple"]
    IN CASE read["balance"] >= price       -> Debited(now, "balance", price)
         [] read["balance"] < price /\ read["balancetriple"] >= rest ->
                Debited([now EXCEPT !["balance"] = 0], "balancetriple", rest)
         [] OTHER -> Halved([now EXCEPT !["balance"] = 0, !["balancetriple"] = 0], half)

PaidRows_Balance(read, price) == [NoRows EXCEPT !["balance"] = -price]

PaidRows(read, price) ==
    LET rest == price - read["balance"]
        half == rest - read["balancetriple"]
    IN CASE read["balance"] >= price       -> [NoRows EXCEPT !["balance"] = -price]
         [] read["balance"] < price /\ read["balancetriple"] >= rest ->
                [NoRows EXCEPT !["balance"] = -read["balance"], !["balancetriple"] = -rest]
         [] OTHER -> [c \in Column |-> IF c \in Side THEN -CeilHalf(half) ELSE -read[c]]

SettlePurchase(s) ==
    LET o == session[s].of
        price == UnitPrice * session[s].row.quantity
    IN
    /\ session[s] # NULL /\ session[s].kind = "purchase"
    /\ account' = Paid(account, session[s].account, price)
    /\ Post(o, PaidRows(session[s].account, price))
    /\ Grant(o, session[s].row.quantity)
    /\ inventoryorder' = [inventoryorder EXCEPT ![o] = session[s].row]
    /\ Outdate(s, {"account", o}) /\ NoteRace(s)
    /\ UNCHANGED <<withdraw, userwithdrawmethod, page, moves, calls>>

\* The head quarter gives stock for nothing.
HqInitiated(o, quantity) ==
    /\ MayOrder(o)
    /\ inventoryorder' = [inventoryorder EXCEPT ![o] =
           [type |-> "hq_initiated", quantity |-> quantity, status |-> "settled"]]
    /\ Grant(o, quantity)
    /\ Outdate(NULL, {o})
    /\ UNCHANGED <<account, withdraw, posted, userwithdrawmethod, page, moves, calls, raced>>

LoadPage ==
    /\ page' = ListInventoriesForHQ
    /\ UNCHANGED <<account, withdraw, inventoryorder, stock, history, posted, session, userwithdrawmethod,
                   moves, calls, raced>>

ConfirmInventoryOrder_AnyStatus(s, o) ==
    /\ o \in page
    /\ Begin(s, "approve", o, inventoryorder[o])

\* confirm_inventory reads the order ...
ConfirmInventoryOrder(s, o) ==
    /\ o \in page
    /\ inventoryorder[o].status = "pending" /\ inventoryorder[o].type = "agent_topup"
    /\ Begin(s, "approve", o, inventoryorder[o])

\* ... and grants the quantity it has read.
GrantTopUp(s) ==
    LET o == session[s].of IN
    /\ session[s] # NULL /\ session[s].kind = "approve"
    /\ Grant(o, session[s].row.quantity)
    /\ inventoryorder' = [inventoryorder EXCEPT ![o].status = "settled"]
    /\ Outdate(s, {o}) /\ NoteRace(s)
    /\ UNCHANGED <<account, withdraw, posted, userwithdrawmethod, page, moves, calls>>

\* The page's other button; the server sets any status over any other.
UpdateInventoryOrderStatus(o) ==
    /\ o \in page
    /\ inventoryorder' = [inventoryorder EXCEPT ![o].status = "declined"]
    /\ Outdate(NULL, {o})
    /\ UNCHANGED <<account, withdraw, stock, history, posted, userwithdrawmethod, page, moves, calls, raced>>

-----------------------------------------------------------------------------
(***************************************************************************)
(* What moves the columns besides: pay_success and revoke_pay of orders,   *)
(* and the head quarter's adjustments                                      *)
(***************************************************************************)

Move(cause, c, x) ==
    /\ <<cause, c, x>> \in Moves
    /\ moves < MaxMoves
    /\ moves' = moves + 1
    /\ account' = [account EXCEPT ![c] = @ + x]
    /\ Post(cause, [NoRows EXCEPT ![c] = x])
    /\ Outdate(NULL, {"account"})
    /\ UNCHANGED <<withdraw, inventoryorder, stock, history, userwithdrawmethod, page, calls, raced>>

Settlement(c, x) == Move("settlement", c, x)
InsertAdjustment(c, x) == Move("adjustment", c, x)

Next ==
    \/ \E s \in Session, w \in Withdraw :
          \/ \E type \in Withdrawtype, x \in Amounts, m \in Method \cup {NULL} :
                CreateWithdraw(s, w, type, x, m)
          \/ ConfirmWithdraw(s, w)
    \/ \E w \in Withdraw, status \in WithdrawStatus : UpdateWithdrawStatus(w, status)
    \/ \E s \in Session, o \in InventoryOrder :
          \/ \E q \in Quantities : TopUp(s, o, q) \/ Purchase(s, o, q)
          \/ ConfirmInventoryOrder(s, o)
    \/ \E s \in Session :
          \/ InsertWithdraw(s) \/ RefuseWithdraw(s) \/ PayWithdraw(s)
          \/ InsertTopUp(s) \/ SettlePurchase(s) \/ GrantTopUp(s)
    \/ \E o \in InventoryOrder :
          \/ \E q \in Quantities : AmendTopUp(o, q) \/ HqInitiated(o, q)
          \/ UpdateInventoryOrderStatus(o)
    \/ \E m \in Method :
          \/ \E card \in Card : CreateBankWithdrawMethod(m, card) \/ UpdateBankWithdrawMethod(m, card)
          \/ DeleteWithdrawMethod(m)
    \/ LoadPage
    \/ \E m \in Moves : Settlement(m[2], m[3]) \/ InsertAdjustment(m[2], m[3])

Spec == Init /\ [][Next]_vars

-----------------------------------------------------------------------------
(***************************************************************************)
(* What holds, and which overlapping calls break it                        *)
(***************************************************************************)

PostedTo(c) == SumFunction([k \in Cause |-> posted[<<k, c>>]])
PostedOf(k) == SumFunction([c \in Column |-> posted[<<k, c>>]])

\* The causes that have paid half out of either side, and may differ from it by a cent.
HalvedCauses == {k \in Withdraw \cup InventoryOrder : posted[<<k, "balanceleft">>] # 0}

\* The rows of balanceactivity add up to the columns of the account, but for a cent per
\* halved payment.  Only a purchase that empties a column while another call changes the
\* account loses a change; and a withdrawal paid twice rounds twice.
LedgerMatches ==
    /\ <<"purchase", "account">> \notin raced =>
           \A c \in Column \ Side : account[c] = Opening[c] + PostedTo(c)
    /\ {<<"purchase", "account">>, <<"confirm", "withdraw">>} \cap raced = {} =>
           \A c \in Side : account[c] - Opening[c] - PostedTo(c) \in 0..Cardinality(HalvedCauses)

\* A withdrawal takes its amount once when it is paid and nothing otherwise, unless its
\* row changed under a confirmation: two confirmations pay it twice, and a declined one is paid.
PaidOnce ==
    <<"confirm", "withdraw">> \notin raced =>
        \A w \in Withdraw :
            PostedOf(w) = IF withdraw[w] = NULL THEN 0
                          ELSE IF withdraw[w].status # "PAID" THEN 0
                          ELSE IF withdraw[w].type = "partition" THEN -2 * CeilHalf(withdraw[w].amount)
                          ELSE -withdraw[w].amount

\* One withdrawal of a type is open at a time unless two requests overlapped, and none
\* beside a pending order unless a request overlapped a top-up.
OpenAlone ==
    /\ <<"request", "withdraw">> \notin raced =>
           \A v, w \in GetOngoingWithdraws : withdraw[v].type = withdraw[w].type => v = w
    /\ {<<"request", "inventoryorder">>, <<"topup", "withdraw">>} \cap raced = {} =>
           GetOngoingWithdraws = {} \/ PendingOrders = {}

\* What an open withdrawal asks for stays there to be paid: besides settlement and
\* adjustments, only a call that did not see it spends it: a purchase that overlapped the
\* request, a second request, or the payment of one that was declined meanwhile.
OnlyMovesUncover ==
    [][\A w \in Withdraw :
          (w \in GetOngoingWithdraws /\ ConfirmCovered(account, withdraw[w]) /\ w \in GetOngoingWithdraws')
          => \/ ConfirmCovered(account', withdraw'[w])
             \/ moves' # moves
             \/ {<<"purchase", "withdraw">>, <<"request", "withdraw">>, <<"confirm", "withdraw">>}
                \cap raced' # {}]_vars

\* A purchase settles for its price, to the cent of a halved payment, however it overlaps,
\* and its order is the only thing it is posted for.
PurchasePaysPrice ==
    \A o \in InventoryOrder :
        LET row == inventoryorder[o]
            price == UnitPrice * row.quantity
        IN PostedOf(o) \in IF row # NULL /\ row.type = "from_balance"
                           THEN {-price, -price - 1} ELSE {0}

\* An order gives its units once, all of them when it settles; a top-up gives another
\* number only when it is approved twice or changed under its approval, and gives
\* none when it is declined, unless the page it is declined on is out of date.
UnitsGrantedOnce ==
    <<"approve", "inventoryorder">> \notin raced =>
        \A o \in InventoryOrder : inventoryorder[o] # NULL =>
            history[o] \in CASE inventoryorder[o].status = "pending"  -> {0}
                             [] inventoryorder[o].status = "settled"  -> {inventoryorder[o].quantity}
                             [] inventoryorder[o].status = "declined" -> {0, inventoryorder[o].quantity}

\* While no column is in debt the quantity the page offers is the largest that can be
\* bought, or one more when more than half a unit is left.
OfferedQuantityCovered ==
    (\A c \in Column : account[c] >= 0) =>
        LET offered == GetMaximumQuantity(account) IN
        /\ UnitPrice * (offered - 1) <= Purchasable(account)
        /\ UnitPrice * (offered + 1) > Purchasable(account)

\* What holds of stock and of inventory orders whatever overlaps: units are given once,
\* a purchase costs its price, and the page offers what can be paid.
Consistent == TypeOK /\ UnitsGrantedOnce /\ PurchasePaysPrice /\ OfferedQuantityCovered

\* What a withdrawal takes it takes once, and it is open alone.
WithdrawalsSound == PaidOnce /\ OpenAlone
=============================================================================
