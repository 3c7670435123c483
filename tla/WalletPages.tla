----------------------------- MODULE WalletPages -----------------------------
(***************************************************************************)
(* What the wallet and inventory pages read from the tables of module      *)
(* Wallet.  The desk that pays withdrawals is the user "clerk", the member *)
(* who asks for them "agent".                                              *)
(***************************************************************************)
EXTENDS Wallet

ANY == NULL   \* a filter that is left empty

ASSUME PagesAssumption == NULL \notin {"clerk", "agent", "withdraw"}

\* createWithdraw sets it to the user who asks, confirm_withdraw to the clerk.
LastOperateUserId(w) == IF withdraw[w].status = "PAID" THEN "clerk" ELSE "agent"

\* listWithdraw: every filter that is given has to fit.
ListWithdraw(user, type, status) ==
    {w \in Withdraw : /\ withdraw[w] # NULL
                      /\ user \in {ANY, LastOperateUserId(w)}
                      /\ type \in {ANY, withdraw[w].type}
                      /\ status \in {ANY, withdraw[w].status}}

\* The card the list shows beside a withdrawal: a LEFT JOIN, so there may be none.
CardShown(w) ==
    IF withdraw[w].method \in ListWithdrawMethods THEN userwithdrawmethod[withdraw[w].method] ELSE NULL

\* The cards of the agent's page, of which the drawer of the wallet page offers one.
ListBankWithdrawMethods == [m \in ListWithdrawMethods |-> userwithdrawmethod[m]]

\* The agent's own page asks for the withdrawals of its user and fixes nothing else.
ListMyWithdraws == ListWithdraw("agent", ANY, ANY)

\* What a row of balanceactivity names as its source.  A withdrawal's source names its
\* type, so it never equals the word "withdraw" that the query looks for.
SourceOf(cause) ==
    IF cause \in Withdraw THEN withdraw[cause].type
    ELSE IF cause \in InventoryOrder THEN "inventoryorder"
    ELSE cause

\* listBalanceActivityDetails: of "withdraw" or of all but it.
ListBalanceActivityDetails(source) ==
    {[source |-> SourceOf(row[1]), balancetype |-> row[2], amount |-> posted[row], of |-> row[1]] :
        row \in {r \in Cause \X Column : /\ posted[r] # 0
                                         /\ (source = "withdraw") = (SourceOf(r[1]) = "withdraw")}}

\* The page sends every filter; one that is empty is none.
TransformParams(source) == IF source = "" THEN ANY ELSE source

ListMyBalanceActivityDetails(source) == ListBalanceActivityDetails(TransformParams(source))

\* productinventory has a row of the product once units were granted.
Stocked == \E o \in InventoryOrder : history[o] > 0

GetInventoryActivities ==
    {[inventoryorderid |-> o, quantity |-> history[o]] : o \in {p \in InventoryOrder : history[p] > 0}}

\* listInventory: the stock, once per pending order; without a stock row, every order.
ListInventory ==
    IF Stocked
    THEN IF PendingOrders = {} THEN {[order |-> NULL, quantity |-> stock, wip |-> 0]}
         ELSE {[order |-> o, quantity |-> stock, wip |-> inventoryorder[o].quantity] : o \in PendingOrders}
    ELSE {[order |-> o, quantity |-> 0, wip |-> inventoryorder[o].quantity] :
             o \in {p \in InventoryOrder : inventoryorder[p] # NULL}}

-----------------------------------------------------------------------------

\* A request is on the list of the user who made it until it is paid; what is on the
\* clerk's list is what the activity page shows as taken, unless a confirmation overlapped.
\* With the filter for withdrawals the activity page shows none of it.  Whatever was done
\* to the cards while a request was on its way, the clerk sees beside a withdrawal to a
\* card what the agent's own page shows of that card.
WithdrawalsListed ==
    /\ GetOngoingWithdraws \subseteq ListMyWithdraws
    /\ <<"confirm", "withdraw">> \notin raced =>
           ListWithdraw("clerk", ANY, ANY)
             = {row.of : row \in ListMyBalanceActivityDetails("")} \cap Withdraw
    /\ ListMyBalanceActivityDetails("withdraw") = {}
    /\ \A w \in ListWithdraw(ANY, ANY, ANY) : withdraw[w].method # NULL =>
           /\ withdraw[w].method \in DOMAIN ListBankWithdrawMethods
           /\ CardShown(w) = ListBankWithdrawMethods[withdraw[w].method]

\* The stock is what its history adds up to, and the inventory page shows it; as on its way
\* it shows no order that has arrived, and one order at a time unless top-ups overlapped.
StockListed ==
    /\ stock = SumFunction([row \in GetInventoryActivities |-> row.quantity])
    /\ \A row \in ListInventory :
          /\ row.quantity = stock
          /\ row.order # NULL => inventoryorder[row.order].status # "settled"
    /\ (Stocked /\ <<"topup", "inventoryorder">> \notin raced) => Cardinality(ListInventory) = 1

\* What holds of stock and of inventory orders whatever overlaps, and that the pages of
\* the wallet show it.
WalletConsistent == Consistent /\ WithdrawalsListed /\ StockListed
=============================================================================
