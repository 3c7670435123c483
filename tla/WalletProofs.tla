---------------------------- MODULE WalletProofs ----------------------------
(***************************************************************************)
(* What holds of the wallet for any number of withdrawals, orders, cards   *)
(* and calls, and any prices and amounts.                                  *)
(***************************************************************************)
EXTENDS WalletPages, SumProofs

(***************************************************************************)
(* The inductive invariant                                                 *)
(***************************************************************************)

\* What the tables hold of a withdrawal, of an order and of the approval page.
Rows ==
    /\ \A w \in Withdraw : withdraw[w] # NULL =>
          withdraw[w].amount > 0 /\ withdraw[w].method \in ListWithdrawMethods \cup {NULL}
    /\ \A o \in InventoryOrder : inventoryorder[o] # NULL =>
          /\ inventoryorder[o].quantity > 0
          /\ inventoryorder[o].type # "agent_topup" => inventoryorder[o].status = "settled"
    /\ \A o \in page : inventoryorder[o] # NULL /\ inventoryorder[o].type = "agent_topup"

\* What a call has read is so, for as long as nothing it decides by is out of date.
RequestFits(call) ==
    /\ call.of \in Withdraw /\ withdraw[call.of] = NULL
    /\ call.row \in WithdrawRow /\ call.row.amount > 0 /\ call.row.status = "REQUESTED"
    /\ call.stale \cap Withdraw = {} =>
          \A w \in GetOngoingWithdraws : withdraw[w].type # call.row.type
    /\ call.stale \cap InventoryOrder = {} => PendingOrders = {}

ConfirmFits(call) ==
    /\ call.of \in Withdraw /\ withdraw[call.of] # NULL
    /\ call.row \in WithdrawRow /\ call.row.status = "LOCKED"
    /\ call.row.type = withdraw[call.of].type /\ call.row.amount = withdraw[call.of].amount
    /\ call.of \notin call.stale => withdraw[call.of].status = "LOCKED"

OrderFits(call, type, status) ==
    /\ call.of \in InventoryOrder /\ inventoryorder[call.of] = NULL
    /\ call.row \in InventoryRow /\ call.row.quantity > 0
    /\ call.row.type = type /\ call.row.status = status
    /\ call.stale \cap Withdraw = {} => GetOngoingWithdraws = {}

TopUpFits(call) ==
    /\ OrderFits(call, "agent_topup", "pending")
    /\ call.stale \cap InventoryOrder = {} => PendingOrders = {}

PurchaseFits(call) ==
    /\ OrderFits(call, "from_balance", "settled")
    /\ "account" \notin call.stale => call.account = account

ApproveFits(call) ==
    /\ call.of \in InventoryOrder /\ inventoryorder[call.of] # NULL
    /\ inventoryorder[call.of].type = "agent_topup"
    /\ call.row \in InventoryRow /\ call.row.quantity > 0
    /\ call.of \notin call.stale =>
          inventoryorder[call.of].status = "pending" /\ inventoryorder[call.of].quantity = call.row.quantity

Fits(call) ==
    /\ call.kind = "request"  => RequestFits(call)
    /\ call.kind = "confirm"  => ConfirmFits(call)
    /\ call.kind = "topup"    => TopUpFits(call)
    /\ call.kind = "purchase" => PurchaseFits(call)
    /\ call.kind = "approve"  => ApproveFits(call)

CallsFit == \A s \in Session : session[s] # NULL => Fits(session[s])

\* An id that is to be inserted is one call's.
NewIds ==
    \A s, t \in Session :
        /\ session[s] # NULL /\ session[t] # NULL /\ session[s].of = session[t].of
        /\ session[s].kind \in {"request", "topup", "purchase"}
        => s = t

\* The rows a withdrawal is paid with.
DebitRows(row) ==
    IF row.type = "partition" THEN [c \in Column |-> IF c \in Side THEN -CeilHalf(row.amount) ELSE 0]
    ELSE [NoRows EXCEPT ![IF row.type = "triple" THEN "balancetriple" ELSE "balance"] = -row.amount]

PostedBy(k, rows) == \A c \in Column : posted[<<k, c>>] = rows[c]

PostedWhy ==
    /\ \A w \in Withdraw : withdraw[w] = NULL => PostedBy(w, NoRows)
    /\ <<"confirm", "withdraw">> \notin raced =>
          \A w \in Withdraw : withdraw[w] # NULL =>
              PostedBy(w, IF withdraw[w].status = "PAID" THEN DebitRows(withdraw[w]) ELSE NoRows)
    /\ \A o \in InventoryOrder :
          inventoryorder[o] = NULL \/ inventoryorder[o].type # "from_balance" => PostedBy(o, NoRows)

\* Units: none of an order that is not there, some of one that has settled.
UnitsWhy ==
    /\ stock = SumFunctionOnSet(history, InventoryOrder)
    /\ \A o \in InventoryOrder :
          /\ inventoryorder[o] = NULL => history[o] = 0
          /\ inventoryorder[o] # NULL /\ inventoryorder[o].status = "settled" => history[o] > 0

\* Two top-ups wait only when they overlapped.
OneTopUp ==
    <<"topup", "inventoryorder">> \notin raced => \A o, p \in PendingOrders : o = p

IInv ==
    /\ TypeOK /\ Rows /\ CallsFit /\ NewIds
    /\ PostedWhy /\ PurchasePaysPrice /\ UnitsWhy /\ UnitsGrantedOnce
    /\ OpenAlone /\ OneTopUp /\ LedgerMatches

USE WalletAssumption

-----------------------------------------------------------------------------
(***************************************************************************)
(* Sums over the columns and over the causes                               *)
(***************************************************************************)

LEMMA ColumnsFinite == IsFiniteSet(Column)
<1>1. /\ IsFiniteSet({"balance"}) /\ IsFiniteSet({"balancetriple"})
      /\ IsFiniteSet({"balanceleft"}) /\ IsFiniteSet({"balanceright"})
  BY FS_Singleton
<1>2. IsFiniteSet({"balance"} \cup {"balancetriple"}) /\ IsFiniteSet({"balanceleft"} \cup {"balanceright"})
  BY <1>1, FS_Union
<1>3. Column = ({"balance"} \cup {"balancetriple"}) \cup ({"balanceleft"} \cup {"balanceright"})
  BY DEF Column
<1> QED
  BY <1>2, <1>3, FS_Union

LEMMA SumOfColumns ==
    ASSUME NEW f \in [Column -> Int]
    PROVE  SumFunction(f) = f["balance"] + f["balancetriple"] + f["balanceleft"] + f["balanceright"]
<1> DEFINE S1 == {"balanceright"}
           S2 == {"balanceleft", "balanceright"}
           S3 == {"balancetriple", "balanceleft", "balanceright"}
           Sm(S) == SumFunctionOnSet(f, S)
<1>1. /\ Column \ {"balance"} = S3 /\ S3 \ {"balancetriple"} = S2
      /\ S2 \ {"balanceleft"} = S1 /\ S1 \ {"balanceright"} = {}
      /\ S3 \subseteq Column /\ S2 \subseteq Column /\ S1 \subseteq Column
  BY DEF Column
<1>2. \A S \in SUBSET Column : IsFiniteSet(S)
  BY ColumnsFinite, FS_Subset
<1>3. \A c \in Column : f[c] \in Int
  OBVIOUS
<1>4. \A S \in SUBSET Column : \A c \in S : Sm(S) = f[c] + Sm(S \ {c})
  BY <1>2, <1>3, SumRemove
<1>5. Sm({}) = 0
  BY SumEmpty
<1>6. /\ Sm(Column) = f["balance"] + Sm(S3)
      /\ Sm(S3) = f["balancetriple"] + Sm(S2)
      /\ Sm(S2) = f["balanceleft"] + Sm(S1)
      /\ Sm(S1) = f["balanceright"] + Sm({})
  <2>1. "balance" \in Column /\ "balancetriple" \in S3 /\ "balanceleft" \in S2 /\ "balanceright" \in S1
    BY DEF Column
  <2> HIDE DEF Sm
  <2>2. Sm(Column) = f["balance"] + Sm(Column \ {"balance"})
    BY <1>4, <2>1
  <2>3. Sm(S3) = f["balancetriple"] + Sm(S3 \ {"balancetriple"})
    BY <1>1, <1>4, <2>1
  <2>4. Sm(S2) = f["balanceleft"] + Sm(S2 \ {"balanceleft"})
    BY <1>1, <1>4, <2>1
  <2>5. Sm(S1) = f["balanceright"] + Sm(S1 \ {"balanceright"})
    BY <1>1, <1>4, <2>1
  <2> HIDE DEF S1, S2, S3
  <2> QED
    BY <1>1, <2>2, <2>3, <2>4, <2>5
<1>7. SumFunction(f) = Sm(Column)
  BY DEF SumFunction
<1>8. /\ f["balance"] \in Int /\ f["balancetriple"] \in Int
      /\ f["balanceleft"] \in Int /\ f["balanceright"] \in Int
  BY DEF Column
<1> HIDE DEF Sm, S1, S2, S3
<1> QED
  BY <1>5, <1>6, <1>7, <1>8

LEMMA CausesFinite == IsFiniteSet(Cause)
<1>1. IsFiniteSet({"settlement"}) /\ IsFiniteSet({"adjustment"})
  BY FS_Singleton
<1>2. IsFiniteSet({"settlement"} \cup {"adjustment"})
  BY <1>1, FS_Union
<1>3. IsFiniteSet(Withdraw \cup InventoryOrder)
  BY FS_Union
<1>4. Cause = (Withdraw \cup InventoryOrder) \cup ({"settlement"} \cup {"adjustment"})
  BY DEF Cause
<1> QED
  BY <1>2, <1>3, <1>4, FS_Union

\* What a posting of a cause adds to the sums.
LEMMA PostSums ==
    ASSUME TypeOK, NEW k \in Cause, NEW rows \in [Column -> Int], Post(k, rows)
    PROVE  /\ posted' \in [Cause \X Column -> Int]
           /\ \A j \in Cause, c \in Column :
                 posted'[<<j, c>>] = IF j = k THEN posted[<<j, c>>] + rows[c] ELSE posted[<<j, c>>]
           /\ \A c \in Column : PostedTo(c)' = PostedTo(c) + rows[c] /\ PostedTo(c) \in Int
<1>1. \A j \in Cause, c \in Column :
         posted'[<<j, c>>] = IF j = k THEN posted[<<j, c>>] + rows[c] ELSE posted[<<j, c>>]
  BY DEF Post
<1>2. \A j \in Cause, c \in Column : posted[<<j, c>>] \in Int
  BY DEF TypeOK
<1>3. posted' \in [Cause \X Column -> Int]
  BY DEF Post, TypeOK
<1>4. ASSUME NEW c \in Column
      PROVE  PostedTo(c)' = PostedTo(c) + rows[c] /\ PostedTo(c) \in Int
  <2> DEFINE f == [j \in Cause |-> posted[<<j, c>>]]
             g == [j \in Cause |-> posted'[<<j, c>>]]
  <2>1. \A j \in Cause : f[j] \in Int /\ g[j] \in Int
    BY <1>1, <1>2
  <2>2. \A j \in Cause \ {k} : g[j] = f[j]
    BY <1>1
  <2>3. g[k] - f[k] = rows[c] /\ rows[c] \in Int
    BY <1>1, <1>2
  <2>4. DOMAIN f = Cause /\ DOMAIN g = Cause
    OBVIOUS
  <2>5. PostedTo(c) = SumFunctionOnSet(f, Cause) /\ PostedTo(c)' = SumFunctionOnSet(g, Cause)
    BY DEF PostedTo, SumFunction
  <2> HIDE DEF f, g
  <2>6. SumFunctionOnSet(g, Cause) = SumFunctionOnSet(f, Cause) + (g[k] - f[k])
    BY <2>1, <2>2, CausesFinite, SumChange
  <2>7. SumFunctionOnSet(f, Cause) \in Int
    BY <2>1, CausesFinite, SumInt
  <2> QED
    BY <2>3, <2>5, <2>6, <2>7
<1> QED
  BY <1>1, <1>3, <1>4

\* The rows of one cause.
LEMMA PostedOfSum ==
    ASSUME NEW p \in [Cause \X Column -> Int], NEW k \in Cause
    PROVE  SumFunction([c \in Column |-> p[<<k, c>>]])
              = p[<<k, "balance">>] + p[<<k, "balancetriple">>]
                + p[<<k, "balanceleft">>] + p[<<k, "balanceright">>]
<1> DEFINE f == [c \in Column |-> p[<<k, c>>]]
<1>1. f \in [Column -> Int]
  OBVIOUS
<1>2. /\ f["balance"] = p[<<k, "balance">>] /\ f["balancetriple"] = p[<<k, "balancetriple">>]
      /\ f["balanceleft"] = p[<<k, "balanceleft">>] /\ f["balanceright"] = p[<<k, "balanceright">>]
  BY DEF Column
<1> HIDE DEF f
<1>3. SumFunction(f) = p[<<k, "balance">>] + p[<<k, "balancetriple">>]
                       + p[<<k, "balanceleft">>] + p[<<k, "balanceright">>]
  BY <1>1, <1>2, SumOfColumns
<1> QED
  BY <1>3 DEF f

-----------------------------------------------------------------------------
(***************************************************************************)
(* Calls that begin and end                                                *)
(***************************************************************************)

Tables == {"account"} \cup Withdraw \cup InventoryOrder

\* Who goes on after a call has written, or another change has committed, has read the
\* same, and knows of the rows that are out of date now.
LEMMA OutdateCalls ==
    ASSUME TypeOK, NEW s, NEW rows \in SUBSET Tables, Outdate(s, rows)
    PROVE  /\ session' \in [Session -> Call \cup {NULL}]
           /\ \A t \in Session : session'[t] # NULL =>
                 /\ t # s /\ session[t] # NULL /\ session[t] \in Call /\ session'[t] \in Call
                 /\ session'[t].kind = session[t].kind /\ session'[t].of = session[t].of
                 /\ session'[t].row = session[t].row /\ session'[t].account = session[t].account
                 /\ session'[t].stale = session[t].stale \cup rows
<1>1. \A t \in Session : session[t] \in Call \cup {NULL}
  BY DEF TypeOK
<1>2. ASSUME NEW t \in Session, session[t] # NULL, NEW c, c = [session[t] EXCEPT !.stale = @ \cup rows]
      PROVE  /\ c \in Call /\ c.kind = session[t].kind /\ c.of = session[t].of
             /\ c.row = session[t].row /\ c.account = session[t].account
             /\ c.stale = session[t].stale \cup rows
  BY <1>1, <1>2 DEF Call, Tables
<1>3. \A t \in Session :
         session'[t] = IF t = s \/ session[t] = NULL THEN NULL ELSE [session[t] EXCEPT !.stale = @ \cup rows]
  BY DEF Outdate
<1>4. session' = [t \in Session |-> session'[t]]
  BY DEF Outdate
<1> QED
  BY <1>1, <1>2, <1>3, <1>4

\* What a call notes when it writes.
LEMMA NoteRaceNotes ==
    ASSUME TypeOK, NEW s \in Session, session[s] # NULL, NoteRace(s)
    PROVE  /\ raced \subseteq raced'
           /\ raced' \subseteq {"request", "confirm", "topup", "purchase", "approve"}
                               \X {"account", "withdraw", "inventoryorder"}
           /\ \A x \in session[s].stale \cap Decisive(session[s]) : <<session[s].kind, TableOf(x)>> \in raced'
<1>1. session[s] \in Call
  BY DEF TypeOK
<1>2. \A x : TableOf(x) \in {"account", "withdraw", "inventoryorder"}
  BY DEF TableOf
<1>3. session[s].kind \in {"request", "confirm", "topup", "purchase", "approve"}
  BY <1>1 DEF Call
<1> QED
  BY <1>2, <1>3 DEF NoteRace, TypeOK

LEMMA TableOfRow ==
    /\ TableOf("account") = "account"
    /\ \A w \in Withdraw : TableOf(w) = "withdraw"
    /\ \A o \in InventoryOrder : TableOf(o) = "inventoryorder"
BY DEF TableOf

\* A call may begin when what it has read fits, and the id it is about is no other's.
LEMMA BeginIInv ==
    ASSUME IInv, NEW s \in Session, NEW kind, NEW of, NEW row, Begin(s, kind, of, row),
           NEW call, call = [kind |-> kind, of |-> of, row |-> row, stale |-> {},
                             account |-> IF kind = "purchase" THEN account ELSE NoRows],
           call \in Call, Fits(call),
           \A t \in Session : session[t] # NULL =>
               \/ session[t].of # of
               \/ kind \notin {"request", "topup", "purchase"}
                  /\ session[t].kind \notin {"request", "topup", "purchase"}
    PROVE  IInv'
<1> DEFINE K == {"request", "topup", "purchase"}
<1>1. /\ session' = [session EXCEPT ![s] = call] /\ calls' = calls + 1 /\ calls < MaxCalls
      /\ UNCHANGED <<account, withdraw, inventoryorder, stock, history, posted, userwithdrawmethod,
                     page, moves, raced>>
      /\ session[s] = NULL
  BY DEF Begin
<1>2. TypeOK'
  BY <1>1 DEF IInv, TypeOK
<1>3. session'[s] = call /\ \A t \in Session \ {s} : session'[t] = session[t]
  BY <1>1 DEF IInv, TypeOK
<1>4. \A c : Fits(c)' <=> Fits(c)
  BY <1>1 DEF Fits, RequestFits, ConfirmFits, OrderFits, TopUpFits, PurchaseFits, ApproveFits,
              GetOngoingWithdraws, PendingOrders
<1>5. CallsFit'
  <2> SUFFICES ASSUME NEW t \in Session, session'[t] # NULL PROVE Fits(session'[t])
    BY <1>4 DEF CallsFit
  <2> QED
    BY <1>3 DEF IInv, CallsFit
<1>6. NewIds'
  <2> SUFFICES ASSUME NEW t \in Session, NEW u \in Session, session'[t] # NULL, session'[u] # NULL,
                      session'[t].of = session'[u].of, session'[t].kind \in K
               PROVE  t = u
    BY DEF NewIds
  <2>1. call.of = of /\ call.kind = kind
    OBVIOUS
  <2>2. CASE t # s /\ u # s
    BY <2>2, <1>3 DEF IInv, NewIds
  <2>3. CASE t = s \/ u = s
    BY <2>1, <2>3, <1>3
  <2> QED
    BY <2>2, <2>3
<1>7. Rows' /\ OpenAlone' /\ OneTopUp'
  BY <1>1 DEF IInv, Rows, OpenAlone, OneTopUp, ListWithdrawMethods, GetOngoingWithdraws, PendingOrders
<1>8. PostedWhy'
  BY <1>1 DEF IInv, PostedWhy, PostedBy, NoRows, DebitRows
<1>9. UnitsWhy' /\ UnitsGrantedOnce'
  BY <1>1 DEF IInv, UnitsWhy, UnitsGrantedOnce
<1>10. PurchasePaysPrice' /\ LedgerMatches'
  BY <1>1 DEF IInv, PurchasePaysPrice, PostedOf, LedgerMatches, PostedTo, HalvedCauses
<1> QED
  BY <1>2, <1>5, <1>6, <1>7, <1>10, <1>8, <1>9 DEF IInv

\* A payment moves what is open by what it takes only.
LEMMA OpenOnes ==
    /\ \A w \in Withdraw : w \in GetOngoingWithdraws <=>
          withdraw[w] # NULL /\ withdraw[w].status \in {"REQUESTED", "LOCKED"}
    /\ \A o \in InventoryOrder : o \in PendingOrders <=>
          inventoryorder[o] # NULL /\ inventoryorder[o].status = "pending"
BY DEF GetOngoingWithdraws, PendingOrders

LEMMA CreateWithdrawIInv ==
    ASSUME IInv, NEW s \in Session, NEW w \in Withdraw, NEW type \in Withdrawtype, NEW x \in Amounts,
           NEW m \in Method \cup {NULL}, CreateWithdraw(s, w, type, x, m)
    PROVE  IInv'
<1> DEFINE row == [type |-> type, amount |-> x, method |-> m, status |-> "REQUESTED"]
           call == [kind |-> "request", of |-> w, row |-> row, stale |-> {}, account |-> NoRows]
<1>1. /\ withdraw[w] = NULL /\ ~ Busy(w) /\ MayRequest(type, x) /\ Begin(s, "request", w, row)
  BY DEF CreateWithdraw
<1>2. row \in WithdrawRow /\ row.amount > 0 /\ row.status = "REQUESTED" /\ row.type = type
  BY DEF WithdrawRow, WithdrawStatus
<1>3. NoRows \in [Column -> Int]
  BY DEF NoRows
<1>4. call \in Call
  BY <1>2, <1>3 DEF Call
<1>5. PendingOrders = {}
  BY <1>1 DEF MayRequest
<1>6. GetOngoingWithdrawAmount(type).no_pending
  BY <1>1 DEF MayRequest
<1>7. {v \in GetOngoingWithdraws : withdraw[v].type = type} = {}
  BY <1>6 DEF GetOngoingWithdrawAmount
<1>8. RequestFits(call)
  BY <1>1, <1>2, <1>5, <1>7 DEF RequestFits
<1>9. Fits(call)
  BY <1>8 DEF Fits
<1>10. \A t \in Session : session[t] # NULL => session[t].of # w
  BY <1>1 DEF Busy
<1> HIDE DEF row
<1>11. call = [kind |-> "request", of |-> w, row |-> row, stale |-> {},
               account |-> IF "request" = "purchase" THEN account ELSE NoRows]
  OBVIOUS
<1> HIDE DEF call
<1> QED
  BY <1>1, <1>4, <1>9, <1>10, <1>11, BeginIInv

LEMMA ConfirmWithdrawIInv ==
    ASSUME IInv, NEW s \in Session, NEW w \in Withdraw, ConfirmWithdraw(s, w)
    PROVE  IInv'
<1> DEFINE row == withdraw[w]
           call == [kind |-> "confirm", of |-> w, row |-> row, stale |-> {}, account |-> NoRows]
<1>1. withdraw[w] # NULL /\ withdraw[w].status = "LOCKED" /\ Begin(s, "confirm", w, row)
  BY DEF ConfirmWithdraw
<1>2. row \in WithdrawRow /\ NoRows \in [Column -> Int]
  BY <1>1 DEF IInv, TypeOK, NoRows
<1>3. call \in Call
  BY <1>2 DEF Call
<1>4. Fits(call)
  BY <1>1, <1>2 DEF Fits, ConfirmFits
<1>5. \A t \in Session : session[t] # NULL =>
         session[t].of # w \/ session[t].kind \notin {"request", "topup", "purchase"}
  BY <1>1 DEF IInv, CallsFit, Fits, RequestFits, TopUpFits, PurchaseFits, OrderFits
<1> HIDE DEF row
<1>6. call = [kind |-> "confirm", of |-> w, row |-> row, stale |-> {},
              account |-> IF "confirm" = "purchase" THEN account ELSE NoRows]
  OBVIOUS
<1> HIDE DEF call
<1> QED
  BY <1>1, <1>3, <1>4, <1>5, <1>6, BeginIInv

\* No id of an order that is not there is about another call.
LEMMA MayOrderFree ==
    ASSUME NEW o \in InventoryOrder, MayOrder(o)
    PROVE  /\ inventoryorder[o] = NULL /\ GetOngoingWithdraws = {}
           /\ \A t \in Session : session[t] # NULL => session[t].of # o
BY DEF MayOrder, Busy

LEMMA TopUpIInv ==
    ASSUME IInv, NEW s \in Session, NEW o \in InventoryOrder, NEW q \in Quantities, TopUp(s, o, q)
    PROVE  IInv'
<1> DEFINE row == [type |-> "agent_topup", quantity |-> q, status |-> "pending"]
           call == [kind |-> "topup", of |-> o, row |-> row, stale |-> {}, account |-> NoRows]
<1>1. ListInventoriesForHQ = {} /\ MayOrder(o) /\ Begin(s, "topup", o, row)
  BY DEF TopUp
<1>2. PendingOrders = {}
  BY <1>1 DEF ListInventoriesForHQ, PendingOrders, IInv, Rows
<1>3. row \in InventoryRow /\ row.quantity > 0 /\ NoRows \in [Column -> Int]
  BY DEF InventoryRow, Inventoryordertype, Inventoryorderstatus, NoRows
<1>4. call \in Call
  BY <1>3 DEF Call
<1>5. Fits(call)
  BY <1>1, <1>2, <1>3, MayOrderFree DEF Fits, TopUpFits, OrderFits
<1> HIDE DEF row
<1>6. call = [kind |-> "topup", of |-> o, row |-> row, stale |-> {},
              account |-> IF "topup" = "purchase" THEN account ELSE NoRows]
  OBVIOUS
<1> HIDE DEF call
<1> QED
  BY <1>1, <1>4, <1>5, <1>6, MayOrderFree, BeginIInv

LEMMA PurchaseIInv ==
    ASSUME IInv, NEW s \in Session, NEW o \in InventoryOrder, NEW q \in Quantities, Purchase(s, o, q)
    PROVE  IInv'
<1> DEFINE row == [type |-> "from_balance", quantity |-> q, status |-> "settled"]
           call == [kind |-> "purchase", of |-> o, row |-> row, stale |-> {}, account |-> account]
<1>1. MayOrder(o) /\ Begin(s, "purchase", o, row)
  BY DEF Purchase
<1>2. row \in InventoryRow /\ row.quantity > 0 /\ account \in [Column -> Int]
  BY DEF InventoryRow, Inventoryordertype, Inventoryorderstatus, IInv, TypeOK
<1>3. call \in Call
  BY <1>2 DEF Call
<1>4. Fits(call)
  BY <1>1, <1>2, MayOrderFree DEF Fits, PurchaseFits, OrderFits
<1> HIDE DEF row
<1>5. call = [kind |-> "purchase", of |-> o, row |-> row, stale |-> {},
              account |-> IF "purchase" = "purchase" THEN account ELSE NoRows]
  OBVIOUS
<1> HIDE DEF call
<1> QED
  BY <1>1, <1>3, <1>4, <1>5, MayOrderFree, BeginIInv

LEMMA ConfirmInventoryOrderIInv ==
    ASSUME IInv, NEW s \in Session, NEW o \in InventoryOrder, ConfirmInventoryOrder(s, o)
    PROVE  IInv'
<1> DEFINE row == inventoryorder[o]
           call == [kind |-> "approve", of |-> o, row |-> row, stale |-> {}, account |-> NoRows]
<1>1. o \in page /\ row.status = "pending" /\ row.type = "agent_topup" /\ Begin(s, "approve", o, row)
  BY DEF ConfirmInventoryOrder
<1>2. row # NULL /\ row \in InventoryRow /\ row.quantity > 0 /\ NoRows \in [Column -> Int]
  BY <1>1 DEF IInv, TypeOK, Rows, NoRows
<1>3. call \in Call
  BY <1>2 DEF Call
<1>4. Fits(call)
  BY <1>1, <1>2 DEF Fits, ApproveFits
<1>5. \A t \in Session : session[t] # NULL =>
         session[t].of # o \/ session[t].kind \notin {"request", "topup", "purchase"}
  BY <1>2 DEF IInv, CallsFit, Fits, RequestFits, TopUpFits, PurchaseFits, OrderFits
<1> HIDE DEF row
<1>6. call = [kind |-> "approve", of |-> o, row |-> row, stale |-> {},
              account |-> IF "approve" = "purchase" THEN account ELSE NoRows]
  OBVIOUS
<1> HIDE DEF call
<1> QED
  BY <1>1, <1>3, <1>4, <1>5, <1>6, BeginIInv

-----------------------------------------------------------------------------
(***************************************************************************)
(* What a step leaves alone                                                *)
(***************************************************************************)

LEMMA LedgerStays ==
    ASSUME IInv, UNCHANGED <<account, posted>>, raced \subseteq raced'
    PROVE  LedgerMatches'
<1>1. \A c \in Column : PostedTo(c)' = PostedTo(c)
  BY DEF PostedTo
<1>2. HalvedCauses' = HalvedCauses
  BY DEF HalvedCauses
<1>3. \A S : S \cap raced' = {} => S \cap raced = {}
  OBVIOUS
<1>4. \A c \in Side : c \in Column
  BY DEF Side, Column
<1> QED
  BY <1>1, <1>2, <1>3, <1>4 DEF IInv, LedgerMatches

LEMMA OrdersStay ==
    ASSUME IInv, UNCHANGED <<inventoryorder, stock, history, posted>>, raced \subseteq raced'
    PROVE  UnitsWhy' /\ UnitsGrantedOnce' /\ PurchasePaysPrice' /\ OneTopUp'
<1>1. UnitsWhy' /\ UnitsGrantedOnce'
  BY DEF IInv, UnitsWhy, UnitsGrantedOnce
<1>2. PurchasePaysPrice'
  BY DEF IInv, PurchasePaysPrice, PostedOf
<1>3. OneTopUp'
  BY DEF IInv, OneTopUp, PendingOrders
<1> QED
  BY <1>1, <1>2, <1>3

LEMMA NewIdsStay ==
    ASSUME NewIds,
           \A t \in Session : session'[t] # NULL =>
               session[t] # NULL /\ session'[t].kind = session[t].kind /\ session'[t].of = session[t].of
    PROVE  NewIds'
BY DEF NewIds

-----------------------------------------------------------------------------
(***************************************************************************)
(* Withdrawals and cards                                                   *)
(***************************************************************************)

\* A row is inserted, or changes its status: the calls that have read of it know.
WithdrawChanges(w) ==
    /\ withdraw' \in [Withdraw -> WithdrawRow \cup {NULL}]
    /\ withdraw'[w] # NULL
    /\ withdraw[w] # NULL => withdraw'[w].type = withdraw[w].type /\ withdraw'[w].amount = withdraw[w].amount
    /\ \A v \in Withdraw \ {w} : withdraw'[v] = withdraw[v]

\* Calls fit still when one withdrawal changes, and the columns of the account may.
LEMMA WithdrawCallsFit ==
    ASSUME IInv, NEW s, NEW w \in Withdraw, WithdrawChanges(w),
           NEW rows \in SUBSET Tables, w \in rows, Outdate(s, rows),
           \/ withdraw[w] # NULL
           \/ \A t \in Session : t # s /\ session[t] # NULL /\ session[t].kind = "request" => session[t].of # w,
           "account" \in rows \/ UNCHANGED account,
           UNCHANGED <<inventoryorder>>
    PROVE  CallsFit' /\ NewIds'
<1>1. TypeOK /\ CallsFit /\ NewIds
  BY DEF IInv
<1>2. \A t \in Session : session'[t] # NULL =>
         /\ t # s /\ session[t] # NULL /\ session[t] \in Call /\ session'[t] \in Call
         /\ session'[t].kind = session[t].kind /\ session'[t].of = session[t].of
         /\ session'[t].row = session[t].row /\ session'[t].account = session[t].account
         /\ session'[t].stale = session[t].stale \cup rows
  BY <1>1, OutdateCalls
<1>3. ASSUME NEW t \in Session, session'[t] # NULL PROVE Fits(session[t])'
  <2> DEFINE c == session[t]
  <2>1. /\ t # s /\ c # NULL /\ c'.kind = c.kind /\ c'.of = c.of /\ c'.row = c.row /\ c'.account = c.account
        /\ c'.stale = c.stale \cup rows /\ Fits(c)
    BY <1>1, <1>2, <1>3 DEF CallsFit
  <2>2. w \in c'.stale \cap Withdraw
    BY <2>1
  <2>3. ASSUME c.kind = "request" PROVE RequestFits(c)'
    <3>1. RequestFits(c)
      BY <2>1, <2>3 DEF Fits
    <3>2. c.of # w
      BY <2>1, <2>3, <3>1 DEF RequestFits
    <3> QED
      BY <2>1, <2>2, <3>1, <3>2 DEF RequestFits, WithdrawChanges, PendingOrders
  <2>4. ASSUME c.kind = "confirm" PROVE ConfirmFits(c)'
    <3>1. ConfirmFits(c)
      BY <2>1, <2>4 DEF Fits
    <3> QED
      BY <2>1, <2>2, <3>1 DEF ConfirmFits, WithdrawChanges
  <2>5. ASSUME c.kind = "topup" PROVE TopUpFits(c)'
    <3>1. TopUpFits(c)
      BY <2>1, <2>5 DEF Fits
    <3> QED
      BY <2>1, <2>2, <3>1 DEF TopUpFits, OrderFits, PendingOrders
  <2>6. ASSUME c.kind = "purchase" PROVE PurchaseFits(c)'
    <3>1. PurchaseFits(c)
      BY <2>1, <2>6 DEF Fits
    <3> QED
      BY <2>1, <2>2, <3>1 DEF PurchaseFits, OrderFits
  <2>7. ASSUME c.kind = "approve" PROVE ApproveFits(c)'
    <3>1. ApproveFits(c)
      BY <2>1, <2>7 DEF Fits
    <3> QED
      BY <2>1, <3>1 DEF ApproveFits
  <2> QED
    BY <2>1, <2>3, <2>4, <2>5, <2>6, <2>7 DEF Fits
<1>4. NewIds'
  BY <1>1, <1>2, NewIdsStay
<1> QED
  BY <1>3, <1>4 DEF CallsFit

LEMMA InsertWithdrawIInv ==
    ASSUME IInv, NEW s \in Session, InsertWithdraw(s)
    PROVE  IInv'
<1> DEFINE w == session[s].of
           row == session[s].row
<1>1. /\ session[s] # NULL /\ session[s].kind = "request" /\ MethodFound(row.method)
      /\ withdraw' = [withdraw EXCEPT ![w] = row]
      /\ Outdate(s, {w}) /\ NoteRace(s)
      /\ UNCHANGED <<account, inventoryorder, stock, history, posted, userwithdrawmethod, page, moves, calls>>
  BY DEF InsertWithdraw
<1>2. TypeOK /\ RequestFits(session[s])
  BY <1>1 DEF IInv, CallsFit, Fits
<1>3. /\ w \in Withdraw /\ withdraw[w] = NULL
      /\ row \in WithdrawRow /\ row.amount > 0 /\ row.status = "REQUESTED"
      /\ row # NULL /\ row.type \in Withdrawtype
  BY <1>2 DEF RequestFits, WithdrawRow
<1>4. /\ withdraw' \in [Withdraw -> WithdrawRow \cup {NULL}]
      /\ withdraw'[w] = row /\ \A v \in Withdraw \ {w} : withdraw'[v] = withdraw[v]
  BY <1>1, <1>2, <1>3 DEF TypeOK
<1>5. {w} \in SUBSET Tables
  BY <1>3 DEF Tables
<1>6. /\ raced \subseteq raced'
      /\ raced' \subseteq {"request", "confirm", "topup", "purchase", "approve"}
                          \X {"account", "withdraw", "inventoryorder"}
      /\ \A x \in session[s].stale \cap Decisive(session[s]) : <<session[s].kind, TableOf(x)>> \in raced'
  BY <1>1, <1>2, NoteRaceNotes
<1>7. session' \in [Session -> Call \cup {NULL}]
  BY <1>1, <1>2, <1>5, OutdateCalls
<1>8. TypeOK'
  BY <1>1, <1>2, <1>4, <1>6, <1>7 DEF TypeOK
<1>9. Rows'
  BY <1>1, <1>3, <1>4 DEF IInv, Rows, MethodFound, ListWithdrawMethods
<1>10. \A t \in Session : t # s /\ session[t] # NULL /\ session[t].kind = "request" => session[t].of # w
  BY <1>1 DEF IInv, NewIds
<1>11. CallsFit' /\ NewIds'
  <2>1. WithdrawChanges(w)
    BY <1>3, <1>4 DEF WithdrawChanges
  <2> HIDE DEF w
  <2> QED
    BY <1>1, <1>3, <1>5, <1>10, <2>1, WithdrawCallsFit
<1>12. PostedWhy'
  <2>1. \A v \in Withdraw : PostedBy(v, NoRows)' <=> PostedBy(v, NoRows)
    BY <1>1 DEF PostedBy, NoRows
  <2>2. PostedBy(w, NoRows)
    BY <1>3 DEF IInv, PostedWhy
  <2> QED
    BY <1>1, <1>3, <1>4, <1>6, <2>1, <2>2 DEF IInv, PostedWhy, PostedBy, NoRows, DebitRows
<1>13. OpenAlone'
  <2>1. Decisive(session[s]) = Tables
    BY <1>1 DEF Decisive, Tables
  <2>2. GetOngoingWithdraws' = GetOngoingWithdraws \cup {w} /\ PendingOrders' = PendingOrders
    BY <1>1, <1>3, <1>4 DEF GetOngoingWithdraws, PendingOrders
  <2>3. ASSUME <<"request", "withdraw">> \notin raced'
        PROVE  \A v \in GetOngoingWithdraws : withdraw[v].type # row.type
    <3>1. session[s].stale \cap Withdraw = {}
      BY <1>1, <1>6, <2>1, <2>3, TableOfRow DEF Tables
    <3> QED
      BY <1>2, <3>1 DEF RequestFits
  <2>4. ASSUME <<"request", "inventoryorder">> \notin raced' PROVE PendingOrders = {}
    <3>1. session[s].stale \cap InventoryOrder = {}
      BY <1>1, <1>6, <2>1, <2>4, TableOfRow DEF Tables
    <3> QED
      BY <1>2, <3>1 DEF RequestFits
  <2>5. GetOngoingWithdraws \subseteq Withdraw
    BY DEF GetOngoingWithdraws
  <2> HIDE DEF w, row
  <2>6. <<"request", "withdraw">> \notin raced' =>
           \A v, u \in GetOngoingWithdraws' : withdraw'[v].type = withdraw'[u].type => v = u
    BY <1>4, <1>6, <2>2, <2>3, <2>5 DEF IInv, OpenAlone
  <2>7. {<<"request", "inventoryorder">>, <<"topup", "withdraw">>} \cap raced' = {} => PendingOrders' = {}
    BY <2>2, <2>4
  <2> QED
    BY <2>6, <2>7 DEF OpenAlone
<1>14. UnitsWhy' /\ UnitsGrantedOnce' /\ PurchasePaysPrice' /\ OneTopUp'
  BY <1>1, <1>6, OrdersStay
<1>15. LedgerMatches'
  BY <1>1, <1>6, LedgerStays
<1> QED
  BY <1>8, <1>9, <1>11, <1>12, <1>13, <1>14, <1>15 DEF IInv

LEMMA UpdateWithdrawStatusIInv ==
    ASSUME IInv, NEW w \in Withdraw, NEW status \in WithdrawStatus, UpdateWithdrawStatus(w, status)
    PROVE  IInv'
<1>1. /\ withdraw[w] # NULL /\ withdraw[w].status \in {"REQUESTED", "LOCKED"}
      /\ status \in {"LOCKED", "DECLINED"}
      /\ withdraw' = [withdraw EXCEPT ![w].status = status] /\ Outdate(NULL, {w})
      /\ UNCHANGED <<account, inventoryorder, stock, history, posted, userwithdrawmethod, page, moves, calls, raced>>
  BY DEF UpdateWithdrawStatus
<1>2. TypeOK
  BY DEF IInv
<1>3. withdraw[w] \in WithdrawRow
  BY <1>1, <1>2 DEF TypeOK
<1>4. /\ withdraw' \in [Withdraw -> WithdrawRow \cup {NULL}]
      /\ \A v \in Withdraw \ {w} : withdraw'[v] = withdraw[v]
      /\ withdraw'[w] \in WithdrawRow /\ withdraw'[w] # NULL
      /\ withdraw'[w].status = status /\ withdraw'[w].type = withdraw[w].type
      /\ withdraw'[w].amount = withdraw[w].amount /\ withdraw'[w].method = withdraw[w].method
  BY <1>1, <1>2, <1>3 DEF TypeOK, WithdrawRow
<1>5. {w} \in SUBSET Tables
  BY DEF Tables
<1>6. session' \in [Session -> Call \cup {NULL}]
  BY <1>1, <1>2, <1>5, OutdateCalls
<1>7. TypeOK'
  BY <1>1, <1>2, <1>4, <1>6 DEF TypeOK
<1>8. Rows'
  BY <1>1, <1>4 DEF IInv, Rows, ListWithdrawMethods
<1>9. CallsFit' /\ NewIds'
  <2>1. WithdrawChanges(w)
    BY <1>4 DEF WithdrawChanges
  <2> QED
    BY <1>1, <1>5, <2>1, WithdrawCallsFit
<1>10. PostedWhy'
  <2>1. \A v \in Withdraw : PostedBy(v, NoRows)' <=> PostedBy(v, NoRows)
    BY <1>1 DEF PostedBy, NoRows
  <2>2. <<"confirm", "withdraw">> \notin raced => PostedBy(w, NoRows)
    BY <1>1 DEF IInv, PostedWhy
  <2> QED
    BY <1>1, <1>4, <2>1, <2>2 DEF IInv, PostedWhy, PostedBy, NoRows, DebitRows
<1>11. OpenAlone'
  <2>1. GetOngoingWithdraws' \subseteq GetOngoingWithdraws /\ PendingOrders' = PendingOrders
    BY <1>1, <1>4 DEF GetOngoingWithdraws, PendingOrders
  <2>2. \A v \in Withdraw : withdraw[v] # NULL => withdraw'[v].type = withdraw[v].type
    BY <1>4
  <2>3. \A v \in GetOngoingWithdraws : v \in Withdraw /\ withdraw[v] # NULL
    BY DEF GetOngoingWithdraws
  <2> QED
    BY <1>1, <2>1, <2>2, <2>3 DEF IInv, OpenAlone
<1>12. UnitsWhy' /\ UnitsGrantedOnce' /\ PurchasePaysPrice' /\ OneTopUp'
  BY <1>1, OrdersStay
<1>13. LedgerMatches'
  BY <1>1, LedgerStays
<1> QED
  BY <1>7, <1>8, <1>9, <1>10, <1>11, <1>12, <1>13 DEF IInv

\* Cards, and a request that is refused: no table that calls read of changes.
LEMMA CardsIInv ==
    ASSUME IInv,
           UNCHANGED <<account, withdraw, inventoryorder, stock, history, posted, page, moves, raced>>,
           userwithdrawmethod' \in [Method -> Card \cup {NULL, DELETED}],
           calls' \in 0..MaxCalls,
           \A m \in Method : userwithdrawmethod[m] \in Card /\ userwithdrawmethod'[m] \notin Card =>
               \A w \in Withdraw : withdraw[w] # NULL => withdraw[w].method # m,
           session' \in [Session -> Call \cup {NULL}],
           \A t \in Session : session'[t] # NULL => session'[t] = session[t]
    PROVE  IInv'
<1>1. TypeOK'
  BY DEF IInv, TypeOK
<1>2. Rows'
  <2>1. \A w \in Withdraw : withdraw[w] # NULL /\ withdraw[w].method \in ListWithdrawMethods
           => withdraw[w].method \in ListWithdrawMethods'
    BY DEF ListWithdrawMethods
  <2> QED
    BY <2>1 DEF IInv, Rows
<1>3. \A t \in Session : session'[t] # NULL => Fits(session'[t])
  BY DEF IInv, CallsFit
<1>4. \A c : Fits(c)' <=> Fits(c)
  BY DEF Fits, RequestFits, ConfirmFits, OrderFits, TopUpFits, PurchaseFits, ApproveFits,
         GetOngoingWithdraws, PendingOrders
<1>5. CallsFit'
  BY <1>3, <1>4 DEF CallsFit
<1>6. NewIds'
  BY NewIdsStay DEF IInv
<1>7. PostedWhy'
  BY DEF IInv, PostedWhy, PostedBy, NoRows, DebitRows
<1>8. OpenAlone'
  BY DEF IInv, OpenAlone, GetOngoingWithdraws, PendingOrders
<1>9. UnitsWhy' /\ UnitsGrantedOnce' /\ PurchasePaysPrice' /\ OneTopUp'
  BY OrdersStay
<1>10. LedgerMatches'
  BY LedgerStays
<1> QED
  BY <1>1, <1>2, <1>5, <1>6, <1>7, <1>8, <1>9, <1>10 DEF IInv

LEMMA CardPagesIInv ==
    ASSUME IInv, NEW m \in Method,
           \/ \E card \in Card : CreateBankWithdrawMethod(m, card) \/ UpdateBankWithdrawMethod(m, card)
           \/ DeleteWithdrawMethod(m)
    PROVE  IInv'
<1>1. /\ UNCHANGED <<account, withdraw, inventoryorder, stock, history, posted, page, moves, raced, session>>
      /\ calls < MaxCalls /\ calls' = calls + 1
  BY DEF CreateBankWithdrawMethod, UpdateBankWithdrawMethod, DeleteWithdrawMethod
<1>2. TypeOK
  BY DEF IInv
<1>3. calls' \in 0..MaxCalls /\ session' \in [Session -> Call \cup {NULL}]
  BY <1>1, <1>2 DEF TypeOK
<1>4. /\ userwithdrawmethod' \in [Method -> Card \cup {NULL, DELETED}]
      /\ \A k \in Method : userwithdrawmethod[k] \in Card /\ userwithdrawmethod'[k] \notin Card =>
             \A w \in Withdraw : withdraw[w] # NULL => withdraw[w].method # k
  BY <1>2 DEF TypeOK, CreateBankWithdrawMethod, UpdateBankWithdrawMethod, DeleteWithdrawMethod,
              ListWithdrawMethods
<1> QED
  BY <1>1, <1>3, <1>4, CardsIInv

LEMMA RefuseWithdrawIInv ==
    ASSUME IInv, NEW s \in Session, RefuseWithdraw(s)
    PROVE  IInv'
<1>1. /\ UNCHANGED <<account, withdraw, inventoryorder, stock, history, posted,
                     userwithdrawmethod, page, moves, calls, raced>>
      /\ session' = [session EXCEPT ![s] = NULL]
  BY DEF RefuseWithdraw
<1>2. TypeOK
  BY DEF IInv
<1> QED
  BY <1>1, <1>2, CardsIInv DEF TypeOK

-----------------------------------------------------------------------------
(***************************************************************************)
(* Payments                                                                *)
(***************************************************************************)

\* Half of an amount, and what rounding leaves between a side and its row.
LEMMA HalfCents ==
    ASSUME NEW b \in Int, NEW x \in Nat
    PROVE  /\ CeilHalf(x) \in Nat /\ LessHalf(b, x) \in Int
           /\ x > 0 => CeilHalf(x) > 0
           /\ 2 * CeilHalf(x) \in {x, x + 1}
           /\ LessHalf(b, x) - b + CeilHalf(x) \in 0..1
BY DEF CeilHalf, LessHalf

\* The causes that have paid half: one more when a cause that had not does.
LEMMA HalvedGrow ==
    ASSUME TypeOK, NEW k \in Withdraw \cup InventoryOrder, NEW rows \in [Column -> Int], Post(k, rows),
           posted[<<k, "balanceleft">>] = 0
    PROVE  /\ Cardinality(HalvedCauses) \in Nat
           /\ Cardinality(HalvedCauses)' =
                 IF rows["balanceleft"] # 0 THEN Cardinality(HalvedCauses) + 1 ELSE Cardinality(HalvedCauses)
<1>1. k \in Cause /\ "balanceleft" \in Column /\ Withdraw \cup InventoryOrder \subseteq Cause
  BY DEF Cause, Column
<1>2. \A j \in Cause, c \in Column :
         posted'[<<j, c>>] = IF j = k THEN posted[<<j, c>>] + rows[c] ELSE posted[<<j, c>>]
  BY <1>1, PostSums
<1>3. rows["balanceleft"] \in Int
  BY <1>1
<1>4. \A j \in Withdraw \cup InventoryOrder :
         posted'[<<j, "balanceleft">>] = IF j = k THEN rows["balanceleft"] ELSE posted[<<j, "balanceleft">>]
  BY <1>1, <1>2, <1>3
<1>5. HalvedCauses' = IF rows["balanceleft"] # 0 THEN HalvedCauses \cup {k} ELSE HalvedCauses
  BY <1>4 DEF HalvedCauses
<1>6. k \notin HalvedCauses
  BY DEF HalvedCauses
<1>7. IsFiniteSet(HalvedCauses)
  <2>1. IsFiniteSet(Withdraw \cup InventoryOrder)
    BY FS_Union
  <2> QED
    BY <2>1, FS_Subset DEF HalvedCauses
<1>8. Cardinality(HalvedCauses) \in Nat /\ Cardinality(HalvedCauses \cup {k}) = Cardinality(HalvedCauses) + 1
  BY <1>6, <1>7, FS_AddElement, FS_CardinalityType
<1>9. Cardinality(HalvedCauses)' = Cardinality(HalvedCauses')
  OBVIOUS
<1> QED
  BY <1>5, <1>8, <1>9

SideFlags == {<<"purchase", "account">>, <<"confirm", "withdraw">>}

\* A payment whose rows say what it takes, to the cent of a half, keeps the books.
LEMMA LedgerPays ==
    ASSUME IInv, raced \subseteq raced', account' \in [Column -> Int],
           NEW k \in Withdraw \cup InventoryOrder, NEW rows \in [Column -> Int], Post(k, rows),
           <<"purchase", "account">> \notin raced' =>
               \A c \in Column \ Side : account'[c] = account[c] + rows[c],
           SideFlags \cap raced' = {} =>
               /\ posted[<<k, "balanceleft">>] = 0
               /\ \A c \in Side : account'[c] - account[c] - rows[c]
                                  \in 0..(IF rows["balanceleft"] # 0 THEN 1 ELSE 0)
    PROVE  LedgerMatches'
<1>1. TypeOK /\ LedgerMatches /\ k \in Cause
  BY DEF IInv, Cause
<1>2. \A c \in Column : PostedTo(c)' = PostedTo(c) + rows[c] /\ PostedTo(c) \in Int
  BY <1>1, PostSums
<1>3. \A c \in Column : account[c] \in Int /\ account'[c] \in Int /\ Opening[c] \in Int /\ rows[c] \in Int
  BY <1>1 DEF TypeOK
<1>4. ASSUME <<"purchase", "account">> \notin raced', NEW c \in Column \ Side
      PROVE  account'[c] = Opening[c] + PostedTo(c)'
  <2>1. account[c] = Opening[c] + PostedTo(c)
    BY <1>1, <1>4 DEF LedgerMatches
  <2>2. account'[c] = account[c] + rows[c]
    BY <1>4
  <2> QED
    BY <1>2, <1>3, <2>1, <2>2
<1>5. ASSUME SideFlags \cap raced' = {}, NEW c \in Side
      PROVE  account'[c] - Opening[c] - PostedTo(c)' \in 0..Cardinality(HalvedCauses)'
  <2>1. c \in Column
    BY DEF Side, Column
  <2>2. SideFlags \cap raced = {}
    BY <1>5
  <2>3. account[c] - Opening[c] - PostedTo(c) \in 0..Cardinality(HalvedCauses)
    BY <1>1, <2>2 DEF LedgerMatches, SideFlags
  <2>4. /\ Cardinality(HalvedCauses) \in Nat
        /\ Cardinality(HalvedCauses)' =
              IF rows["balanceleft"] # 0 THEN Cardinality(HalvedCauses) + 1 ELSE Cardinality(HalvedCauses)
    BY <1>1, <1>5, HalvedGrow
  <2>5. account'[c] - account[c] - rows[c] \in 0..(IF rows["balanceleft"] # 0 THEN 1 ELSE 0)
    BY <1>5
  <2> QED
    BY <1>2, <1>3, <2>1, <2>3, <2>4, <2>5
<1> QED
  BY <1>4, <1>5 DEF LedgerMatches, SideFlags

\* The rows of another cause stay, and so does their sum.
LEMMA OthersPostings ==
    ASSUME TypeOK, NEW k \in Cause, NEW rows \in [Column -> Int], Post(k, rows),
           NEW j \in Cause, j # k
    PROVE  /\ \A c \in Column : posted'[<<j, c>>] = posted[<<j, c>>]
           /\ PostedOf(j)' = PostedOf(j)
<1>1. \A c \in Column : posted'[<<j, c>>] = posted[<<j, c>>]
  BY PostSums
<1>2. [c \in Column |-> posted'[<<j, c>>]] = [c \in Column |-> posted[<<j, c>>]]
  BY <1>1
<1> QED
  BY <1>1, <1>2 DEF PostedOf

LEMMA DebitRowsType ==
    ASSUME NEW row \in WithdrawRow
    PROVE  /\ DebitRows(row) \in [Column -> Int] /\ NoRows \in [Column -> Int]
           /\ row.type # "partition" => DebitRows(row)["balanceleft"] = 0 /\ DebitRows(row)["balanceright"] = 0
           /\ row.type = "partition" => DebitRows(row)["balanceleft"] = -CeilHalf(row.amount)
                                        /\ DebitRows(row)["balanceright"] = -CeilHalf(row.amount)
<1>1. row.amount \in Nat /\ CeilHalf(row.amount) \in Nat
  BY HalfCents DEF WithdrawRow
<1> QED
  BY <1>1 DEF DebitRows, NoRows, Column, Side

LEMMA PayWithdrawIInv ==
    ASSUME IInv, NEW s \in Session, PayWithdraw(s)
    PROVE  IInv'
<1> DEFINE w == session[s].of
           row == session[s].row
           x == row.amount
           rows == DebitRows(row)
           col == IF row.type = "triple" THEN "balancetriple" ELSE "balance"
<1>1. /\ session[s] # NULL /\ session[s].kind = "confirm"
      /\ withdraw' = [withdraw EXCEPT ![w].status = "PAID"]
      /\ Outdate(s, {"account", w}) /\ NoteRace(s)
      /\ UNCHANGED <<inventoryorder, stock, history, userwithdrawmethod, page, moves, calls>>
      /\ Post(w, rows)
      /\ account' = IF row.type = "partition" THEN Halved(account, x) ELSE Debited(account, col, x)
  BY DEF PayWithdraw, DebitRows
<1>2. TypeOK /\ ConfirmFits(session[s])
  BY <1>1 DEF IInv, CallsFit, Fits
<1>3. /\ w \in Withdraw /\ withdraw[w] # NULL /\ withdraw[w] \in WithdrawRow
      /\ row \in WithdrawRow /\ row.type = withdraw[w].type /\ x = withdraw[w].amount /\ x \in Nat
      /\ w \notin session[s].stale => withdraw[w].status = "LOCKED"
  BY <1>2 DEF ConfirmFits, TypeOK, WithdrawRow
<1>4. /\ withdraw' \in [Withdraw -> WithdrawRow \cup {NULL}]
      /\ \A v \in Withdraw \ {w} : withdraw'[v] = withdraw[v]
      /\ withdraw'[w] \in WithdrawRow /\ withdraw'[w] # NULL
      /\ withdraw'[w].status = "PAID" /\ withdraw'[w].type = withdraw[w].type
      /\ withdraw'[w].amount = withdraw[w].amount /\ withdraw'[w].method = withdraw[w].method
  BY <1>1, <1>2, <1>3 DEF TypeOK, WithdrawRow, WithdrawStatus
<1>5. {"account", w} \in SUBSET Tables /\ w \in Cause /\ w \in Withdraw \cup InventoryOrder
  BY <1>3 DEF Tables, Cause
<1>6. /\ raced \subseteq raced'
      /\ raced' \subseteq {"request", "confirm", "topup", "purchase", "approve"}
                          \X {"account", "withdraw", "inventoryorder"}
      /\ \A y \in session[s].stale \cap Decisive(session[s]) : <<session[s].kind, TableOf(y)>> \in raced'
  BY <1>1, <1>2, NoteRaceNotes
<1>7. session' \in [Session -> Call \cup {NULL}]
  BY <1>1, <1>2, <1>5, OutdateCalls
<1>8. rows \in [Column -> Int]
  BY <1>3, DebitRowsType
<1>9. account' \in [Column -> Int]
  BY <1>1, <1>2, <1>3, HalfCents DEF TypeOK, Halved, Debited, Column
<1>10. posted' \in [Cause \X Column -> Int]
  <2> HIDE DEF rows, w
  <2> QED
    BY <1>1, <1>2, <1>5, <1>8, PostSums
<1>11. TypeOK'
  BY <1>1, <1>2, <1>4, <1>6, <1>7, <1>9, <1>10 DEF TypeOK
<1>12. Rows'
  <2>1. UNCHANGED <<inventoryorder, page, userwithdrawmethod>>
    BY <1>1
  <2> HIDE DEF w, row
  <2> QED
    BY <2>1, <1>4, <1>3 DEF IInv, Rows, ListWithdrawMethods
<1>13. CallsFit' /\ NewIds'
  <2>1. WithdrawChanges(w)
    BY <1>4 DEF WithdrawChanges
  <2>2. w \in {"account", w} /\ "account" \in {"account", w}
    OBVIOUS
  <2> HIDE DEF w
  <2> QED
    BY <1>1, <1>3, <1>5, <2>1, <2>2, WithdrawCallsFit
<1>14. <<"confirm", "withdraw">> \notin raced' => w \notin session[s].stale /\ PostedBy(w, NoRows)
  <2>1. w \in Decisive(session[s]) /\ TableOf(w) = "withdraw"
    BY <1>1, <1>3, TableOfRow DEF Decisive
  <2>2. <<"confirm", "withdraw">> \notin raced' => w \notin session[s].stale
    BY <1>1, <1>6, <2>1
  <2>3. w \notin session[s].stale => withdraw[w].status # "PAID"
    BY <1>3
  <2>4. <<"confirm", "withdraw">> \notin raced' => <<"confirm", "withdraw">> \notin raced
    BY <1>6
  <2> HIDE DEF w
  <2> QED
    BY <1>3, <2>2, <2>3, <2>4 DEF IInv, PostedWhy
<1>15. \A j \in Cause : j # w =>
          (\A c \in Column : posted'[<<j, c>>] = posted[<<j, c>>]) /\ PostedOf(j)' = PostedOf(j)
  <2> HIDE DEF rows, w
  <2> QED
    BY <1>1, <1>2, <1>5, <1>8, OthersPostings
<1>16. \A v \in Withdraw \cup InventoryOrder : v \in Cause
  BY DEF Cause
<1>17. PostedWhy'
  <2>1. \A c \in Column : posted'[<<w, c>>] = posted[<<w, c>>] + rows[c] /\ rows[c] \in Int
    <3> HIDE DEF rows, w
    <3> QED
      BY <1>1, <1>2, <1>5, <1>8, PostSums
  <2>2. <<"confirm", "withdraw">> \notin raced' => \A c \in Column : posted'[<<w, c>>] = DebitRows(withdraw'[w])[c]
    <3>1. DebitRows(withdraw'[w]) = rows
      BY <1>3, <1>4 DEF DebitRows
    <3>2. PostedBy(w, NoRows) => \A c \in Column : posted[<<w, c>>] = 0
      BY DEF PostedBy, NoRows
    <3> HIDE DEF rows, w
    <3> QED
      BY <1>14, <2>1, <3>1, <3>2
  <2>3. /\ \A v \in Withdraw : withdraw'[v] = NULL => PostedBy(v, NoRows)'
        /\ \A o \in InventoryOrder :
              inventoryorder'[o] = NULL \/ inventoryorder'[o].type # "from_balance" => PostedBy(o, NoRows)'
    <3> HIDE DEF w
    <3>1. w \notin InventoryOrder
      BY <1>3
    <3> QED
      BY <1>1, <1>4, <1>15, <1>16, <3>1 DEF IInv, PostedWhy, PostedBy, NoRows
  <2>4. ASSUME <<"confirm", "withdraw">> \notin raced', NEW v \in Withdraw, withdraw'[v] # NULL
        PROVE  PostedBy(v, IF withdraw[v].status = "PAID" THEN DebitRows(withdraw[v]) ELSE NoRows)'
    <3> HIDE DEF w, rows
    <3>1. CASE v = w
      BY <1>4, <2>2, <2>4, <3>1 DEF PostedBy, DebitRows, NoRows
    <3>2. CASE v # w
      <4>1. PostedBy(v, IF withdraw[v].status = "PAID" THEN DebitRows(withdraw[v]) ELSE NoRows)
        BY <1>4, <1>6, <2>4, <3>2 DEF IInv, PostedWhy
      <4>2. withdraw'[v] = withdraw[v]
        BY <1>4, <3>2
      <4> QED
        BY <1>15, <1>16, <3>2, <4>1, <4>2 DEF PostedBy, DebitRows, NoRows
    <3> QED
      BY <3>1, <3>2
  <2> QED
    BY <2>3, <2>4 DEF PostedWhy
<1>18. OpenAlone'
  <2>1. GetOngoingWithdraws' \subseteq GetOngoingWithdraws /\ PendingOrders' = PendingOrders
    BY <1>1, <1>4 DEF GetOngoingWithdraws, PendingOrders
  <2>2. \A v \in Withdraw : withdraw[v] # NULL => withdraw'[v].type = withdraw[v].type
    BY <1>4
  <2>3. \A v \in GetOngoingWithdraws : v \in Withdraw /\ withdraw[v] # NULL
    BY DEF GetOngoingWithdraws
  <2> QED
    BY <1>6, <2>1, <2>2, <2>3 DEF IInv, OpenAlone
<1>19. UnitsWhy' /\ UnitsGrantedOnce' /\ OneTopUp'
  BY <1>1, <1>6 DEF IInv, UnitsWhy, UnitsGrantedOnce, OneTopUp, PendingOrders
<1>20. PurchasePaysPrice'
  <2> HIDE DEF w
  <2>1. w \notin InventoryOrder
    BY <1>3
  <2> QED
    BY <1>1, <1>15, <1>16, <2>1 DEF IInv, PurchasePaysPrice
<1>21. LedgerMatches'
  <2>1. \A c \in Column \ Side : account'[c] = account[c] + rows[c]
    <3>1. CASE row.type = "partition"
      BY <1>1, <1>2, <3>1 DEF Halved, DebitRows, TypeOK
    <3>2. CASE row.type # "partition"
      BY <1>1, <1>2, <1>3, <3>2 DEF Debited, DebitRows, NoRows, TypeOK, Column, Side
    <3> QED
      BY <3>1, <3>2
  <2>2. \A c \in Side : account'[c] - account[c] - rows[c] \in 0..(IF rows["balanceleft"] # 0 THEN 1 ELSE 0)
    <3>1. CASE row.type = "partition"
      <4>1. \A c \in Side : account'[c] = LessHalf(account[c], x) /\ rows[c] = -CeilHalf(x) /\ account[c] \in Int
        BY <1>1, <1>2, <3>1 DEF Halved, DebitRows, TypeOK, Side, Column
      <4>2. x > 0
        BY <1>3 DEF IInv, Rows
      <4> HIDE DEF rows, x
      <4>3. CeilHalf(x) \in Nat /\ CeilHalf(x) > 0
        <5>1. 0 \in Int
          OBVIOUS
        <5> QED
          BY <1>3, <4>2, <5>1, HalfCents
      <4>4. rows["balanceleft"] # 0
        BY <4>1, <4>3 DEF Side
      <4>5. ASSUME NEW c \in Side
            PROVE  /\ LessHalf(account[c], x) - account[c] + CeilHalf(x) \in 0..1
                   /\ LessHalf(account[c], x) \in Int /\ account[c] \in Int
        <5>1. account[c] \in Int /\ x \in Nat
          BY <1>3, <4>1
        <5> QED
          BY <5>1, HalfCents
      <4> QED
        BY <4>1, <4>4, <4>5, <4>3
    <3>2. CASE row.type # "partition"
      BY <1>1, <1>2, <1>3, <3>2 DEF Debited, DebitRows, NoRows, TypeOK, Column, Side
    <3> QED
      BY <3>1, <3>2
  <2>3. PostedBy(w, NoRows) => posted[<<w, "balanceleft">>] = 0
    BY DEF PostedBy, NoRows, Column
  <2> HIDE DEF w, rows
  <2> QED
    BY <1>1, <1>5, <1>6, <1>8, <1>9, <1>14, <2>1, <2>2, <2>3, LedgerPays DEF SideFlags
<1> QED
  BY <1>11, <1>12, <1>13, <1>17, <1>18, <1>19, <1>20, <1>21 DEF IInv

-----------------------------------------------------------------------------
(***************************************************************************)
(* Inventory orders                                                        *)
(***************************************************************************)

\* A row is inserted, or changes its quantity or status.
OrderChanges(o) ==
    /\ inventoryorder' \in [InventoryOrder -> InventoryRow \cup {NULL}]
    /\ inventoryorder'[o] # NULL
    /\ inventoryorder'[o].quantity > 0
    /\ inventoryorder'[o].type # "agent_topup" => inventoryorder'[o].status = "settled"
    /\ inventoryorder[o] # NULL => inventoryorder'[o].type = inventoryorder[o].type
    /\ \A p \in InventoryOrder \ {o} : inventoryorder'[p] = inventoryorder[p]

LEMMA OrderCallsFit ==
    ASSUME IInv, NEW s, NEW o \in InventoryOrder, OrderChanges(o),
           NEW rows \in SUBSET Tables, o \in rows, Outdate(s, rows),
           \/ inventoryorder[o] # NULL
           \/ \A t \in Session : t # s /\ session[t] # NULL /\ session[t].kind \in {"topup", "purchase"}
                                 => session[t].of # o,
           "account" \in rows \/ UNCHANGED account,
           UNCHANGED <<withdraw, page, userwithdrawmethod>>
    PROVE  CallsFit' /\ NewIds' /\ Rows' /\ session' \in [Session -> Call \cup {NULL}]
<1>1. TypeOK /\ CallsFit /\ NewIds
  BY DEF IInv
<1>2. /\ session' \in [Session -> Call \cup {NULL}]
      /\ \A t \in Session : session'[t] # NULL =>
         /\ t # s /\ session[t] # NULL /\ session[t] \in Call /\ session'[t] \in Call
         /\ session'[t].kind = session[t].kind /\ session'[t].of = session[t].of
         /\ session'[t].row = session[t].row /\ session'[t].account = session[t].account
         /\ session'[t].stale = session[t].stale \cup rows
  BY <1>1, OutdateCalls
<1>3. ASSUME NEW t \in Session, session'[t] # NULL PROVE Fits(session[t])'
  <2> DEFINE c == session[t]
  <2>1. /\ t # s /\ c # NULL /\ c'.kind = c.kind /\ c'.of = c.of /\ c'.row = c.row /\ c'.account = c.account
        /\ c'.stale = c.stale \cup rows /\ Fits(c)
    BY <1>1, <1>2, <1>3 DEF CallsFit
  <2>2. o \in c'.stale \cap InventoryOrder
    BY <2>1
  <2>3. ASSUME c.kind = "request" PROVE RequestFits(c)'
    <3>1. RequestFits(c)
      BY <2>1, <2>3 DEF Fits
    <3> QED
      BY <2>1, <2>2, <3>1 DEF RequestFits, GetOngoingWithdraws
  <2>4. ASSUME c.kind = "confirm" PROVE ConfirmFits(c)'
    <3>1. ConfirmFits(c)
      BY <2>1, <2>4 DEF Fits
    <3> QED
      BY <2>1, <3>1 DEF ConfirmFits
  <2>5. ASSUME c.kind = "topup" PROVE TopUpFits(c)'
    <3>1. TopUpFits(c) /\ c.of # o
      BY <2>1, <2>5 DEF Fits, TopUpFits, OrderFits
    <3> QED
      BY <2>1, <2>2, <3>1 DEF TopUpFits, OrderFits, OrderChanges, GetOngoingWithdraws
  <2>6. ASSUME c.kind = "purchase" PROVE PurchaseFits(c)'
    <3>1. PurchaseFits(c) /\ c.of # o
      BY <2>1, <2>6 DEF Fits, PurchaseFits, OrderFits
    <3> QED
      BY <2>1, <3>1 DEF PurchaseFits, OrderFits, OrderChanges, GetOngoingWithdraws
  <2>7. ASSUME c.kind = "approve" PROVE ApproveFits(c)'
    <3>1. ApproveFits(c)
      BY <2>1, <2>7 DEF Fits
    <3> QED
      BY <2>1, <2>2, <3>1 DEF ApproveFits, OrderChanges
  <2> QED
    BY <2>1, <2>3, <2>4, <2>5, <2>6, <2>7 DEF Fits
<1>4. NewIds'
  BY <1>1, <1>2, NewIdsStay
<1>5. Rows'
  <2>1. page \subseteq InventoryOrder
    BY <1>1 DEF TypeOK
  <2>2. \A p \in InventoryOrder : inventoryorder'[p] # NULL =>
           /\ inventoryorder'[p].quantity > 0
           /\ inventoryorder'[p].type # "agent_topup" => inventoryorder'[p].status = "settled"
    BY DEF IInv, Rows, OrderChanges
  <2>3. \A p \in page : inventoryorder'[p] # NULL /\ inventoryorder'[p].type = "agent_topup"
    BY <2>1 DEF IInv, Rows, OrderChanges
  <2> QED
    BY <2>2, <2>3 DEF IInv, Rows, ListWithdrawMethods
<1> QED
  BY <1>2, <1>3, <1>4, <1>5 DEF CallsFit

\* An order that is not paid from the balance has no rows and gets none.
LEMMA OrderPostings ==
    ASSUME IInv, NEW o \in InventoryOrder, OrderChanges(o), inventoryorder'[o].type # "from_balance",
           UNCHANGED <<withdraw, posted>>, raced \subseteq raced'
    PROVE  PostedWhy' /\ PurchasePaysPrice'
<1>1. PostedWhy'
  <2>1. \A k \in Withdraw \cup InventoryOrder : PostedBy(k, NoRows)' <=> PostedBy(k, NoRows)
    BY DEF PostedBy, NoRows
  <2>2. \A p \in InventoryOrder :
           inventoryorder'[p] = NULL \/ inventoryorder'[p].type # "from_balance"
           => inventoryorder[p] = NULL \/ inventoryorder[p].type # "from_balance"
    BY DEF OrderChanges
  <2> QED
    BY <2>1, <2>2 DEF IInv, PostedWhy, PostedBy, NoRows, DebitRows
<1>2. \A k : PostedOf(k)' = PostedOf(k)
  BY DEF PostedOf
<1>3. PurchasePaysPrice'
  <2>1. ASSUME NEW p \in InventoryOrder, p # o
        PROVE  PostedOf(p) \in IF inventoryorder'[p] # NULL /\ inventoryorder'[p].type = "from_balance"
                               THEN {-(UnitPrice * inventoryorder'[p].quantity),
                                     -(UnitPrice * inventoryorder'[p].quantity) - 1} ELSE {0}
    BY <2>1 DEF OrderChanges, IInv, PurchasePaysPrice
  <2>2. PostedOf(o) \in {0}
    BY DEF OrderChanges, IInv, PurchasePaysPrice
  <2> QED
    BY <1>2, <2>1, <2>2 DEF PurchasePaysPrice
<1> QED
  BY <1>1, <1>3

LEMMA OpenStays ==
    ASSUME IInv, withdraw' = withdraw, PendingOrders' \subseteq PendingOrders, raced \subseteq raced'
    PROVE  OpenAlone' /\ OneTopUp'
<1>1. GetOngoingWithdraws' = GetOngoingWithdraws
  BY DEF GetOngoingWithdraws
<1>2. \A S : S \cap raced' = {} => S \cap raced = {}
  OBVIOUS
<1> QED
  BY <1>1, <1>2 DEF IInv, OpenAlone, OneTopUp

\* What is granted is in the history.
LEMMA GrantUnits ==
    ASSUME IInv, NEW o \in InventoryOrder, NEW q \in Nat, Grant(o, q)
    PROVE  /\ stock' = SumFunctionOnSet(history, InventoryOrder)' /\ stock' \in Nat
           /\ history' \in [InventoryOrder -> Nat] /\ history'[o] = history[o] + q
           /\ \A p \in InventoryOrder \ {o} : history'[p] = history[p]
<1>1. TypeOK /\ UnitsWhy
  BY DEF IInv
<1>2. /\ history' \in [InventoryOrder -> Nat] /\ history'[o] = history[o] + q
      /\ \A p \in InventoryOrder \ {o} : history'[p] = history[p]
      /\ stock' = stock + q /\ stock \in Nat
  BY <1>1 DEF Grant, TypeOK
<1>3. \A p \in InventoryOrder : history[p] \in Int /\ history'[p] \in Int
  BY <1>1, <1>2 DEF TypeOK
<1>4. SumFunctionOnSet(history', InventoryOrder)
         = SumFunctionOnSet(history, InventoryOrder) + (history'[o] - history[o])
  <2> DEFINE f == history
             g == history'
  <2>1. IsFiniteSet(InventoryOrder)
    OBVIOUS
  <2>2. /\ \A p \in InventoryOrder : f[p] \in Int /\ g[p] \in Int
        /\ \A p \in InventoryOrder \ {o} : g[p] = f[p]
    BY <1>2, <1>3
  <2> HIDE DEF f, g
  <2>3. SumFunctionOnSet(g, InventoryOrder) = SumFunctionOnSet(f, InventoryOrder) + (g[o] - f[o])
    BY <2>1, <2>2, SumChange
  <2> QED
    BY <2>3 DEF f, g
<1>5. stock = SumFunctionOnSet(history, InventoryOrder)
  BY <1>1 DEF UnitsWhy
<1> QED
  BY <1>2, <1>3, <1>4, <1>5

LEMMA InsertTopUpIInv ==
    ASSUME IInv, NEW s \in Session, InsertTopUp(s)
    PROVE  IInv'
<1> DEFINE o == session[s].of
           row == session[s].row
<1>1. /\ session[s] # NULL /\ session[s].kind = "topup"
      /\ inventoryorder' = [inventoryorder EXCEPT ![o] = row]
      /\ Outdate(s, {o}) /\ NoteRace(s)
      /\ UNCHANGED <<account, withdraw, stock, history, posted, userwithdrawmethod, page, moves, calls>>
  BY DEF InsertTopUp
<1>2. TypeOK /\ TopUpFits(session[s])
  BY <1>1 DEF IInv, CallsFit, Fits
<1>3. /\ o \in InventoryOrder /\ inventoryorder[o] = NULL
      /\ row \in InventoryRow /\ row.quantity > 0 /\ row.type = "agent_topup" /\ row.status = "pending"
      /\ row # NULL
  BY <1>2 DEF TopUpFits, OrderFits
<1>4. /\ inventoryorder' \in [InventoryOrder -> InventoryRow \cup {NULL}]
      /\ inventoryorder'[o] = row /\ \A p \in InventoryOrder \ {o} : inventoryorder'[p] = inventoryorder[p]
  BY <1>1, <1>2, <1>3 DEF TypeOK
<1>5. {o} \in SUBSET Tables /\ OrderChanges(o)
  BY <1>3, <1>4 DEF Tables, OrderChanges
<1>6. /\ raced \subseteq raced'
      /\ raced' \subseteq {"request", "confirm", "topup", "purchase", "approve"}
                          \X {"account", "withdraw", "inventoryorder"}
      /\ \A x \in session[s].stale \cap Decisive(session[s]) : <<session[s].kind, TableOf(x)>> \in raced'
  BY <1>1, <1>2, NoteRaceNotes
<1>7. CallsFit' /\ NewIds' /\ Rows' /\ session' \in [Session -> Call \cup {NULL}]
  <2>1. \A t \in Session : t # s /\ session[t] # NULL /\ session[t].kind \in {"topup", "purchase"}
                           => session[t].of # o
    BY <1>1 DEF IInv, NewIds
  <2> HIDE DEF o
  <2> QED
    BY <1>1, <1>3, <1>5, <2>1, OrderCallsFit
<1>8. TypeOK'
  BY <1>1, <1>2, <1>4, <1>6, <1>7 DEF TypeOK
<1>9. PostedWhy' /\ PurchasePaysPrice'
  <2>1. inventoryorder'[o].type # "from_balance"
    BY <1>3, <1>4
  <2> HIDE DEF o
  <2> QED
    BY <1>1, <1>3, <1>5, <1>6, <2>1, OrderPostings
<1>10. UnitsWhy' /\ UnitsGrantedOnce'
  <2>1. history[o] = 0
    BY <1>3 DEF IInv, UnitsWhy
  <2>2. UNCHANGED <<stock, history>>
    BY <1>1
  <2> HIDE DEF o, row
  <2>3. UnitsWhy'
    BY <1>3, <1>4, <2>1, <2>2 DEF IInv, UnitsWhy
  <2>4. UnitsGrantedOnce'
    BY <1>3, <1>4, <1>6, <2>1, <2>2 DEF IInv, UnitsGrantedOnce
  <2> QED
    BY <2>3, <2>4
<1>11. OpenAlone' /\ OneTopUp'
  <2>1. Decisive(session[s]) = Withdraw \cup InventoryOrder
    BY <1>1 DEF Decisive
  <2>2. GetOngoingWithdraws' = GetOngoingWithdraws /\ PendingOrders' = PendingOrders \cup {o}
    BY <1>1, <1>3, <1>4 DEF GetOngoingWithdraws, PendingOrders
  <2>3. ASSUME <<"topup", "withdraw">> \notin raced' PROVE GetOngoingWithdraws = {}
    <3>1. session[s].stale \cap Withdraw = {}
      BY <1>1, <1>6, <2>1, <2>3, TableOfRow
    <3> QED
      BY <1>2, <3>1 DEF TopUpFits, OrderFits
  <2>4. ASSUME <<"topup", "inventoryorder">> \notin raced' PROVE PendingOrders = {}
    <3>1. session[s].stale \cap InventoryOrder = {}
      BY <1>1, <1>6, <2>1, <2>4, TableOfRow
    <3> QED
      BY <1>2, <3>1 DEF TopUpFits
  <2>5. \A v \in GetOngoingWithdraws : withdraw'[v] = withdraw[v]
    BY <1>1
  <2> HIDE DEF o, row
  <2>6. OneTopUp'
    BY <2>2, <2>4 DEF OneTopUp
  <2>7. <<"request", "withdraw">> \notin raced' =>
           \A v, u \in GetOngoingWithdraws' : withdraw'[v].type = withdraw'[u].type => v = u
    BY <1>6, <2>2, <2>5 DEF IInv, OpenAlone
  <2>8. {<<"request", "inventoryorder">>, <<"topup", "withdraw">>} \cap raced' = {} =>
           GetOngoingWithdraws' = {}
    BY <2>2, <2>3
  <2> QED
    BY <2>6, <2>7, <2>8 DEF OpenAlone
<1>12. LedgerMatches'
  BY <1>1, <1>6, LedgerStays
<1> QED
  BY <1>7, <1>8, <1>9, <1>10, <1>11, <1>12 DEF IInv

\* The pending order of the agent's top-up gets another quantity.
LEMMA AmendTopUpIInv ==
    ASSUME IInv, NEW o \in InventoryOrder, NEW q \in Quantities, AmendTopUp(o, q)
    PROVE  IInv'
<1>1. /\ ListInventoriesForHQ = {o}
      /\ inventoryorder' = [inventoryorder EXCEPT ![o].quantity = q] /\ Outdate(NULL, {o})
      /\ UNCHANGED <<account, withdraw, stock, history, posted, userwithdrawmethod, page, moves, calls, raced>>
  BY DEF AmendTopUp
<1>2. TypeOK /\ q \in Nat /\ q > 0
  BY DEF IInv
<1>3. /\ inventoryorder[o] # NULL /\ inventoryorder[o].status = "pending" /\ inventoryorder[o].type = "agent_topup"
      /\ inventoryorder[o] \in InventoryRow
  BY <1>1, <1>2 DEF ListInventoriesForHQ, PendingOrders, TypeOK
<1>4. /\ inventoryorder' \in [InventoryOrder -> InventoryRow \cup {NULL}]
      /\ inventoryorder'[o] \in InventoryRow /\ inventoryorder'[o] # NULL
      /\ inventoryorder'[o].quantity = q /\ inventoryorder'[o].status = "pending"
      /\ inventoryorder'[o].type = "agent_topup"
      /\ \A p \in InventoryOrder \ {o} : inventoryorder'[p] = inventoryorder[p]
  BY <1>1, <1>2, <1>3 DEF TypeOK, InventoryRow
<1>5. {o} \in SUBSET Tables /\ OrderChanges(o)
  BY <1>2, <1>3, <1>4 DEF Tables, OrderChanges
<1>6. CallsFit' /\ NewIds' /\ Rows' /\ session' \in [Session -> Call \cup {NULL}]
  BY <1>1, <1>3, <1>5, OrderCallsFit
<1>7. TypeOK'
  BY <1>1, <1>2, <1>4, <1>6 DEF TypeOK
<1>8. PostedWhy' /\ PurchasePaysPrice'
  BY <1>1, <1>4, <1>5, OrderPostings
<1>9. UnitsWhy'
  BY <1>1, <1>3, <1>4 DEF IInv, UnitsWhy
<1>10. UnitsGrantedOnce'
  BY <1>1, <1>3, <1>4 DEF IInv, UnitsGrantedOnce
<1>11. OpenAlone' /\ OneTopUp'
  <2>1. PendingOrders' \subseteq PendingOrders
    BY <1>3, <1>4 DEF PendingOrders
  <2> QED
    BY <1>1, <2>1, OpenStays
<1>12. LedgerMatches'
  BY <1>1, LedgerStays
<1> QED
  BY <1>6, <1>7, <1>8, <1>9, <1>10, <1>11, <1>12 DEF IInv

\* The head quarter declines an order of its page, whatever has become of it.
LEMMA UpdateInventoryOrderStatusIInv ==
    ASSUME IInv, NEW o \in InventoryOrder, UpdateInventoryOrderStatus(o)
    PROVE  IInv'
<1>1. /\ o \in page
      /\ inventoryorder' = [inventoryorder EXCEPT ![o].status = "declined"] /\ Outdate(NULL, {o})
      /\ UNCHANGED <<account, withdraw, stock, history, posted, userwithdrawmethod, page, moves, calls, raced>>
  BY DEF UpdateInventoryOrderStatus
<1>2. TypeOK
  BY DEF IInv
<1>3. /\ inventoryorder[o] # NULL /\ inventoryorder[o].type = "agent_topup"
      /\ inventoryorder[o] \in InventoryRow /\ inventoryorder[o].quantity > 0
  BY <1>1, <1>2 DEF IInv, Rows, TypeOK
<1>4. /\ inventoryorder' \in [InventoryOrder -> InventoryRow \cup {NULL}]
      /\ inventoryorder'[o] \in InventoryRow /\ inventoryorder'[o] # NULL
      /\ inventoryorder'[o].quantity = inventoryorder[o].quantity /\ inventoryorder'[o].status = "declined"
      /\ inventoryorder'[o].type = "agent_topup"
      /\ \A p \in InventoryOrder \ {o} : inventoryorder'[p] = inventoryorder[p]
  BY <1>1, <1>2, <1>3 DEF TypeOK, InventoryRow, Inventoryorderstatus
<1>5. {o} \in SUBSET Tables /\ OrderChanges(o)
  BY <1>3, <1>4 DEF Tables, OrderChanges
<1>6. CallsFit' /\ NewIds' /\ Rows' /\ session' \in [Session -> Call \cup {NULL}]
  BY <1>1, <1>3, <1>5, OrderCallsFit
<1>7. TypeOK'
  BY <1>1, <1>2, <1>4, <1>6 DEF TypeOK
<1>8. PostedWhy' /\ PurchasePaysPrice'
  BY <1>1, <1>4, <1>5, OrderPostings
<1>9. UnitsWhy'
  BY <1>1, <1>3, <1>4 DEF IInv, UnitsWhy
<1>10. UnitsGrantedOnce'
  <2>1. inventoryorder[o].status \in Inventoryorderstatus
    BY <1>3 DEF InventoryRow
  <2>2. ASSUME <<"approve", "inventoryorder">> \notin raced
        PROVE  history[o] \in {0, inventoryorder[o].quantity}
    BY <1>3, <2>1, <2>2 DEF IInv, UnitsGrantedOnce, Inventoryorderstatus
  <2>3. UNCHANGED <<history, raced>>
    BY <1>1
  <2>4. ASSUME <<"approve", "inventoryorder">> \notin raced', NEW p \in InventoryOrder, inventoryorder'[p] # NULL
        PROVE  history'[p] \in CASE inventoryorder'[p].status = "pending"  -> {0}
                                 [] inventoryorder'[p].status = "settled"  -> {inventoryorder'[p].quantity}
                                 [] inventoryorder'[p].status = "declined" -> {0, inventoryorder'[p].quantity}
    <3>1. CASE p = o
      BY <1>4, <2>2, <2>3, <2>4, <3>1
    <3>2. CASE p # o
      BY <1>4, <2>3, <2>4, <3>2 DEF IInv, UnitsGrantedOnce
    <3> QED
      BY <3>1, <3>2
  <2> QED
    BY <2>4 DEF UnitsGrantedOnce
<1>11. OpenAlone' /\ OneTopUp'
  <2>1. PendingOrders' \subseteq PendingOrders
    BY <1>3, <1>4 DEF PendingOrders
  <2> QED
    BY <1>1, <2>1, OpenStays
<1>12. LedgerMatches'
  BY <1>1, LedgerStays
<1> QED
  BY <1>6, <1>7, <1>8, <1>9, <1>10, <1>11, <1>12 DEF IInv

\* An order settles with its units: the first it gets, unless an approval was raced.
LEMMA SettledUnits ==
    ASSUME IInv, raced \subseteq raced', NEW o \in InventoryOrder, OrderChanges(o),
           inventoryorder'[o].status = "settled", NEW q \in Nat, q > 0, Grant(o, q),
           <<"approve", "inventoryorder">> \notin raced' =>
               history[o] = 0 /\ q = inventoryorder'[o].quantity
    PROVE  /\ UnitsWhy' /\ UnitsGrantedOnce' /\ stock' \in Nat
           /\ history' \in [InventoryOrder -> Nat]
           /\ PendingOrders' \subseteq PendingOrders
<1>1. /\ stock' = SumFunctionOnSet(history, InventoryOrder)' /\ stock' \in Nat
      /\ history' \in [InventoryOrder -> Nat] /\ history'[o] = history[o] + q
      /\ \A p \in InventoryOrder \ {o} : history'[p] = history[p]
  BY GrantUnits
<1>2. /\ inventoryorder'[o] # NULL /\ \A p \in InventoryOrder \ {o} : inventoryorder'[p] = inventoryorder[p]
      /\ history[o] \in Nat
  BY DEF OrderChanges, IInv, TypeOK
<1>3. UnitsWhy'
  BY <1>1, <1>2 DEF IInv, UnitsWhy
<1>4. ASSUME <<"approve", "inventoryorder">> \notin raced', NEW p \in InventoryOrder, inventoryorder'[p] # NULL
      PROVE  history'[p] \in CASE inventoryorder'[p].status = "pending"  -> {0}
                               [] inventoryorder'[p].status = "settled"  -> {inventoryorder'[p].quantity}
                               [] inventoryorder'[p].status = "declined" -> {0, inventoryorder'[p].quantity}
  <2>1. CASE p = o
    BY <1>1, <1>2, <1>4, <2>1
  <2>2. CASE p # o
    BY <1>1, <1>2, <1>4, <2>2 DEF IInv, UnitsGrantedOnce
  <2> QED
    BY <2>1, <2>2
<1>5. PendingOrders' \subseteq PendingOrders
  BY <1>2 DEF PendingOrders
<1> QED
  BY <1>1, <1>3, <1>4, <1>5 DEF UnitsGrantedOnce

LEMMA HqInitiatedIInv ==
    ASSUME IInv, NEW o \in InventoryOrder, NEW q \in Quantities, HqInitiated(o, q)
    PROVE  IInv'
<1> DEFINE row == [type |-> "hq_initiated", quantity |-> q, status |-> "settled"]
<1>1. /\ MayOrder(o) /\ inventoryorder' = [inventoryorder EXCEPT ![o] = row]
      /\ Grant(o, q) /\ Outdate(NULL, {o})
      /\ UNCHANGED <<account, withdraw, posted, userwithdrawmethod, page, moves, calls, raced>>
  BY DEF HqInitiated
<1>2. TypeOK /\ q \in Nat /\ q > 0
  BY DEF IInv
<1>3. /\ inventoryorder[o] = NULL /\ row \in InventoryRow /\ row # NULL
      /\ \A t \in Session : session[t] # NULL => session[t].of # o
  BY <1>1, <1>2, MayOrderFree DEF InventoryRow, Inventoryordertype, Inventoryorderstatus
<1>4. /\ inventoryorder' \in [InventoryOrder -> InventoryRow \cup {NULL}]
      /\ inventoryorder'[o] = row
      /\ \A p \in InventoryOrder \ {o} : inventoryorder'[p] = inventoryorder[p]
  BY <1>1, <1>2, <1>3 DEF TypeOK
<1>5. {o} \in SUBSET Tables /\ OrderChanges(o)
  BY <1>2, <1>3, <1>4 DEF Tables, OrderChanges
<1>6. CallsFit' /\ NewIds' /\ Rows' /\ session' \in [Session -> Call \cup {NULL}]
  BY <1>1, <1>3, <1>5, OrderCallsFit
<1>7. history[o] = 0
  BY <1>3 DEF IInv, UnitsWhy
<1>8. /\ UnitsWhy' /\ UnitsGrantedOnce' /\ stock' \in Nat
      /\ history' \in [InventoryOrder -> Nat]
      /\ PendingOrders' \subseteq PendingOrders
  BY <1>1, <1>2, <1>4, <1>5, <1>7, SettledUnits
<1>9. TypeOK'
  BY <1>1, <1>2, <1>4, <1>6, <1>8 DEF TypeOK
<1>10. PostedWhy' /\ PurchasePaysPrice'
  BY <1>1, <1>4, <1>5, OrderPostings
<1>11. OpenAlone' /\ OneTopUp'
  BY <1>1, <1>8, OpenStays
<1>12. LedgerMatches'
  BY <1>1, LedgerStays
<1> QED
  BY <1>6, <1>8, <1>9, <1>10, <1>11, <1>12 DEF IInv

LEMMA GrantTopUpIInv ==
    ASSUME IInv, NEW s \in Session, GrantTopUp(s)
    PROVE  IInv'
<1> DEFINE o == session[s].of
           q == session[s].row.quantity
<1>1. /\ session[s] # NULL /\ session[s].kind = "approve"
      /\ inventoryorder' = [inventoryorder EXCEPT ![o].status = "settled"]
      /\ Grant(o, q) /\ Outdate(s, {o}) /\ NoteRace(s)
      /\ UNCHANGED <<account, withdraw, posted, userwithdrawmethod, page, moves, calls>>
  BY DEF GrantTopUp
<1>2. TypeOK /\ ApproveFits(session[s])
  BY <1>1 DEF IInv, CallsFit, Fits
<1>3. /\ o \in InventoryOrder /\ inventoryorder[o] # NULL /\ inventoryorder[o].type = "agent_topup"
      /\ inventoryorder[o] \in InventoryRow /\ q \in Nat /\ q > 0 /\ inventoryorder[o].quantity > 0
      /\ o \notin session[s].stale => inventoryorder[o].status = "pending" /\ inventoryorder[o].quantity = q
  BY <1>2 DEF ApproveFits, TypeOK, InventoryRow, IInv, Rows
<1>4. /\ inventoryorder' \in [InventoryOrder -> InventoryRow \cup {NULL}]
      /\ inventoryorder'[o] \in InventoryRow /\ inventoryorder'[o] # NULL
      /\ inventoryorder'[o].quantity = inventoryorder[o].quantity /\ inventoryorder'[o].status = "settled"
      /\ inventoryorder'[o].type = "agent_topup"
      /\ \A p \in InventoryOrder \ {o} : inventoryorder'[p] = inventoryorder[p]
  BY <1>1, <1>2, <1>3 DEF TypeOK, InventoryRow, Inventoryorderstatus
<1>5. {o} \in SUBSET Tables /\ OrderChanges(o)
  BY <1>3, <1>4 DEF Tables, OrderChanges
<1>6. /\ raced \subseteq raced'
      /\ raced' \subseteq {"request", "confirm", "topup", "purchase", "approve"}
                          \X {"account", "withdraw", "inventoryorder"}
      /\ \A x \in session[s].stale \cap Decisive(session[s]) : <<session[s].kind, TableOf(x)>> \in raced'
  BY <1>1, <1>2, NoteRaceNotes
<1>7. <<"approve", "inventoryorder">> \notin raced' => history[o] = 0 /\ q = inventoryorder'[o].quantity
  <2>1. o \in Decisive(session[s]) /\ TableOf(o) = "inventoryorder"
    BY <1>1, <1>3, TableOfRow DEF Decisive
  <2>2. <<"approve", "inventoryorder">> \notin raced' =>
           inventoryorder[o].status = "pending" /\ inventoryorder[o].quantity = q
    BY <1>1, <1>3, <1>6, <2>1
  <2>3. inventoryorder[o].status = "pending" /\ <<"approve", "inventoryorder">> \notin raced => history[o] = 0
    BY <1>3 DEF IInv, UnitsGrantedOnce
  <2> QED
    BY <1>4, <1>6, <2>2, <2>3
<1> HIDE DEF o, q
<1>8. CallsFit' /\ NewIds' /\ Rows' /\ session' \in [Session -> Call \cup {NULL}]
  BY <1>1, <1>3, <1>5, OrderCallsFit
<1>9. /\ UnitsWhy' /\ UnitsGrantedOnce' /\ stock' \in Nat
      /\ history' \in [InventoryOrder -> Nat]
      /\ PendingOrders' \subseteq PendingOrders
  BY <1>1, <1>3, <1>4, <1>5, <1>6, <1>7, SettledUnits
<1>10. TypeOK'
  BY <1>1, <1>2, <1>4, <1>6, <1>8, <1>9 DEF TypeOK
<1>11. PostedWhy' /\ PurchasePaysPrice'
  BY <1>1, <1>3, <1>4, <1>5, <1>6, OrderPostings
<1>12. OpenAlone' /\ OneTopUp'
  BY <1>1, <1>6, <1>9, OpenStays
<1>13. LedgerMatches'
  BY <1>1, <1>6, LedgerStays
<1> QED
  BY <1>8, <1>9, <1>10, <1>11, <1>12, <1>13 DEF IInv

-----------------------------------------------------------------------------
(***************************************************************************)
(* A purchase from the balance                                             *)
(***************************************************************************)

\* The rows of a purchase add up to its price, or to a cent more when the sides pay; read
\* as it is, the account loses what they say, to the cent of a half.
LEMMA PaidShape ==
    ASSUME NEW read \in [Column -> Int], NEW price \in Nat
    PROVE  /\ PaidRows(read, price) \in [Column -> Int]
           /\ PaidRows(read, price)["balance"] + PaidRows(read, price)["balancetriple"]
              + PaidRows(read, price)["balanceleft"] + PaidRows(read, price)["balanceright"]
                \in {-price, -price - 1}
           /\ \A c \in Column \ Side : Paid(read, read, price)[c] = read[c] + PaidRows(read, price)[c]
           /\ \A c \in Side : Paid(read, read, price)[c] - read[c] - PaidRows(read, price)[c]
                              \in 0..(IF PaidRows(read, price)["balanceleft"] # 0 THEN 1 ELSE 0)
<1> DEFINE rest == price - read["balance"]
           half == rest - read["balancetriple"]
           rows == PaidRows(read, price)
           paid == Paid(read, read, price)
<1>1. \A c \in Column : read[c] \in Int
  OBVIOUS
<1>2. /\ read["balance"] \in Int /\ read["balancetriple"] \in Int
      /\ read["balanceleft"] \in Int /\ read["balanceright"] \in Int
  BY DEF Column
<1>3. CASE read["balance"] >= price
  <2>1. rows = [NoRows EXCEPT !["balance"] = -price] /\ paid = Debited(read, "balance", price)
    BY <1>2, <1>3 DEF PaidRows, Paid
  <2>2. /\ rows \in [Column -> Int] /\ rows["balance"] = -price /\ rows["balancetriple"] = 0
        /\ rows["balanceleft"] = 0 /\ rows["balanceright"] = 0
    BY <2>1 DEF NoRows, Column
  <2>3. /\ paid["balance"] = read["balance"] - price
        /\ \A c \in Column \ {"balance"} : paid[c] = read[c]
    BY <2>1 DEF Debited, Column
  <2> HIDE DEF rows, paid
  <2>4. \A c \in Column \ Side : paid[c] = read[c] + rows[c]
    BY <1>2, <2>2, <2>3 DEF Column, Side
  <2>5. \A c \in Side : paid[c] - read[c] - rows[c] \in 0..0
    BY <1>2, <2>2, <2>3 DEF Column, Side
  <2>6. rows["balance"] + rows["balancetriple"] + rows["balanceleft"] + rows["balanceright"] = -price
    BY <2>2
  <2> QED
    BY <2>2, <2>4, <2>5, <2>6 DEF rows, paid
<1>4. CASE read["balance"] < price /\ read["balancetriple"] >= rest
  <2>1. /\ rows = [NoRows EXCEPT !["balance"] = -read["balance"], !["balancetriple"] = -rest]
        /\ paid = Debited([read EXCEPT !["balance"] = 0], "balancetriple", rest)
    BY <1>2, <1>4 DEF PaidRows, Paid
  <2>2. /\ rows \in [Column -> Int] /\ rows["balance"] = -read["balance"] /\ rows["balancetriple"] = -rest
        /\ rows["balanceleft"] = 0 /\ rows["balanceright"] = 0
    BY <1>2, <2>1 DEF NoRows, Column
  <2>3. /\ paid["balance"] = 0 /\ paid["balancetriple"] = read["balancetriple"] - rest
        /\ \A c \in Side : paid[c] = read[c]
    BY <2>1 DEF Debited, Column, Side
  <2> HIDE DEF rows, paid
  <2>4. \A c \in Column \ Side : paid[c] = read[c] + rows[c]
    BY <1>2, <2>2, <2>3 DEF Column, Side
  <2>5. \A c \in Side : paid[c] - read[c] - rows[c] \in 0..0
    BY <1>2, <2>2, <2>3 DEF Column, Side
  <2>6. rows["balance"] + rows["balancetriple"] + rows["balanceleft"] + rows["balanceright"] = -price
    BY <1>2, <2>2
  <2> QED
    BY <2>2, <2>4, <2>5, <2>6 DEF rows, paid
<1>5. CASE read["balance"] < price /\ read["balancetriple"] < rest
  <2>1. half \in Nat /\ half > 0
    BY <1>2, <1>5
  <2>2. /\ rows = [c \in Column |-> IF c \in Side THEN -CeilHalf(half) ELSE -read[c]]
        /\ paid = Halved([read EXCEPT !["balance"] = 0, !["balancetriple"] = 0], half)
    BY <1>2, <1>5 DEF PaidRows, Paid
  <2>3. /\ CeilHalf(half) \in Nat /\ CeilHalf(half) > 0 /\ 2 * CeilHalf(half) \in {half, half + 1}
        /\ \A b \in Int : LessHalf(b, half) \in Int /\ LessHalf(b, half) - b + CeilHalf(half) \in 0..1
    <3>1. 0 \in Int
      OBVIOUS
    <3> HIDE DEF half
    <3> QED
      BY <2>1, <3>1, HalfCents
  <2> HIDE DEF half
  <2>4. /\ rows \in [Column -> Int] /\ rows["balance"] = -read["balance"]
        /\ rows["balancetriple"] = -read["balancetriple"]
        /\ rows["balanceleft"] = -CeilHalf(half) /\ rows["balanceright"] = -CeilHalf(half)
        /\ \A c \in Side : rows[c] = -CeilHalf(half)
    BY <1>1, <2>2, <2>3 DEF Column, Side
  <2>5. /\ paid["balance"] = 0 /\ paid["balancetriple"] = 0
        /\ \A c \in Side : paid[c] = LessHalf(read[c], half) /\ read[c] \in Int
    BY <2>2 DEF Halved, Column, Side
  <2> HIDE DEF rows, paid
  <2>6. \A c \in Column \ Side : paid[c] = read[c] + rows[c]
    BY <1>2, <2>4, <2>5 DEF Column, Side
  <2>7. ASSUME NEW c \in Side PROVE paid[c] - read[c] - rows[c] \in 0..1
    BY <2>3, <2>4, <2>5
  <2>8. rows["balance"] + rows["balancetriple"] + rows["balanceleft"] + rows["balanceright"] \in {-price, -price - 1}
    BY <1>2, <2>3, <2>4 DEF half
  <2>9. rows["balanceleft"] # 0
    BY <2>3, <2>4
  <2> QED
    BY <2>4, <2>6, <2>7, <2>8, <2>9 DEF rows, paid
<1> HIDE DEF rows, paid
<1> QED
  BY <1>2, <1>3, <1>4, <1>5 DEF rows, paid

LEMMA PaidType ==
    ASSUME NEW now \in [Column -> Int], NEW read \in [Column -> Int], NEW price \in Nat
    PROVE  Paid(now, read, price) \in [Column -> Int]
<1> DEFINE rest == price - read["balance"]
           half == rest - read["balancetriple"]
<1>1. read["balance"] \in Int /\ read["balancetriple"] \in Int
  BY DEF Column
<1>2. CASE read["balance"] >= price
  BY <1>2 DEF Paid, Debited, Column
<1>3. CASE read["balance"] < price /\ read["balancetriple"] >= rest
  BY <1>1, <1>3 DEF Paid, Debited, Column
<1>4. CASE read["balance"] < price /\ read["balancetriple"] < rest
  <2>1. half \in Nat
    BY <1>1, <1>4
  <2>2. Paid(now, read, price) = Halved([now EXCEPT !["balance"] = 0, !["balancetriple"] = 0], half)
    BY <1>1, <1>4 DEF Paid
  <2> HIDE DEF half
  <2>3. [now EXCEPT !["balance"] = 0, !["balancetriple"] = 0] \in [Column -> Int]
    BY DEF Column
  <2>4. \A b \in Int : LessHalf(b, half) \in Int
    BY <2>1, HalfCents
  <2> QED
    BY <2>2, <2>3, <2>4 DEF Halved
<1> QED
  BY <1>1, <1>2, <1>3, <1>4

LEMMA SettlePurchaseIInv ==
    ASSUME IInv, NEW s \in Session, SettlePurchase(s)
    PROVE  IInv'
<1> DEFINE o == session[s].of
           row == session[s].row
           read == session[s].account
           price == UnitPrice * row.quantity
           rows == PaidRows(read, price)
<1>1. /\ session[s] # NULL /\ session[s].kind = "purchase"
      /\ account' = Paid(account, read, price) /\ Post(o, rows)
      /\ Grant(o, row.quantity)
      /\ inventoryorder' = [inventoryorder EXCEPT ![o] = row]
      /\ Outdate(s, {"account", o}) /\ NoteRace(s)
      /\ UNCHANGED <<withdraw, userwithdrawmethod, page, moves, calls>>
  BY DEF SettlePurchase
<1>2. TypeOK /\ PurchaseFits(session[s]) /\ session[s] \in Call
  BY <1>1 DEF IInv, CallsFit, Fits, TypeOK
<1>3. /\ o \in InventoryOrder /\ inventoryorder[o] = NULL
      /\ row \in InventoryRow /\ row # NULL /\ row.quantity > 0
      /\ row.type = "from_balance" /\ row.status = "settled"
  BY <1>2 DEF PurchaseFits, OrderFits
<1>4. read \in [Column -> Int] /\ row.quantity \in Nat /\ ("account" \notin session[s].stale => read = account)
  BY <1>2, <1>3 DEF Call, InventoryRow, PurchaseFits
<1>5. price \in Nat
  BY <1>4
<1>6. /\ inventoryorder' \in [InventoryOrder -> InventoryRow \cup {NULL}]
      /\ inventoryorder'[o] = row
      /\ \A p \in InventoryOrder \ {o} : inventoryorder'[p] = inventoryorder[p]
  BY <1>1, <1>2, <1>3 DEF TypeOK
<1>7. {"account", o} \in SUBSET Tables /\ OrderChanges(o) /\ o \in Cause /\ o \in Withdraw \cup InventoryOrder
  BY <1>3, <1>6 DEF Tables, OrderChanges, Cause
<1>8. /\ raced \subseteq raced'
      /\ raced' \subseteq {"request", "confirm", "topup", "purchase", "approve"}
                          \X {"account", "withdraw", "inventoryorder"}
      /\ \A x \in session[s].stale \cap Decisive(session[s]) : <<session[s].kind, TableOf(x)>> \in raced'
  BY <1>1, <1>2, NoteRaceNotes
<1>9. <<"purchase", "account">> \notin raced' => read = account
  <2>1. "account" \in Decisive(session[s]) /\ TableOf("account") = "account"
    BY <1>1, TableOfRow DEF Decisive
  <2> QED
    BY <1>1, <1>4, <1>8, <2>1
<1>10. CallsFit' /\ NewIds' /\ Rows' /\ session' \in [Session -> Call \cup {NULL}]
  <2>1. \A t \in Session : t # s /\ session[t] # NULL /\ session[t].kind \in {"topup", "purchase"}
                           => session[t].of # o
    BY <1>1 DEF IInv, NewIds
  <2>2. o \in {"account", o} /\ "account" \in {"account", o}
    OBVIOUS
  <2> HIDE DEF o, row, read, price, rows
  <2> QED
    BY <1>1, <1>3, <1>7, <2>1, <2>2, OrderCallsFit
<1>11. /\ UnitsWhy' /\ UnitsGrantedOnce' /\ stock' \in Nat
       /\ history' \in [InventoryOrder -> Nat]
       /\ PendingOrders' \subseteq PendingOrders
  <2>1. history[o] = 0
    BY <1>3 DEF IInv, UnitsWhy
  <2> HIDE DEF o, row, read, price, rows
  <2> QED
    BY <1>1, <1>3, <1>4, <1>6, <1>7, <1>8, <2>1, SettledUnits
<1> HIDE DEF o, row, read, price
<1>12. /\ rows \in [Column -> Int]
       /\ rows["balance"] + rows["balancetriple"] + rows["balanceleft"] + rows["balanceright"]
            \in {-price, -price - 1}
       /\ \A c \in Column \ Side : Paid(read, read, price)[c] = read[c] + rows[c]
       /\ \A c \in Side : Paid(read, read, price)[c] - read[c] - rows[c]
                          \in 0..(IF rows["balanceleft"] # 0 THEN 1 ELSE 0)
  BY <1>4, <1>5, PaidShape
<1> HIDE DEF rows
<1>13. account' \in [Column -> Int]
  BY <1>1, <1>2, <1>4, <1>5, PaidType DEF TypeOK
<1>14. posted' \in [Cause \X Column -> Int] /\ \A c \in Column : posted'[<<o, c>>] = posted[<<o, c>>] + rows[c]
  <2>1. /\ posted' \in [Cause \X Column -> Int]
        /\ \A j \in Cause, c \in Column :
              posted'[<<j, c>>] = IF j = o THEN posted[<<j, c>>] + rows[c] ELSE posted[<<j, c>>]
    BY <1>1, <1>2, <1>7, <1>12, PostSums
  <2> QED
    BY <1>7, <2>1
<1>15. TypeOK'
  BY <1>1, <1>2, <1>6, <1>8, <1>10, <1>11, <1>13, <1>14 DEF TypeOK
<1>16. \A j \in Cause : j # o =>
          (\A c \in Column : posted'[<<j, c>>] = posted[<<j, c>>]) /\ PostedOf(j)' = PostedOf(j)
  BY <1>1, <1>2, <1>7, <1>12, OthersPostings
<1>17. \A c \in Column : posted[<<o, c>>] = 0
  BY <1>3 DEF IInv, PostedWhy, PostedBy, NoRows
<1>18. Withdraw \cup InventoryOrder \subseteq Cause /\ o \notin Withdraw
  BY <1>3 DEF Cause
<1>19. PostedWhy'
  <2>1. \A k \in Withdraw \cup InventoryOrder : k # o => \A c \in Column : posted'[<<k, c>>] = posted[<<k, c>>]
    BY <1>16, <1>18
  <2>2. \A k \in Withdraw \cup InventoryOrder : k # o => (PostedBy(k, NoRows)' <=> PostedBy(k, NoRows))
    BY <2>1 DEF PostedBy, NoRows
  <2>3. \A w \in Withdraw : withdraw'[w] = NULL => PostedBy(w, NoRows)'
    BY <1>1, <1>18, <2>2 DEF IInv, PostedWhy
  <2>4. ASSUME <<"confirm", "withdraw">> \notin raced', NEW w \in Withdraw, withdraw'[w] # NULL
        PROVE  PostedBy(w, IF withdraw[w].status = "PAID" THEN DebitRows(withdraw[w]) ELSE NoRows)'
    <3>1. PostedBy(w, IF withdraw[w].status = "PAID" THEN DebitRows(withdraw[w]) ELSE NoRows)
      BY <1>1, <1>8, <2>4 DEF IInv, PostedWhy
    <3>2. withdraw' = withdraw
      BY <1>1
    <3> QED
      BY <1>18, <2>1, <3>1, <3>2 DEF PostedBy, DebitRows, NoRows
  <2>5. \A p \in InventoryOrder :
           inventoryorder'[p] = NULL \/ inventoryorder'[p].type # "from_balance" => PostedBy(p, NoRows)'
    BY <1>3, <1>6, <2>2 DEF IInv, PostedWhy
  <2> QED
    BY <2>3, <2>4, <2>5 DEF PostedWhy
<1>20. PurchasePaysPrice'
  <2>1. ASSUME NEW p \in InventoryOrder, p = o
        PROVE  PostedOf(p)' \in {-price, -price - 1}
    <3>1. /\ posted'[<<p, "balance">>] = rows["balance"]
          /\ posted'[<<p, "balancetriple">>] = rows["balancetriple"]
          /\ posted'[<<p, "balanceleft">>] = rows["balanceleft"]
          /\ posted'[<<p, "balanceright">>] = rows["balanceright"]
      BY <1>12, <1>14, <1>17, <2>1 DEF Column
    <3>2. PostedOf(p)' = posted'[<<p, "balance">>] + posted'[<<p, "balancetriple">>]
                         + posted'[<<p, "balanceleft">>] + posted'[<<p, "balanceright">>]
      <4> DEFINE q == posted'
      <4>1. q \in [Cause \X Column -> Int] /\ p \in Cause
        BY <1>14 DEF Cause
      <4> HIDE DEF q
      <4>2. SumFunction([c \in Column |-> q[<<p, c>>]])
               = q[<<p, "balance">>] + q[<<p, "balancetriple">>]
                 + q[<<p, "balanceleft">>] + q[<<p, "balanceright">>]
        BY <4>1, PostedOfSum
      <4> QED
        BY <4>2 DEF q, PostedOf
    <3> QED
      BY <1>12, <3>1, <3>2
  <2>2. ASSUME NEW p \in InventoryOrder, p # o
        PROVE  PostedOf(p)' \in IF inventoryorder'[p] # NULL /\ inventoryorder'[p].type = "from_balance"
                                THEN {-(UnitPrice * inventoryorder'[p].quantity),
                                      -(UnitPrice * inventoryorder'[p].quantity) - 1} ELSE {0}
    BY <1>6, <1>16, <1>18, <2>2 DEF IInv, PurchasePaysPrice
  <2>3. ASSUME NEW p \in InventoryOrder, p = o
        PROVE  PostedOf(p)' \in IF inventoryorder'[p] # NULL /\ inventoryorder'[p].type = "from_balance"
                                THEN {-(UnitPrice * inventoryorder'[p].quantity),
                                      -(UnitPrice * inventoryorder'[p].quantity) - 1} ELSE {0}
    BY <1>3, <1>6, <2>1, <2>3 DEF price
  <2> QED
    BY <2>2, <2>3 DEF PurchasePaysPrice
<1>21. OpenAlone' /\ OneTopUp'
  BY <1>1, <1>8, <1>11, OpenStays
<1>22. LedgerMatches'
  <2>1. "balanceleft" \in Column
    BY DEF Column
  <2>2. account' = Paid(account, read, price)
    BY <1>1
  <2>3. <<"purchase", "account">> \notin raced' => \A c \in Column \ Side : account'[c] = account[c] + rows[c]
    BY <1>9, <1>12, <2>2
  <2>4. SideFlags \cap raced' = {} =>
           /\ posted[<<o, "balanceleft">>] = 0
           /\ \A c \in Side : account'[c] - account[c] - rows[c]
                              \in 0..(IF rows["balanceleft"] # 0 THEN 1 ELSE 0)
    BY <1>9, <1>12, <1>17, <2>1, <2>2 DEF SideFlags
  <2> QED
    BY <1>1, <1>7, <1>8, <1>12, <1>13, <2>3, <2>4, LedgerPays
<1> QED
  BY <1>10, <1>11, <1>15, <1>19, <1>20, <1>21, <1>22 DEF IInv

-----------------------------------------------------------------------------
(***************************************************************************)
(* The approval page, and what moves the columns besides                   *)
(***************************************************************************)

LEMMA LoadPageIInv ==
    ASSUME IInv, LoadPage
    PROVE  IInv'
<1>1. /\ page' = ListInventoriesForHQ
      /\ UNCHANGED <<account, withdraw, inventoryorder, stock, history, posted, session, userwithdrawmethod,
                     moves, calls, raced>>
  BY DEF LoadPage
<1>2. /\ page' \subseteq InventoryOrder
      /\ \A o \in page' : inventoryorder[o] # NULL /\ inventoryorder[o].type = "agent_topup"
  BY <1>1 DEF ListInventoriesForHQ, PendingOrders
<1>3. TypeOK'
  BY <1>1, <1>2 DEF IInv, TypeOK
<1>4. Rows'
  BY <1>1, <1>2 DEF IInv, Rows, ListWithdrawMethods
<1>5. \A c : Fits(c)' <=> Fits(c)
  BY <1>1 DEF Fits, RequestFits, ConfirmFits, OrderFits, TopUpFits, PurchaseFits, ApproveFits,
              GetOngoingWithdraws, PendingOrders
<1>6. CallsFit' /\ NewIds'
  BY <1>1, <1>5 DEF IInv, CallsFit, NewIds
<1>7. PostedWhy' /\ OpenAlone'
  BY <1>1 DEF IInv, PostedWhy, PostedBy, NoRows, DebitRows, OpenAlone, GetOngoingWithdraws, PendingOrders
<1>8. UnitsWhy' /\ UnitsGrantedOnce' /\ PurchasePaysPrice' /\ OneTopUp' /\ LedgerMatches'
  BY <1>1, OrdersStay, LedgerStays
<1> QED
  BY <1>3, <1>4, <1>6, <1>7, <1>8 DEF IInv

\* A change of the columns that no call makes: every call that has read them knows.
LEMMA AccountCallsFit ==
    ASSUME IInv, Outdate(NULL, {"account"}), UNCHANGED <<withdraw, inventoryorder>>
    PROVE  CallsFit' /\ NewIds' /\ session' \in [Session -> Call \cup {NULL}]
<1>1. /\ session' \in [Session -> Call \cup {NULL}]
      /\ \A t \in Session : session'[t] # NULL =>
            /\ session[t] # NULL /\ session[t] \in Call /\ session'[t] \in Call
            /\ session'[t].kind = session[t].kind /\ session'[t].of = session[t].of
            /\ session'[t].row = session[t].row /\ session'[t].account = session[t].account
            /\ session'[t].stale = session[t].stale \cup {"account"}
  <2>1. {"account"} \in SUBSET Tables
    BY DEF Tables
  <2> QED
    BY <2>1, OutdateCalls DEF IInv
<1>2. NewIds'
  BY <1>1, NewIdsStay DEF IInv
<1>3. GetOngoingWithdraws' = GetOngoingWithdraws /\ PendingOrders' = PendingOrders
  BY DEF GetOngoingWithdraws, PendingOrders
<1>4. ASSUME NEW t \in Session, session'[t] # NULL
      PROVE  Fits(session[t])'
  <2>1. Fits(session[t]) /\ session[t].stale \subseteq session'[t].stale /\ "account" \in session'[t].stale
    BY <1>1, <1>4 DEF IInv, CallsFit
  <2>2. session[t].kind = "request" => RequestFits(session[t])'
    BY <1>1, <1>3, <1>4, <2>1 DEF Fits, RequestFits
  <2>3. session[t].kind = "confirm" => ConfirmFits(session[t])'
    BY <1>1, <1>3, <1>4, <2>1 DEF Fits, ConfirmFits
  <2>4. session[t].kind = "topup" => TopUpFits(session[t])'
    BY <1>1, <1>3, <1>4, <2>1 DEF Fits, TopUpFits, OrderFits
  <2>5. session[t].kind = "purchase" => PurchaseFits(session[t])'
    BY <1>1, <1>3, <1>4, <2>1 DEF Fits, PurchaseFits, OrderFits
  <2>6. session[t].kind = "approve" => ApproveFits(session[t])'
    BY <1>1, <1>3, <1>4, <2>1 DEF Fits, ApproveFits
  <2> QED
    BY <1>1, <1>4, <2>2, <2>3, <2>4, <2>5, <2>6 DEF Fits
<1> QED
  BY <1>1, <1>2, <1>4 DEF CallsFit

LEMMA MoveIInv ==
    ASSUME IInv, NEW cause \in {"settlement", "adjustment"}, NEW c \in Column, NEW x \in Int,
           Move(cause, c, x)
    PROVE  IInv'
<1> DEFINE rows == [NoRows EXCEPT ![c] = x]
<1>1. /\ moves < MaxMoves /\ moves' = moves + 1
      /\ account' = [account EXCEPT ![c] = @ + x]
      /\ Post(cause, rows) /\ Outdate(NULL, {"account"})
      /\ UNCHANGED <<withdraw, inventoryorder, stock, history, userwithdrawmethod, page, calls, raced>>
  BY DEF Move
<1>2. TypeOK /\ cause \in Cause /\ cause \notin Withdraw \cup InventoryOrder
  BY DEF IInv, Cause
<1>3. rows \in [Column -> Int] /\ \A d \in Column : rows[d] = IF d = c THEN x ELSE 0
  BY DEF NoRows
<1>4. account' \in [Column -> Int] /\ \A d \in Column : account'[d] = account[d] + rows[d]
  BY <1>1, <1>2, <1>3 DEF TypeOK
<1> HIDE DEF rows
<1>5. /\ posted' \in [Cause \X Column -> Int]
      /\ \A j \in Cause, d \in Column :
            posted'[<<j, d>>] = IF j = cause THEN posted[<<j, d>>] + rows[d] ELSE posted[<<j, d>>]
      /\ \A d \in Column : PostedTo(d)' = PostedTo(d) + rows[d] /\ PostedTo(d) \in Int
  BY <1>1, <1>2, <1>3, PostSums
<1>6. CallsFit' /\ NewIds' /\ session' \in [Session -> Call \cup {NULL}]
  BY <1>1, AccountCallsFit
<1>7. moves' \in 0..MaxMoves
  BY <1>1, <1>2 DEF TypeOK
<1>8. TypeOK'
  BY <1>1, <1>2, <1>4, <1>5, <1>6, <1>7 DEF TypeOK
<1>9. Rows'
  BY <1>1 DEF IInv, Rows, ListWithdrawMethods
<1>10. \A k \in Withdraw \cup InventoryOrder :
          /\ k \in Cause /\ k # cause
          /\ \A d \in Column : posted'[<<k, d>>] = posted[<<k, d>>]
          /\ PostedOf(k)' = PostedOf(k)
  <2>1. \A k \in Withdraw \cup InventoryOrder : k \in Cause /\ k # cause
    BY <1>2 DEF Cause
  <2> QED
    BY <1>1, <1>2, <1>3, <2>1, OthersPostings
<1>11. PostedWhy'
  BY <1>1, <1>10 DEF IInv, PostedWhy, PostedBy, NoRows, DebitRows
<1>12. PurchasePaysPrice'
  BY <1>1, <1>10 DEF IInv, PurchasePaysPrice
<1>13. UnitsWhy' /\ UnitsGrantedOnce' /\ OneTopUp'
  BY <1>1 DEF IInv, UnitsWhy, UnitsGrantedOnce, OneTopUp, PendingOrders
<1>14. OpenAlone'
  BY <1>1 DEF IInv, OpenAlone, GetOngoingWithdraws, PendingOrders
<1>15. LedgerMatches'
  <2>1. HalvedCauses' = HalvedCauses
    <3>1. "balanceleft" \in Column
      BY DEF Column
    <3> QED
      BY <1>10, <3>1 DEF HalvedCauses
  <2>2. \A d \in Column : /\ Opening[d] \in Int /\ account[d] \in Int /\ rows[d] \in Int /\ PostedTo(d) \in Int
                          /\ account'[d] - Opening[d] - PostedTo(d)' = account[d] - Opening[d] - PostedTo(d)
                          /\ account'[d] - (Opening[d] + PostedTo(d)') = account[d] - (Opening[d] + PostedTo(d))
    BY <1>2, <1>3, <1>4, <1>5 DEF TypeOK
  <2>3. Side \subseteq Column
    BY DEF Side, Column
  <2>4. ASSUME <<"purchase", "account">> \notin raced', NEW d \in Column \ Side
        PROVE  account'[d] = Opening[d] + PostedTo(d)'
    <3>1. account[d] = Opening[d] + PostedTo(d)
      BY <1>1, <2>4 DEF IInv, LedgerMatches
    <3> QED
      BY <1>4, <1>5, <2>2, <3>1
  <2>5. ASSUME {<<"purchase", "account">>, <<"confirm", "withdraw">>} \cap raced' = {}, NEW d \in Side
        PROVE  account'[d] - Opening[d] - PostedTo(d)' \in 0..Cardinality(HalvedCauses')
    <3>1. account[d] - Opening[d] - PostedTo(d) \in 0..Cardinality(HalvedCauses)
      BY <1>1, <2>5 DEF IInv, LedgerMatches
    <3> QED
      BY <2>1, <2>2, <2>3, <3>1
  <2> QED
    BY <2>4, <2>5 DEF LedgerMatches
<1> QED
  BY <1>6, <1>8, <1>9, <1>11, <1>12, <1>13, <1>14, <1>15 DEF IInv

-----------------------------------------------------------------------------
(***************************************************************************)
(* The invariant                                                           *)
(***************************************************************************)

LEMMA InitIInv == Init => IInv
<1> SUFFICES ASSUME Init PROVE IInv
  OBVIOUS
<1>1. TypeOK
  BY DEF Init, TypeOK
<1>2. Rows /\ CallsFit /\ NewIds
  BY DEF Init, Rows, CallsFit, NewIds
<1>3. GetOngoingWithdraws = {} /\ PendingOrders = {}
  BY DEF Init, GetOngoingWithdraws, PendingOrders
<1>4. OpenAlone /\ OneTopUp
  BY <1>3 DEF OpenAlone, OneTopUp
<1>5. \A k \in Cause, c \in Column : posted[<<k, c>>] = 0
  BY DEF Init
<1>6. Withdraw \subseteq Cause /\ InventoryOrder \subseteq Cause
  BY DEF Cause
<1>7. PostedWhy
  BY <1>5, <1>6 DEF Init, PostedWhy, PostedBy, NoRows
<1>8. UnitsGrantedOnce
  BY DEF Init, UnitsGrantedOnce
<1>9. UnitsWhy
  <2>1. \A o \in InventoryOrder : history[o] = 0
    BY DEF Init
  <2>2. SumFunctionOnSet(history, InventoryOrder) = 0
    BY <2>1, SumZero
  <2> QED
    BY <2>1, <2>2 DEF Init, UnitsWhy
<1>10. PurchasePaysPrice
  <2> SUFFICES ASSUME NEW o \in InventoryOrder PROVE PostedOf(o) = 0
    BY DEF Init, PurchasePaysPrice
  <2>1. /\ "balance" \in Column /\ "balancetriple" \in Column
        /\ "balanceleft" \in Column /\ "balanceright" \in Column
    BY DEF Column
  <2>2. o \in Cause /\ posted \in [Cause \X Column -> Int]
    BY <1>1, <1>6 DEF TypeOK
  <2>3. PostedOf(o) = posted[<<o, "balance">>] + posted[<<o, "balancetriple">>]
                      + posted[<<o, "balanceleft">>] + posted[<<o, "balanceright">>]
    BY <2>2, PostedOfSum DEF PostedOf
  <2> QED
    BY <1>5, <2>1, <2>2, <2>3
<1>11. \A c \in Column : PostedTo(c) = 0
  <2> SUFFICES ASSUME NEW c \in Column PROVE PostedTo(c) = 0
    OBVIOUS
  <2> DEFINE f == [k \in Cause |-> posted[<<k, c>>]]
  <2>1. \A k \in Cause : f[k] = 0
    BY <1>5
  <2>2. PostedTo(c) = SumFunctionOnSet(f, Cause)
    BY DEF PostedTo, SumFunction
  <2> HIDE DEF f
  <2> QED
    BY <2>1, <2>2, CausesFinite, SumZero
<1>12. HalvedCauses = {}
  <2>1. "balanceleft" \in Column
    BY DEF Column
  <2> QED
    BY <1>5, <1>6, <2>1 DEF HalvedCauses
<1>13. LedgerMatches
  <2>1. Cardinality(HalvedCauses) = 0
    BY <1>12, FS_EmptySet
  <2>2. \A c \in Column : account[c] = Opening[c] /\ Opening[c] \in Int
    BY DEF Init
  <2>3. Side \subseteq Column
    BY DEF Side, Column
  <2> QED
    BY <1>11, <2>1, <2>2, <2>3 DEF LedgerMatches
<1> QED
  BY <1>1, <1>2, <1>4, <1>7, <1>8, <1>9, <1>10, <1>13 DEF IInv

LEMMA StutterIInv == IInv /\ UNCHANGED vars => IInv'
<1> SUFFICES ASSUME IInv, UNCHANGED vars PROVE IInv'
  OBVIOUS
<1>1. UNCHANGED <<account, withdraw, inventoryorder, stock, history, posted, session,
                  userwithdrawmethod, page, moves, calls, raced>>
  BY DEF vars
<1>2. /\ userwithdrawmethod' \in [Method -> Card \cup {NULL, DELETED}] /\ calls' \in 0..MaxCalls
      /\ session' \in [Session -> Call \cup {NULL}]
  BY <1>1 DEF IInv, TypeOK
<1> QED
  BY <1>1, <1>2, CardsIInv

LEMMA NextIInv == IInv /\ [Next]_vars => IInv'
<1> SUFFICES ASSUME IInv, [Next]_vars PROVE IInv'
  OBVIOUS
<1>1. CASE UNCHANGED vars
  BY <1>1, StutterIInv
<1>2. ASSUME NEW s \in Session, NEW w \in Withdraw, NEW type \in Withdrawtype, NEW x \in Amounts,
             NEW m \in Method \cup {NULL}, CreateWithdraw(s, w, type, x, m)
      PROVE  IInv'
  BY <1>2, CreateWithdrawIInv
<1>3. ASSUME NEW s \in Session, NEW w \in Withdraw, ConfirmWithdraw(s, w) PROVE IInv'
  BY <1>3, ConfirmWithdrawIInv
<1>4. ASSUME NEW w \in Withdraw, NEW status \in WithdrawStatus, UpdateWithdrawStatus(w, status) PROVE IInv'
  BY <1>4, UpdateWithdrawStatusIInv
<1>5. ASSUME NEW s \in Session, NEW o \in InventoryOrder, NEW q \in Quantities, TopUp(s, o, q) PROVE IInv'
  BY <1>5, TopUpIInv
<1>6. ASSUME NEW s \in Session, NEW o \in InventoryOrder, NEW q \in Quantities, Purchase(s, o, q) PROVE IInv'
  BY <1>6, PurchaseIInv
<1>7. ASSUME NEW s \in Session, NEW o \in InventoryOrder, ConfirmInventoryOrder(s, o) PROVE IInv'
  BY <1>7, ConfirmInventoryOrderIInv
<1>8. ASSUME NEW s \in Session,
             \/ InsertWithdraw(s) \/ RefuseWithdraw(s) \/ PayWithdraw(s)
             \/ InsertTopUp(s) \/ SettlePurchase(s) \/ GrantTopUp(s)
      PROVE  IInv'
  BY <1>8, InsertWithdrawIInv, RefuseWithdrawIInv, PayWithdrawIInv,
     InsertTopUpIInv, SettlePurchaseIInv, GrantTopUpIInv
<1>9. ASSUME NEW o \in InventoryOrder, NEW q \in Quantities, AmendTopUp(o, q) \/ HqInitiated(o, q) PROVE IInv'
  BY <1>9, AmendTopUpIInv, HqInitiatedIInv
<1>10. ASSUME NEW o \in InventoryOrder, UpdateInventoryOrderStatus(o) PROVE IInv'
  BY <1>10, UpdateInventoryOrderStatusIInv
<1>11. ASSUME NEW m \in Method,
              \/ \E card \in Card : CreateBankWithdrawMethod(m, card) \/ UpdateBankWithdrawMethod(m, card)
              \/ DeleteWithdrawMethod(m)
       PROVE  IInv'
  BY <1>11, CardPagesIInv
<1>12. CASE LoadPage
  BY <1>12, LoadPageIInv
<1>13. ASSUME NEW m \in Moves, Settlement(m[2], m[3]) \/ InsertAdjustment(m[2], m[3]) PROVE IInv'
  <2>1. m[2] \in Column /\ m[3] \in Int
    OBVIOUS
  <2> QED
    BY <1>13, <2>1, MoveIInv DEF Settlement, InsertAdjustment
<1> QED
  BY <1>1, <1>2, <1>3, <1>4, <1>5, <1>6, <1>7, <1>8, <1>9, <1>10, <1>11, <1>12, <1>13 DEF Next

LEMMA IInvAlways == Spec => []IInv
<1>1. Init => IInv
  BY InitIInv
<1>2. IInv /\ [Next]_vars => IInv'
  BY NextIInv
<1> QED
  BY <1>1, <1>2, PTL DEF Spec

-----------------------------------------------------------------------------
(***************************************************************************)
(* The theorems                                                            *)
(***************************************************************************)

\* The ledger explains the columns of the account: the rows of balanceactivity add up to
\* them, to a cent per halved payment (confirm_withdraw, add_inventory), unless a purchase
\* emptied a column another call was changing or a withdrawal was paid twice.
THEOREM LedgerMatchesAlways == Spec => []LedgerMatches
<1>1. IInv => LedgerMatches
  BY DEF IInv
<1> QED
  BY <1>1, IInvAlways, PTL

LEMMA PaidOnceHolds == IInv => PaidOnce
<1> SUFFICES ASSUME IInv, <<"confirm", "withdraw">> \notin raced, NEW w \in Withdraw
             PROVE  PostedOf(w) = IF withdraw[w] = NULL THEN 0
                                  ELSE IF withdraw[w].status # "PAID" THEN 0
                                  ELSE IF withdraw[w].type = "partition" THEN -2 * CeilHalf(withdraw[w].amount)
                                  ELSE -withdraw[w].amount
  BY DEF PaidOnce
<1>1. w \in Cause /\ posted \in [Cause \X Column -> Int]
  BY DEF IInv, TypeOK, Cause
<1>2. PostedOf(w) = posted[<<w, "balance">>] + posted[<<w, "balancetriple">>]
                    + posted[<<w, "balanceleft">>] + posted[<<w, "balanceright">>]
  BY <1>1, PostedOfSum DEF PostedOf
<1>3. /\ "balance" \in Column /\ "balancetriple" \in Column
      /\ "balanceleft" \in Column /\ "balanceright" \in Column
      /\ "balance" \notin Side /\ "balancetriple" \notin Side
      /\ "balanceleft" \in Side /\ "balanceright" \in Side
  BY DEF Column, Side
<1>4. ASSUME PostedBy(w, NoRows) PROVE PostedOf(w) = 0
  BY <1>2, <1>3, <1>4 DEF PostedBy, NoRows
<1>5. CASE withdraw[w] = NULL
  BY <1>4, <1>5 DEF IInv, PostedWhy
<1>6. CASE withdraw[w] # NULL /\ withdraw[w].status # "PAID"
  BY <1>4, <1>6 DEF IInv, PostedWhy
<1>7. CASE withdraw[w] # NULL /\ withdraw[w].status = "PAID"
  <2>1. PostedBy(w, DebitRows(withdraw[w])) /\ withdraw[w] \in WithdrawRow
    BY <1>7 DEF IInv, PostedWhy, TypeOK
  <2>2. withdraw[w].amount \in Nat /\ CeilHalf(withdraw[w].amount) \in Nat
    <3>1. withdraw[w].amount \in Nat /\ 0 \in Int
      BY <2>1 DEF WithdrawRow
    <3> QED
      BY <3>1, HalfCents
  <2>3. CASE withdraw[w].type = "partition"
    BY <1>2, <1>3, <1>7, <2>1, <2>2, <2>3 DEF PostedBy, DebitRows
  <2>4. CASE withdraw[w].type # "partition"
    BY <1>2, <1>3, <1>7, <2>1, <2>2, <2>4 DEF PostedBy, DebitRows, NoRows
  <2> QED
    BY <2>3, <2>4
<1> QED
  BY <1>5, <1>6, <1>7

\* A withdrawal takes what it asks for once, when it is paid, and one of a type is open at a
\* time and never beside a pending order (check_withdraw_status, set_inventory_unitprice),
\* unless calls overlapped that the invariant names.
THEOREM WithdrawalsStaySound == Spec => []WithdrawalsSound
<1>1. IInv => WithdrawalsSound
  BY PaidOnceHolds DEF IInv, WithdrawalsSound
<1> QED
  BY <1>1, IInvAlways, PTL

\* The rounding of get_max_inventory_quantity: from what an agent has the quantity offered
\* is at most half a unit off.
LEMMA NearestQuantity ==
    ASSUME NEW have \in Nat, NEW unit \in Nat \ {0}, NEW q, q = (2 * have + unit) \div (2 * unit)
    PROVE  unit * (q - 1) <= have /\ unit * (q + 1) > have
<1>1. 2 * unit \in Nat \ {0} /\ 2 * have + unit \in Nat
  OBVIOUS
<1> DEFINE n == 2 * have + unit
           d == 2 * unit
           r == n % d
<1>2. q \in Int /\ r \in 0..(d - 1) /\ n = d * q + r
  BY <1>1
<1>3. unit * (q - 1) = unit * q - unit /\ unit * (q + 1) = unit * q + unit /\ d * q = 2 * (unit * q)
  BY <1>2
<1>4. unit * q \in Int
  BY <1>2
<1> HIDE DEF r
<1> QED
  BY <1>2, <1>3, <1>4

LEMMA OfferedCovered == IInv => OfferedQuantityCovered
<1> SUFFICES ASSUME IInv, \A c \in Column : account[c] >= 0
             PROVE  /\ UnitPrice * (GetMaximumQuantity(account) - 1) <= Purchasable(account)
                    /\ UnitPrice * (GetMaximumQuantity(account) + 1) > Purchasable(account)
  BY DEF OfferedQuantityCovered
<1>1. \A c \in Column : account[c] \in Nat
  BY DEF IInv, TypeOK
<1>2. Purchasable(account) \in Nat
  BY <1>1 DEF Purchasable, Least, Column
<1>3. GetMaximumQuantity(account) = (2 * Purchasable(account) + UnitPrice) \div (2 * UnitPrice)
  BY <1>2 DEF GetMaximumQuantity
<1> QED
  BY <1>2, <1>3, NearestQuantity

-----------------------------------------------------------------------------
(***************************************************************************)
(* What the pages list                                                     *)
(***************************************************************************)

\* A row of balanceactivity is about a withdrawal or an order that is there, and its source
\* is not the word that the activity page filters by.
LEMMA SourcesOfRows ==
    ASSUME IInv, NEW k \in Cause, NEW c \in Column, posted[<<k, c>>] # 0
    PROVE  SourceOf(k) # "withdraw"
<1>1. CASE k \in Withdraw
  <2>1. withdraw[k] # NULL
    BY <1>1 DEF IInv, PostedWhy, PostedBy, NoRows
  <2>2. withdraw[k].type \in Withdrawtype
    BY <1>1, <2>1 DEF IInv, TypeOK, WithdrawRow
  <2> QED
    BY <1>1, <2>2 DEF SourceOf, Withdrawtype
<1>2. CASE k \notin Withdraw
  BY <1>2 DEF SourceOf, Cause
<1> QED
  BY <1>1, <1>2

LEMMA PairOf ==
    ASSUME NEW A, NEW B, NEW p, p \in A \X B
    PROVE  p[1] \in A /\ p[2] \in B /\ p = <<p[1], p[2]>>
OBVIOUS

LEMMA ActivityOf ==
    ASSUME IInv
    PROVE  /\ \A k \in Cause : (\E row \in ListMyBalanceActivityDetails("") : row.of = k)
                                <=> (\E c \in Column : posted[<<k, c>>] # 0)
           /\ \A row \in ListMyBalanceActivityDetails("") : row.of \in Cause
           /\ ListMyBalanceActivityDetails("withdraw") = {}
<1> USE PagesAssumption
<1>1. TransformParams("") = NULL /\ TransformParams("withdraw") = "withdraw"
  BY DEF TransformParams, ANY
<1>2. NULL # "withdraw"
  OBVIOUS
<1>3. \A k \in Cause, c \in Column : posted[<<k, c>>] # 0 => SourceOf(k) # "withdraw"
  BY SourcesOfRows
<1>4. \A p \in Cause \X Column : /\ p[1] \in Cause /\ p[2] \in Column /\ posted[p] = posted[<<p[1], p[2]>>]
                               /\ posted[p] # 0 => SourceOf(p[1]) # "withdraw"
  BY <1>3
<1>5. ListMyBalanceActivityDetails("withdraw") = {}
  <2>1. {r \in Cause \X Column : posted[r] # 0 /\ ("withdraw" = "withdraw") = (SourceOf(r[1]) = "withdraw")} = {}
    BY <1>4
  <2>2. ListMyBalanceActivityDetails("withdraw")
          = {[source |-> SourceOf(row[1]), balancetype |-> row[2], amount |-> posted[row], of |-> row[1]] :
                row \in {r \in Cause \X Column :
                            posted[r] # 0 /\ ("withdraw" = "withdraw") = (SourceOf(r[1]) = "withdraw")}}
    BY <1>1 DEF ListMyBalanceActivityDetails, ListBalanceActivityDetails
  <2>3. \A S : S = {} => {[source |-> SourceOf(row[1]), balancetype |-> row[2], amount |-> posted[row], of |-> row[1]] :
                            row \in S} = {}
    OBVIOUS
  <2> QED
    BY <2>1, <2>2, <2>3
<1>6. ListMyBalanceActivityDetails("")
        = {[source |-> SourceOf(r[1]), balancetype |-> r[2], amount |-> posted[r], of |-> r[1]] :
              r \in {p \in Cause \X Column : posted[p] # 0}}
  <2>1. {r \in Cause \X Column : posted[r] # 0 /\ (NULL = "withdraw") = (SourceOf(r[1]) = "withdraw")}
          = {p \in Cause \X Column : posted[p] # 0}
    BY <1>2, <1>4
  <2> QED
    BY <1>1, <2>1 DEF ListMyBalanceActivityDetails, ListBalanceActivityDetails
<1>7. \A row \in ListMyBalanceActivityDetails("") : row.of \in Cause /\ \E c \in Column : posted[<<row.of, c>>] # 0
  <2> SUFFICES ASSUME NEW row \in ListMyBalanceActivityDetails("")
               PROVE  row.of \in Cause /\ \E c \in Column : posted[<<row.of, c>>] # 0
    OBVIOUS
  <2>1. PICK p \in {q \in Cause \X Column : posted[q] # 0} :
           row = [source |-> SourceOf(p[1]), balancetype |-> p[2], amount |-> posted[p], of |-> p[1]]
    BY <1>6
  <2>2. row.of = p[1]
    BY <2>1
  <2>3. p \in Cause \X Column /\ posted[p] # 0
    OBVIOUS
  <2>4. p[1] \in Cause /\ p[2] \in Column /\ posted[<<p[1], p[2]>>] # 0
    <3>1. p[1] \in Cause /\ p[2] \in Column /\ p = <<p[1], p[2]>>
      BY <2>3, PairOf
    <3> QED
      BY <2>3, <3>1
  <2> QED
    BY <2>2, <2>4
<1>8. ASSUME NEW k \in Cause, NEW c \in Column, posted[<<k, c>>] # 0
      PROVE  \E row \in ListMyBalanceActivityDetails("") : row.of = k
  <2> DEFINE row == [source |-> SourceOf(k), balancetype |-> c, amount |-> posted[<<k, c>>], of |-> k]
  <2>1. <<k, c>> \in {p \in Cause \X Column : posted[p] # 0}
    BY <1>8
  <2>2. row = [source |-> SourceOf(<<k, c>>[1]), balancetype |-> <<k, c>>[2],
               amount |-> posted[<<k, c>>], of |-> <<k, c>>[1]]
    OBVIOUS
  <2>3. row \in ListMyBalanceActivityDetails("")
    <3> HIDE DEF row
    <3> QED
      BY <1>6, <2>1, <2>2
  <2> QED
    BY <2>3
<1> QED
  BY <1>5, <1>7, <1>8

\* A withdrawal has rows when it is paid, and only then.
LEMMA PaidHasRows ==
    ASSUME IInv, <<"confirm", "withdraw">> \notin raced, NEW w \in Withdraw
    PROVE  (\E c \in Column : posted[<<w, c>>] # 0) <=> (withdraw[w] # NULL /\ withdraw[w].status = "PAID")
<1>1. CASE withdraw[w] = NULL
  BY <1>1 DEF IInv, PostedWhy, PostedBy, NoRows
<1>2. CASE withdraw[w] # NULL /\ withdraw[w].status # "PAID"
  BY <1>2 DEF IInv, PostedWhy, PostedBy, NoRows
<1>3. CASE withdraw[w] # NULL /\ withdraw[w].status = "PAID"
  <2>1. /\ PostedBy(w, DebitRows(withdraw[w])) /\ withdraw[w] \in WithdrawRow
        /\ withdraw[w].amount > 0
    BY <1>3 DEF IInv, PostedWhy, TypeOK, Rows
  <2>2. withdraw[w].amount \in Nat
    BY <2>1 DEF WithdrawRow
  <2>3. CASE withdraw[w].type = "partition"
    <3>1. CeilHalf(withdraw[w].amount) > 0 /\ CeilHalf(withdraw[w].amount) \in Nat
      <4>1. 0 \in Int
        OBVIOUS
      <4> QED
        BY <2>1, <2>2, <4>1, HalfCents
    <3>2. posted[<<w, "balanceleft">>] = -CeilHalf(withdraw[w].amount) /\ "balanceleft" \in Column
      BY <2>1, <2>3 DEF PostedBy, DebitRows, Column, Side
    <3> QED
      BY <1>3, <3>1, <3>2
  <2>4. CASE withdraw[w].type # "partition"
    <3> DEFINE c == IF withdraw[w].type = "triple" THEN "balancetriple" ELSE "balance"
    <3>1. c \in Column
      BY DEF Column
    <3>2. posted[<<w, c>>] = DebitRows(withdraw[w])[c] /\ DebitRows(withdraw[w])[c] = -withdraw[w].amount
      <4>1. DebitRows(withdraw[w]) = [NoRows EXCEPT ![c] = -withdraw[w].amount]
        BY <2>4 DEF DebitRows
      <4> HIDE DEF c
      <4> QED
        BY <2>1, <3>1, <4>1 DEF PostedBy, NoRows
    <3> HIDE DEF c
    <3> QED
      BY <1>3, <2>1, <2>2, <3>1, <3>2
  <2> QED
    BY <2>3, <2>4
<1> QED
  BY <1>1, <1>2, <1>3

LEMMA WithdrawalsAreListed == IInv => WithdrawalsListed
<1> SUFFICES ASSUME IInv PROVE WithdrawalsListed
  OBVIOUS
<1> USE PagesAssumption
<1>1. GetOngoingWithdraws \subseteq ListMyWithdraws
  BY DEF GetOngoingWithdraws, ListMyWithdraws, ListWithdraw, LastOperateUserId, ANY
<1>2. ASSUME <<"confirm", "withdraw">> \notin raced
      PROVE  ListWithdraw("clerk", ANY, ANY)
               = {row.of : row \in ListMyBalanceActivityDetails("")} \cap Withdraw
  <2>1. \A w \in Withdraw : w \in ListWithdraw("clerk", ANY, ANY) <=>
                               withdraw[w] # NULL /\ withdraw[w].status = "PAID"
    BY DEF ListWithdraw, LastOperateUserId, ANY
  <2>2. \A w \in Withdraw : (\E row \in ListMyBalanceActivityDetails("") : row.of = w)
                             <=> (withdraw[w] # NULL /\ withdraw[w].status = "PAID")
    <3>1. Withdraw \subseteq Cause
      BY DEF Cause
    <3> QED
      BY <1>2, <3>1, ActivityOf, PaidHasRows
  <2>3. ListWithdraw("clerk", ANY, ANY) \subseteq Withdraw
    BY DEF ListWithdraw
  <2> DEFINE rows == ListMyBalanceActivityDetails("")
  <2>4. \A w : w \in {row.of : row \in rows} <=> \E row \in rows : row.of = w
    <3> HIDE DEF rows
    <3> QED
      OBVIOUS
  <2>5. \A w \in Withdraw : w \in ListWithdraw("clerk", ANY, ANY) <=> w \in {row.of : row \in rows}
    BY <2>1, <2>2, <2>4
  <2> HIDE DEF rows
  <2>6. ListWithdraw("clerk", ANY, ANY) = {row.of : row \in rows} \cap Withdraw
    BY <2>3, <2>5
  <2> QED
    BY <2>6 DEF rows
<1>3. ListMyBalanceActivityDetails("withdraw") = {}
  BY ActivityOf
<1>4. ASSUME NEW w \in ListWithdraw(ANY, ANY, ANY), withdraw[w].method # NULL
      PROVE  /\ withdraw[w].method \in DOMAIN ListBankWithdrawMethods
             /\ CardShown(w) = ListBankWithdrawMethods[withdraw[w].method]
  <2>1. w \in Withdraw /\ withdraw[w] # NULL
    BY DEF ListWithdraw
  <2>2. withdraw[w].method \in ListWithdrawMethods
    BY <1>4, <2>1 DEF IInv, Rows
  <2> QED
    BY <2>2 DEF CardShown, ListBankWithdrawMethods
<1> QED
  BY <1>1, <1>2, <1>3, <1>4 DEF WithdrawalsListed

LEMMA StockIsListed == IInv => StockListed
<1> SUFFICES ASSUME IInv PROVE StockListed
  OBVIOUS
<1> DEFINE S == {o \in InventoryOrder : history[o] > 0}
           m == [o \in S |-> [inventoryorderid |-> o, quantity |-> history[o]]]
           g == [row \in GetInventoryActivities |-> row.quantity]
<1>1. /\ history \in [InventoryOrder -> Nat] /\ stock = SumFunctionOnSet(history, InventoryOrder)
      /\ inventoryorder \in [InventoryOrder -> InventoryRow \cup {NULL}]
  BY DEF IInv, TypeOK, UnitsWhy
<1>2. S \subseteq InventoryOrder /\ IsFiniteSet(S) /\ IsFiniteSet(InventoryOrder \ S)
  BY FS_Subset
<1>3. stock = SumFunctionOnSet(history, S)
  <2>1. \A o \in InventoryOrder \ S : history[o] = 0
    BY <1>1
  <2>2. \A o \in InventoryOrder : history[o] \in Int
    BY <1>1
  <2> HIDE DEF S
  <2>3. SumFunctionOnSet(history, InventoryOrder \ S) = 0
    BY <1>2, <2>1, SumZero
  <2>4. SumFunctionOnSet(history, InventoryOrder)
          = SumFunctionOnSet(history, S) + SumFunctionOnSet(history, InventoryOrder \ S)
    BY <1>2, <2>2, SumSplit
  <2>5. SumFunctionOnSet(history, S) \in Int
    BY <1>2, <2>2, SumInt
  <2> QED
    BY <1>1, <2>3, <2>4, <2>5
<1>4. stock = SumFunction(g)
  <2>1. GetInventoryActivities = {m[o] : o \in S}
    BY DEF GetInventoryActivities
  <2>2. \A o \in S : history[o] \in Int /\ g[m[o]] = history[o]
    <3>1. ASSUME NEW o \in S PROVE m[o] \in GetInventoryActivities /\ m[o].quantity = history[o]
      BY <2>1
    <3> QED
      BY <1>1, <3>1
  <2>3. \A o, p \in S : m[o] = m[p] => o = p
    <3>1. \A o \in S : m[o].inventoryorderid = o
      OBVIOUS
    <3> QED
      BY <3>1
  <2>4. SumFunction(g) = SumFunctionOnSet(g, GetInventoryActivities)
    BY DEF SumFunction
  <2> HIDE DEF m, g, S
  <2>5. SumFunctionOnSet(g, {m[o] : o \in S}) = SumFunctionOnSet(history, S)
    BY <1>2, <2>2, <2>3, SumImage
  <2> QED
    BY <1>3, <2>1, <2>4, <2>5
<1>5. ~ Stocked => stock = 0
  <2>1. ~ Stocked => \A o \in InventoryOrder : history[o] = 0
    BY <1>1 DEF Stocked
  <2> QED
    BY <1>1, <2>1, SumZero
<1>6. ASSUME NEW row \in ListInventory
      PROVE  row.quantity = stock /\ (row.order # NULL => inventoryorder[row.order].status # "settled")
  <2>1. CASE Stocked /\ PendingOrders = {}
    BY <2>1 DEF ListInventory
  <2>2. CASE Stocked /\ PendingOrders # {}
    <3>1. PICK o \in PendingOrders : row = [order |-> o, quantity |-> stock, wip |-> inventoryorder[o].quantity]
      BY <2>2 DEF ListInventory
    <3> QED
      BY <3>1 DEF PendingOrders
  <2>3. CASE ~ Stocked
    <3>1. PICK o \in InventoryOrder : inventoryorder[o] # NULL
                 /\ row = [order |-> o, quantity |-> 0, wip |-> inventoryorder[o].quantity]
      BY <2>3 DEF ListInventory
    <3>2. inventoryorder[o].status # "settled"
      BY <2>3, <3>1 DEF IInv, UnitsWhy, Stocked
    <3> QED
      BY <1>5, <2>3, <3>1, <3>2
  <2> QED
    BY <2>1, <2>2, <2>3
<1>7. ASSUME Stocked, <<"topup", "inventoryorder">> \notin raced
      PROVE  Cardinality(ListInventory) = 1
  <2>1. \E x : ListInventory = {x}
    <3>1. CASE PendingOrders = {}
      BY <1>7, <3>1 DEF ListInventory
    <3>2. CASE PendingOrders # {}
      <4>1. PICK o : PendingOrders = {o}
        BY <1>7, <3>2 DEF IInv, OneTopUp
      <4>2. ListInventory = {[order |-> p, quantity |-> stock, wip |-> inventoryorder[p].quantity] : p \in PendingOrders}
        BY <1>7, <3>2 DEF ListInventory
      <4>3. ListInventory = {[order |-> o, quantity |-> stock, wip |-> inventoryorder[o].quantity]}
        BY <4>1, <4>2
      <4> QED
        BY <4>3
    <3> QED
      BY <3>1, <3>2
  <2> QED
    BY <2>1, FS_Singleton
<1> QED
  BY <1>4, <1>6, <1>7 DEF StockListed

\* Units are given once and a purchase costs its price whatever calls overlap, the pages of
\* the wallet and of the stock show what the tables hold, and the quantity on offer is
\* within a unit of what the agent can pay.
THEOREM WalletStaysConsistent == Spec => []WalletConsistent
<1>1. IInv => WalletConsistent
  BY OfferedCovered, WithdrawalsAreListed, StockIsListed DEF IInv, WalletConsistent, Consistent
<1> QED
  BY <1>1, IInvAlways, PTL

-----------------------------------------------------------------------------
(***************************************************************************)
(* What is asked for stays there                                           *)
(***************************************************************************)

\* While nothing moves the columns, what covers a withdrawal covers it.
LEMMA CoveredStays ==
    ASSUME IInv, NEW w \in GetOngoingWithdraws, ConfirmCovered(account, withdraw[w]), UNCHANGED account,
           withdraw'[w].type = withdraw[w].type, withdraw'[w].amount = withdraw[w].amount
    PROVE  ConfirmCovered(account', withdraw'[w])
BY DEF ConfirmCovered, Least, WithdrawLimit

\* The payment of one withdrawal leaves those of another type covered.
LEMMA PayLeavesCovered ==
    ASSUME IInv, NEW s \in Session, PayWithdraw(s), NEW w \in GetOngoingWithdraws, w \in GetOngoingWithdraws',
           ConfirmCovered(account, withdraw[w]),
           {<<"request", "withdraw">>, <<"confirm", "withdraw">>} \cap raced' = {}
    PROVE  ConfirmCovered(account', withdraw'[w])
<1> DEFINE v == session[s].of
           row == session[s].row
<1>1. /\ session[s] # NULL /\ session[s].kind = "confirm" /\ NoteRace(s)
      /\ withdraw' = [withdraw EXCEPT ![v].status = "PAID"]
      /\ account' = IF row.type = "partition" THEN Halved(account, row.amount)
                    ELSE Debited(account, IF row.type = "triple" THEN "balancetriple" ELSE "balance", row.amount)
  BY DEF PayWithdraw
<1>2. TypeOK /\ ConfirmFits(session[s])
  BY <1>1 DEF IInv, CallsFit, Fits
<1>3. /\ v \in Withdraw /\ withdraw[v] # NULL /\ withdraw[v] \in WithdrawRow
      /\ row.type = withdraw[v].type /\ row.type \in Withdrawtype
      /\ v \notin session[s].stale => withdraw[v].status = "LOCKED"
  BY <1>2 DEF ConfirmFits, TypeOK, WithdrawRow
<1>4. /\ raced \subseteq raced'
      /\ \A y \in session[s].stale \cap Decisive(session[s]) : <<session[s].kind, TableOf(y)>> \in raced'
  BY <1>1, <1>2, NoteRaceNotes
<1>5. v \notin session[s].stale
  <2>1. v \in Decisive(session[s]) /\ TableOf(v) = "withdraw"
    BY <1>1, <1>3, TableOfRow DEF Decisive
  <2> QED
    BY <1>1, <1>4, <2>1
<1>6. v \in GetOngoingWithdraws
  BY <1>3, <1>5 DEF GetOngoingWithdraws
<1>7. w \in Withdraw /\ withdraw[w] # NULL /\ withdraw[w] \in WithdrawRow
  BY <1>2 DEF GetOngoingWithdraws, TypeOK
<1>8. v # w
  <2> SUFFICES ASSUME v = w PROVE FALSE
    OBVIOUS
  <2>1. withdraw'[w].status \in {"REQUESTED", "LOCKED"}
    BY DEF GetOngoingWithdraws
  <2>2. withdraw'[w].status = "PAID"
    BY <1>1, <1>2, <1>3 DEF TypeOK, WithdrawRow
  <2> QED
    BY <2>1, <2>2
<1>9. withdraw'[w] = withdraw[w]
  BY <1>1, <1>2, <1>7, <1>8 DEF TypeOK
<1>10. row.type # withdraw[w].type
  <2>1. <<"request", "withdraw">> \notin raced
    BY <1>4
  <2> QED
    BY <1>3, <1>6, <1>8, <2>1 DEF IInv, OpenAlone
<1>11. withdraw[w].type \in Withdrawtype
  BY <1>7 DEF WithdrawRow
<1>12. /\ row.type # "partition" => account'["balanceleft"] = account["balanceleft"]
                                    /\ account'["balanceright"] = account["balanceright"]
       /\ row.type # "triple" => account'["balancetriple"] = account["balancetriple"]
       /\ row.type # "balance" => account'["balance"] = account["balance"]
  BY <1>1, <1>2, <1>3 DEF TypeOK, Halved, Debited, Column, Side, Withdrawtype
<1> HIDE DEF row
<1> QED
  BY <1>9, <1>10, <1>11, <1>12 DEF ConfirmCovered, WithdrawLimit, Least, Withdrawtype

LEMMA StepKeepsCovered ==
    ASSUME IInv, [Next]_vars, NEW w \in GetOngoingWithdraws, w \in GetOngoingWithdraws',
           ConfirmCovered(account, withdraw[w])
    PROVE  \/ ConfirmCovered(account', withdraw'[w])
           \/ moves' # moves
           \/ {<<"purchase", "withdraw">>, <<"request", "withdraw">>, <<"confirm", "withdraw">>} \cap raced' # {}
<1> DEFINE Goal == \/ ConfirmCovered(account', withdraw'[w])
                   \/ moves' # moves
                   \/ {<<"purchase", "withdraw">>, <<"request", "withdraw">>, <<"confirm", "withdraw">>}
                      \cap raced' # {}
<1>1. /\ w \in Withdraw /\ withdraw[w] # NULL /\ withdraw[w] \in WithdrawRow
      /\ withdraw \in [Withdraw -> WithdrawRow \cup {NULL}]
  BY DEF GetOngoingWithdraws, IInv, TypeOK
<1>2. ASSUME UNCHANGED <<account, withdraw>> PROVE Goal
  BY <1>2, CoveredStays
<1>3. ASSUME NEW s \in Session, InsertWithdraw(s) PROVE Goal
  <2>1. /\ session[s] # NULL /\ session[s].kind = "request" /\ UNCHANGED account
        /\ withdraw' = [withdraw EXCEPT ![session[s].of] = session[s].row]
    BY <1>3 DEF InsertWithdraw
  <2>2. withdraw[session[s].of] = NULL
    BY <2>1 DEF IInv, CallsFit, Fits, RequestFits
  <2>3. withdraw'[w] = withdraw[w]
    BY <1>1, <2>1, <2>2
  <2> QED
    BY <2>1, <2>3, CoveredStays
<1>4. ASSUME NEW v \in Withdraw, NEW status \in WithdrawStatus, UpdateWithdrawStatus(v, status) PROVE Goal
  <2>1. UNCHANGED account /\ withdraw[v] # NULL /\ withdraw' = [withdraw EXCEPT ![v].status = status]
    BY <1>4 DEF UpdateWithdrawStatus
  <2>2. withdraw'[w].type = withdraw[w].type /\ withdraw'[w].amount = withdraw[w].amount
    BY <1>1, <2>1 DEF WithdrawRow
  <2> QED
    BY <2>1, <2>2, CoveredStays
<1>5. ASSUME NEW s \in Session, PayWithdraw(s) PROVE Goal
  BY <1>5, PayLeavesCovered
<1>6. ASSUME NEW s \in Session, SettlePurchase(s) PROVE Goal
  <2>1. session[s] # NULL /\ session[s].kind = "purchase" /\ NoteRace(s)
    BY <1>6 DEF SettlePurchase
  <2>2. TypeOK /\ PurchaseFits(session[s])
    BY <2>1 DEF IInv, CallsFit, Fits
  <2>3. PICK v \in Withdraw : v \in session[s].stale
    BY <2>2 DEF PurchaseFits, OrderFits
  <2>4. v \in Decisive(session[s]) /\ TableOf(v) = "withdraw"
    BY <2>1, TableOfRow DEF Decisive
  <2>5. <<"purchase", "withdraw">> \in raced'
    BY <2>1, <2>2, <2>3, <2>4, NoteRaceNotes
  <2> QED
    BY <2>5
<1>7. ASSUME NEW cause, NEW c, NEW x, Move(cause, c, x) PROVE Goal
  <2>1. moves' = moves + 1 /\ moves \in Nat
    BY <1>7 DEF Move, IInv, TypeOK
  <2> QED
    BY <2>1
<1> HIDE DEF Goal
<1>8. ASSUME UNCHANGED vars PROVE Goal
  BY <1>2, <1>8 DEF vars
<1>9. ASSUME NEW s \in Session, NEW v \in Withdraw, NEW type \in Withdrawtype, NEW x \in Amounts,
             NEW m \in Method \cup {NULL}, CreateWithdraw(s, v, type, x, m)
      PROVE  Goal
  BY <1>2, <1>9 DEF CreateWithdraw, Begin
<1>10. ASSUME NEW s \in Session, NEW v \in Withdraw, ConfirmWithdraw(s, v) PROVE Goal
  BY <1>2, <1>10 DEF ConfirmWithdraw, Begin
<1>11. ASSUME NEW s \in Session, NEW o \in InventoryOrder, NEW q \in Quantities,
             TopUp(s, o, q) \/ Purchase(s, o, q)
      PROVE  Goal
  BY <1>2, <1>11 DEF TopUp, Purchase, Begin
<1>12. ASSUME NEW s \in Session, NEW o \in InventoryOrder, ConfirmInventoryOrder(s, o) PROVE Goal
  BY <1>2, <1>12 DEF ConfirmInventoryOrder, Begin
<1>13. ASSUME NEW s \in Session, RefuseWithdraw(s) \/ InsertTopUp(s) \/ GrantTopUp(s) PROVE Goal
  BY <1>2, <1>13 DEF RefuseWithdraw, InsertTopUp, GrantTopUp
<1>14. ASSUME NEW o \in InventoryOrder, NEW q \in Quantities, AmendTopUp(o, q) \/ HqInitiated(o, q) PROVE Goal
  BY <1>2, <1>14 DEF AmendTopUp, HqInitiated
<1>15. ASSUME NEW o \in InventoryOrder, UpdateInventoryOrderStatus(o) PROVE Goal
  BY <1>2, <1>15 DEF UpdateInventoryOrderStatus
<1>16. ASSUME NEW m \in Method,
              \/ \E card \in Card : CreateBankWithdrawMethod(m, card) \/ UpdateBankWithdrawMethod(m, card)
              \/ DeleteWithdrawMethod(m)
       PROVE  Goal
  BY <1>2, <1>16 DEF CreateBankWithdrawMethod, UpdateBankWithdrawMethod, DeleteWithdrawMethod
<1>17. ASSUME LoadPage PROVE Goal
  BY <1>2, <1>17 DEF LoadPage
<1>18. ASSUME NEW m \in Moves, Settlement(m[2], m[3]) \/ InsertAdjustment(m[2], m[3]) PROVE Goal
  BY <1>7, <1>18 DEF Settlement, InsertAdjustment
<1>19. Goal
  BY <1>3, <1>4, <1>5, <1>6, <1>8, <1>9, <1>11, <1>13, <1>14, <1>16, <1>17, <1>18, <1>10, <1>12, <1>15 DEF Next
<1> QED
  BY <1>19 DEF Goal

\* What an open withdrawal asks for is spent under it by settlement, by an adjustment, or
\* by a call that did not see it (add_inventory, createWithdraw, confirm_withdraw): the
\* checks keep every call that did see it away from its columns.
THEOREM OnlyMovesUncoverAlways == Spec => OnlyMovesUncover
<1>1. ASSUME IInv, [Next]_vars
      PROVE  [\A w \in Withdraw :
                (w \in GetOngoingWithdraws /\ ConfirmCovered(account, withdraw[w]) /\ w \in GetOngoingWithdraws')
                => \/ ConfirmCovered(account', withdraw'[w])
                   \/ moves' # moves
                   \/ {<<"purchase", "withdraw">>, <<"request", "withdraw">>, <<"confirm", "withdraw">>}
                      \cap raced' # {}]_vars
  BY <1>1, StepKeepsCovered
<1> QED
  BY <1>1, IInvAlways, PTL DEF Spec, OnlyMovesUncover
=============================================================================
