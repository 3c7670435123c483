------------------------------ MODULE PayRace ------------------------------
(***************************************************************************)
(* pay_success and revoke_pay statement by statement.  The server begins   *)
(* its transactions at the default isolation level, READ COMMITTED: every  *)
(* statement sees what has committed when it starts and the transaction's  *)
(* own changes; an UPDATE locks its row until the transaction ends, waits  *)
(* while another transaction holds it, and then works on the new version.  *)
(* No query of the two functions locks what it reads.                      *)
(*                                                                         *)
(* The sessions run over the tree of AgentTree.  Orders of a student are   *)
(* orders of one product, with a price, a coupon, no stock and no delivery.*)
(* Left out are the rows whose locks add no wait: a balanceactivity row,   *)
(* prefixed while its account is locked; an award, updated while the       *)
(* account it is linked to is locked, with its owner, the next account of  *)
(* the chain; and the KEY SHARE locks of foreign keys, which updates of    *)
(* other columns do not wait for.                                          *)
(***************************************************************************)
EXTENDS AgentTree, FiniteSetsExt

CONSTANTS
    Order,
    StudentOf,      \* orders.studentid
    CouponAgent,    \* ordercoupon.agentid of the coupon of an order
    OpeningStatus,  \* orders.status before the sessions: 'created' or 'paid'
    PurchaseLimit,  \* product.purchaselimit
    Amount,         \* the amount of a balanceactivity row of each source
    OpeningDebt,    \* account.pendingreturn before the sessions
    Session,        \* transactions
    Kind,           \* what a session does
    OrderOf         \* and to which order

\* confirm   PaySuccess of a wechatpay order: the cashier's poll of the gateway
\* statement after_insert_liuliustatement, on an order that is liuliupay already
\* approve   ConfirmOfflineOrderSucceeded, settling the order by an offline method
\* revoke    RevokePayment, of awards and entitlement
SessionKind == {"confirm", "statement", "approve", "revoke"}

Source == {"commission", "conversion", "earnest", "earnestDebt", "fee", "crossAward", "extension"}
Column == {"balance", "pendingreturn", "partition"}

ColumnOf(src) == CASE src = "earnestDebt" -> "pendingreturn"
                   [] src = "extension"   -> "partition"
                   [] OTHER               -> "balance"

OpenStatus == {"created", "pending_confirmation"}
PurchasedStatus == {"paid", "settled"}
FinalStatus == {"settled", "failed", "refunded"}
Status == OpenStatus \cup PurchasedStatus \cup FinalStatus

ASSUME RaceAssumption ==
    /\ StudentOf \in [Order -> {s \in Student : HasDirectAgent(s) /\ UpstreamReady(s)}]
    /\ CouponAgent \in [Order -> Agent]
    /\ OpeningStatus \in [Order -> {"created", "paid"}]
    /\ PurchaseLimit \in Nat \cup {NULL}
    /\ Amount \in [Source -> Int \ {0}] /\ Amount["earnestDebt"] = -Amount["earnest"]
    /\ OpeningDebt \in [Agent -> Int]
    /\ Kind \in [Session -> SessionKind]
    /\ OrderOf \in [Session -> Order]
    \* An order has one payment method when it is confirmed or stated.
    /\ \A s, t \in Session : Kind[s] = "confirm" /\ OrderOf[s] = OrderOf[t] => Kind[t] # "statement"
    /\ NULL \notin Session \cup Nat \cup Status
    /\ IsFiniteSet(Agent) /\ IsFiniteSet(Order)
    /\ Order \cap Agent = {} /\ Order \cap Student = {}

\* A row that a transaction may lock: of orders, account or studententitlement.
Lockable == Order \cup Agent \cup Student

\* A balanceactivity row; by and undoneBy are the sessions that posted and
\* reversed it, and tell apart rows that the table tells apart by its key.
Row == [orderid : Order, accountid : Agent, source : Source, amount : Int, by : Session,
        mark : {"plain", "revoked", "reversal"}, undoneBy : Session \cup {NULL}]

Step == {"begin", "lock", "read", "check", "entitle", "owed", "post", "convert", "settle",
         "crowd", "fetch", "undo", "prefix", "withdraw", "close", "commit", "done", "aborted"}

VARIABLES
    table,   \* status, account and granted, as committed
    draft,   \* the same with the changes that have not committed
    ledger,  \* balanceactivity, as committed
    lock,    \* the session that holds a row, or NULL
    txn      \* what a session has done so far and remembers

vars == <<table, draft, ledger, lock, txn>>

Table == [status : [Order -> Status],
          account : [Agent -> [Column -> Int]],
          granted : [Student -> Int]]        \* times the entitlement was extended

Transaction == [
    step : Step,
    status : Status \cup {NULL},   \* v_order.status
    n : Nat,                       \* rec.row_num
    owed : Int,                    \* v_return
    todo : SUBSET Row,             \* rows of the cursor not yet undone
    rows : SUBSET Row,             \* inserted
    prefixed : SUBSET Row]         \* marked 【已撤销】

TypeOK ==
    /\ table \in Table /\ draft \in Table
    /\ ledger \subseteq Row
    /\ lock \in [Lockable -> Session \cup {NULL}]
    /\ txn \in [Session -> Transaction]

Opening == [status |-> OpeningStatus,
            account |-> [a \in Agent |-> [c \in Column |->
                            IF c = "pendingreturn" THEN OpeningDebt[a] ELSE 0]],
            granted |-> [s \in Student |-> 0]]

Init ==
    /\ table = Opening /\ draft = Opening
    /\ ledger = {}
    /\ lock = [x \in Lockable |-> NULL]
    /\ txn = [s \in Session |-> [step |-> "begin", status |-> NULL, n |-> 0, owed |-> 0,
                                 todo |-> {}, rows |-> {}, prefixed |-> {}]]

-----------------------------------------------------------------------------
(***************************************************************************)
(* What a statement sees and does                                          *)
(***************************************************************************)

At(s, step) == txn[s].step = step
Go(s, step) == txn' = [txn EXCEPT ![s].step = step]

\* The version of row x that a query of s reads.
Version(s, x) == IF lock[x] = s THEN draft ELSE table

VisibleStatus(s, o) == Version(s, o).status[o]

\* An UPDATE of row x by s.
Acquire(s, x) ==
    /\ lock[x] \in {s, NULL}
    /\ lock' = [lock EXCEPT ![x] = s]

\* The rows get_upstreamaccount_chain returns that are rewarded.
Rewarded(o) ==
    LET s == StudentOf[o] IN
    {n \in AgentRows(s) : \/ n = 2
                          \/ CrossLevel(s, ChainRow(s, n))
                          \/ \E side \in {"L", "R"} : ExtensionSide(s, ChainRow(s, n), side)}

\* Row n of the payment of o: its account, and the loop's next row.
Payee(o, n) == ChainRow(StudentOf[o], n)
Above(o, n) == {m \in Rewarded(o) : m > n}

\* The rows posted to row n of the chain when v_return is owed.  Row 2 is the sales
\* award, the others the cross-level award of those who outrank everybody below them.
Awards(s, n, owed) ==
    LET o == OrderOf[s]
        a == Payee(o, n)
        direct == n = 2
        cross == ~ direct /\ CrossLevel(StudentOf[o], a)
        sources ==
            (IF direct THEN {"commission"} ELSE {})
            \cup (IF direct /\ Kind[s] = "confirm" THEN {"fee"} ELSE {})
            \cup (IF cross THEN {"crossAward"} ELSE {})
            \cup (IF (direct \/ cross) /\ owed > 0 THEN {"earnest", "earnestDebt"} ELSE {})
            \cup (IF \E side \in {"L", "R"} : ExtensionSide(StudentOf[o], a, side)
                  THEN {"extension"} ELSE {})
    IN  {[orderid |-> o, accountid |-> a, source |-> src, amount |-> Amount[src], by |-> s,
          mark |-> "plain", undoneBy |-> NULL] : src \in sources}

\* The conversion award of the coupon's agent.
Conversion(s) ==
    {[orderid |-> OrderOf[s], accountid |-> CouponAgent[OrderOf[s]], source |-> "conversion",
      amount |-> Amount["conversion"], by |-> s, mark |-> "plain", undoneBy |-> NULL]}

Total(R, c) == SumFunction([r \in {x \in R : ColumnOf(x.source) = c} |-> r.amount])

\* Mutant: the debt is written from the value read before the row was locked.
Posted_FromRead(s, a, R) ==
    [c \in Column |-> IF c = "pendingreturn" THEN txn[s].owed + Total(R, c)
                      ELSE draft.account[a][c] + Total(R, c)]

\* UPDATE account SET column = column + amount: the columns of a after rows R.
Posted(s, a, R) == [c \in Column |-> draft.account[a][c] + Total(R, c)]

\* Session s inserts rows R and updates the account a they are posted to.
Post(s, a, R) ==
    /\ Acquire(s, a)
    /\ draft' = [draft EXCEPT !.account[a] = Posted(s, a, R)]
    /\ UNCHANGED <<table, ledger>>

-----------------------------------------------------------------------------
(***************************************************************************)
(* Transactions end                                                        *)
(***************************************************************************)

\* The row of x in t is taken from d for every row s holds.
Copy(t, d, s) ==
    [status |-> [o \in Order |-> IF lock[o] = s THEN d.status[o] ELSE t.status[o]],
     account |-> [a \in Agent |-> IF lock[a] = s THEN d.account[a] ELSE t.account[a]],
     granted |-> [x \in Student |-> IF lock[x] = s THEN d.granted[x] ELSE t.granted[x]]]

Released(s) == [x \in Lockable |-> IF lock[x] = s THEN NULL ELSE lock[x]]

Ended(s, step) == [txn EXCEPT ![s] = [step |-> step, status |-> NULL, n |-> 0, owed |-> 0,
                                      todo |-> {}, rows |-> {}, prefixed |-> {}]]

Commit(s) ==
    /\ At(s, "commit")
    /\ table' = Copy(table, draft, s)
    /\ ledger' = (ledger \ txn[s].prefixed)
                     \cup {[r EXCEPT !.mark = "revoked"] : r \in txn[s].prefixed}
                     \cup txn[s].rows
    /\ lock' = Released(s)
    /\ txn' = Ended(s, "done")
    /\ UNCHANGED draft

\* Mutant: the handler returns without ending the transaction.
Rollback_Leaked(s) ==
    /\ txn' = Ended(s, "aborted")
    /\ UNCHANGED <<table, draft, ledger, lock>>

\* An exception of s, or its end as the victim of a deadlock: everything it did is
\* undone.
Rollback(s) ==
    /\ draft' = Copy(draft, table, s)
    /\ lock' = Released(s)
    /\ txn' = Ended(s, "aborted")
    /\ UNCHANGED <<table, ledger>>

-----------------------------------------------------------------------------
(***************************************************************************)
(* pay_success                                                             *)
(***************************************************************************)

\* Mutant: an approval sets the payment method after pay_success.
FirstStep_Unlocked(s) == "read"

\* Only an approval updates its order before it calls pay_success.
FirstStep(s) == IF Kind[s] = "approve" THEN "lock" ELSE "read"

Begin(s) ==
    /\ At(s, "begin")
    /\ Go(s, FirstStep(s))
    /\ UNCHANGED <<table, draft, ledger, lock>>

\* UPDATE orders SET paymentmethod
LockOrder(s) ==
    /\ At(s, "lock")
    /\ Acquire(s, OrderOf[s])
    /\ Go(s, "read")
    /\ UNCHANGED <<table, draft, ledger>>

\* SELECT * INTO v_order
Read(s) ==
    /\ At(s, "read")
    /\ txn' = [txn EXCEPT ![s].step = "check", ![s].status = VisibleStatus(s, OrderOf[s])]
    /\ UNCHANGED <<table, draft, ledger, lock>>

\* Mutant: the final statuses are not refused.
Refused_NoFinal(s) ==
    IF Kind[s] = "revoke" THEN txn[s].status # "settled"
    ELSE \/ \E r \in ledger : r.orderid = OrderOf[s]
         \/ txn[s].status = "paid" /\ Kind[s] = "confirm"

\* A later statement than the one that read v_order: activity may be newer.
Refused(s) ==
    LET status == txn[s].status IN
    IF Kind[s] = "revoke" THEN status # "settled"
    ELSE \/ \E r \in ledger : r.orderid = OrderOf[s]
         \/ status \in FinalStatus
         \/ status = "paid" /\ Kind[s] = "confirm"

Check(s) ==
    /\ At(s, "check") /\ ~ Refused(s)
    /\ txn' = [txn EXCEPT ![s].step = IF Kind[s] = "revoke" THEN "fetch"
                                      ELSE IF txn[s].status = "paid" THEN "owed"
                                      ELSE "entitle",
                          ![s].n = 2]
    /\ UNCHANGED <<table, draft, ledger, lock>>

Raise(s) == At(s, "check") /\ Refused(s) /\ Rollback(s)

\* INSERT INTO studententitlement ON CONFLICT DO UPDATE
Entitle(s) ==
    LET x == StudentOf[OrderOf[s]] IN
    /\ At(s, "entitle")
    /\ Acquire(s, x)
    /\ draft' = [draft EXCEPT !.granted[x] = @ + 1]
    /\ Go(s, "owed")
    /\ UNCHANGED <<table, ledger>>

\* select pendingreturn into v_return, of the account of row n.
ReadOwed(s) ==
    LET a == Payee(OrderOf[s], txn[s].n) IN
    /\ At(s, "owed")
    /\ txn' = [txn EXCEPT ![s].step = "post",
                          ![s].owed = Version(s, a).account[a]["pendingreturn"]]
    /\ UNCHANGED <<table, draft, ledger, lock>>

\* What s remembers when it has inserted rows R for row n and goes on with the next.
NextRow(s, R) ==
    LET above == Above(OrderOf[s], txn[s].n) IN
    [txn EXCEPT ![s].rows = @ \cup R,
                ![s].step = IF above = {} THEN "settle" ELSE "owed",
                ![s].n = IF above = {} THEN @ ELSE Min(above)]

\* The updates and inserts of row n.  Those of row 2 on its own account, before and
\* after the conversion award, are one step: the row stays locked in between.
PostAwards(s) ==
    LET n == txn[s].n
        R == Awards(s, n, txn[s].owed)
    IN  /\ At(s, "post")
        /\ Post(s, Payee(OrderOf[s], n), R)
        /\ txn' = IF n = 2 THEN [txn EXCEPT ![s].step = "convert", ![s].rows = @ \cup R]
                  ELSE NextRow(s, R)

Convert(s) ==
    /\ At(s, "convert")
    /\ Post(s, CouponAgent[OrderOf[s]], Conversion(s))
    /\ txn' = NextRow(s, Conversion(s))

Siblings(o) == {x \in Order \ {o} : StudentOf[x] = StudentOf[o]}

PaidStatus(s) == IF Kind[s] = "confirm" THEN "paid" ELSE "settled"

\* UPDATE orders SET status, and whether it fires reset_orderstatus_reaching_limit.
Settle(s) ==
    LET o == OrderOf[s]
        bought == {x \in Siblings(o) : VisibleStatus(s, x) \in PurchasedStatus} \cup {o}
        reached == PurchaseLimit # NULL /\ PurchaseLimit > 0
                       /\ PurchaseLimit <= Cardinality(bought)
    IN  /\ At(s, "settle")
        /\ Acquire(s, o)
        /\ draft' = [draft EXCEPT !.status[o] = PaidStatus(s)]
        /\ Go(s, IF draft.status[o] \in OpenStatus /\ reached THEN "crowd" ELSE "commit")
        /\ UNCHANGED <<table, ledger>>

\* The trigger's UPDATE of the other orders: row by row, each when it is free and
\* if it is still open then.
Crowded(s) == {x \in Siblings(OrderOf[s]) : VisibleStatus(s, x) \in OpenStatus}

FailOther(s) ==
    /\ At(s, "crowd")
    /\ \E x \in Crowded(s) : /\ Acquire(s, x)
                              /\ draft' = [draft EXCEPT !.status[x] = "failed"]
    /\ UNCHANGED <<table, ledger, txn>>

FailedAll(s) ==
    /\ At(s, "crowd") /\ Crowded(s) = {}
    /\ Go(s, "commit")
    /\ UNCHANGED <<table, draft, ledger, lock>>

-----------------------------------------------------------------------------
(***************************************************************************)
(* revoke_pay                                                              *)
(***************************************************************************)

PlainRows(o) == {r \in ledger : r.orderid = o /\ r.mark = "plain"}

\* The cursor of the loop, opened on what is committed now.
Fetch(s) ==
    /\ At(s, "fetch")
    /\ txn' = [txn EXCEPT ![s].step = "undo", ![s].todo = PlainRows(OrderOf[s])]
    /\ UNCHANGED <<table, draft, ledger, lock>>

\* The rows of a cursor come in no particular order.
Undo(s) ==
    /\ At(s, "undo")
    /\ \E r \in txn[s].todo :
          LET reversal == [r EXCEPT !.mark = "reversal", !.amount = -r.amount, !.undoneBy = s]
          IN  /\ Post(s, r.accountid, {reversal})
              /\ txn' = [txn EXCEPT ![s].todo = @ \ {r}, ![s].rows = @ \cup {reversal}]

UndoneAll(s) ==
    /\ At(s, "undo") /\ txn[s].todo = {}
    /\ Go(s, "prefix")
    /\ UNCHANGED <<table, draft, ledger, lock>>

\* 把原始记录加前缀: a statement of its own, with a newer view than the cursor.
Prefix(s) ==
    /\ At(s, "prefix")
    /\ txn' = [txn EXCEPT ![s].step = "withdraw", ![s].prefixed = PlainRows(OrderOf[s])]
    /\ UNCHANGED <<table, draft, ledger, lock>>

\* Mutant: the entitlement is retained.
Withdraw_Retained(s) ==
    /\ At(s, "withdraw")
    /\ Acquire(s, StudentOf[OrderOf[s]])
    /\ Go(s, "close")
    /\ UNCHANGED <<table, draft, ledger>>

\* UPDATE studententitlement SET expiresat = expiresat - validdays
Withdraw(s) ==
    LET x == StudentOf[OrderOf[s]] IN
    /\ At(s, "withdraw")
    /\ Acquire(s, x)
    /\ draft' = [draft EXCEPT !.granted[x] = @ - 1]
    /\ Go(s, "close")
    /\ UNCHANGED <<table, ledger>>

Close(s) ==
    LET o == OrderOf[s] IN
    /\ At(s, "close")
    /\ Acquire(s, o)
    /\ draft' = [draft EXCEPT !.status[o] = "refunded"]
    /\ Go(s, "commit")
    /\ UNCHANGED <<table, ledger>>

-----------------------------------------------------------------------------
(***************************************************************************)
(* The deadlock detector                                                   *)
(***************************************************************************)

\* The rows that the next statement of s updates.
Wanted(s) ==
    LET o == OrderOf[s] IN
    CASE txn[s].step \in {"lock", "settle", "close"} -> {o}
      [] txn[s].step \in {"entitle", "withdraw"} -> {StudentOf[o]}
      [] txn[s].step = "post"    -> {Payee(o, txn[s].n)}
      [] txn[s].step = "convert" -> {CouponAgent[o]}
      [] txn[s].step = "crowd"   -> Crowded(s)
      [] txn[s].step = "undo"    -> {r.accountid : r \in txn[s].todo}
      [] OTHER -> {}

WaitsFor(s, t) == t # s /\ \E x \in Wanted(s) : lock[x] = t

\* s waits for itself through others: it is in every set that holds those it waits
\* for and is closed under waiting.
Deadlocked(s) ==
    \A C \in SUBSET Session :
        /\ \A t \in Session : WaitsFor(s, t) => t \in C
        /\ \A t \in C, u \in Session : WaitsFor(t, u) => u \in C
        => s \in C

\* After deadlock_timeout a waiting session finds itself on a cycle and is aborted.
Victim(s) == Deadlocked(s) /\ Rollback(s)

-----------------------------------------------------------------------------
Statement(s) ==
    \/ LockOrder(s) \/ Read(s) \/ Check(s) \/ Raise(s) \/ Entitle(s)
    \/ ReadOwed(s) \/ PostAwards(s) \/ Convert(s)
    \/ Settle(s) \/ FailOther(s) \/ FailedAll(s)
    \/ Fetch(s) \/ Undo(s) \/ UndoneAll(s) \/ Prefix(s) \/ Withdraw(s) \/ Close(s)
    \/ Commit(s)

Next == \E s \in Session : Begin(s) \/ Statement(s) \/ Victim(s)

\* The database runs the statements it was sent and looks for deadlocks; nobody has
\* to begin a transaction.
Fairness ==
    /\ \A s \in Session : WF_vars(Statement(s))
    /\ WF_vars(\E s \in Session : Victim(s))

Spec == Init /\ [][Next]_vars /\ Fairness

-----------------------------------------------------------------------------
(***************************************************************************)
(* Properties                                                              *)
(***************************************************************************)

\* However the statements of transactions interleave, what is committed balances:
\* every account holds what it started with plus its rows.  No UPDATE is lost and
\* none survives a rollback, even when an order is distributed twice.
LedgerMatchesBalances ==
    \A a \in Agent, c \in Column :
        table.account[a][c] =
            Opening.account[a][c] + Total({r \in ledger : r.accountid = a}, c)

\* The rows are of their types and balance.
Consistent == TypeOK /\ LedgerMatchesBalances

\* A student never has more purchases than the limit.
WithinLimit ==
    \A s \in Student :
        PurchaseLimit # NULL =>
            Cardinality({o \in Order : /\ StudentOf[o] = s
                                       /\ table.status[o] \in PurchasedStatus})
                <= PurchaseLimit

\* The entitlement of a student was extended once for every order that came to be paid
\* for, and taken back once for every one that is no more.
GrantedPerOrder ==
    \A s \in Student :
        table.granted[s] =
            Cardinality({o \in Order : StudentOf[o] = s /\ table.status[o] \in PurchasedStatus})
            - Cardinality({o \in Order : StudentOf[o] = s /\ OpeningStatus[o] \in PurchasedStatus})

\* 会把其他的pending orders设置成失败 (reset_orderstatus_reaching_limit, "sets the other
\* pending orders to failed"): what the trigger failed stays failed, also while a
\* payment of it is waiting.
FailedStaysFailed ==
    [][\A o \in Order : table.status[o] = "failed" => table'.status[o] = "failed"]_vars

\* Every transaction that begins commits or is rolled back: sessions that lock the
\* accounts of a chain from the bottom and the coupon's agent in between wait for
\* each other, and the detector lets the others go on.
EverySessionEnds ==
    \A s \in Session :
        txn[s].step # "begin" ~> txn[s].step \in {"done", "aborted"}

\* Seen from what is committed, transactions that interleave are the single steps of
\* AwardBook.
Book == INSTANCE AwardBook
            WITH Award <- Row,
                 live <- [o \in Order |-> PlainRows(o)],
                 closed <- {o \in Order : \E r \in ledger : r.orderid = o /\ r.mark # "plain"}

ImplementsBook == Book!Spec

(***************************************************************************)
(* What messages and comments of the code say and the code does not do     *)
(***************************************************************************)

\* 'The balance activity already exists for this order' (pay_success), and the unique
\* index idx_unique_balanceactivity on accountid, orderid and source.
DistributedOnce ==
    \A r1, r2 \in ledger :
        /\ r1.orderid = r2.orderid /\ r1.accountid = r2.accountid /\ r1.source = r2.source
        /\ r1.mark = "plain" /\ r2.mark = "plain"
        => r1 = r2

=============================================================================
