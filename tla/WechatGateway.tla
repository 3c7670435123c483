--------------------------- MODULE WechatGateway ---------------------------
(***************************************************************************)
(* Orders paid through WeChat pay: the cashier page of a student, the      *)
(* calls it makes to the server, the orders table and the transactions the *)
(* gateway keeps under the number of the order.  The gateway tells nobody: *)
(* its notification is answered by WechatNotifyTemp, which does nothing,   *)
(* so an order learns of its payment from the page's poll only.            *)
(*                                                                         *)
(* A call is a sequence of steps: the database and the gateway are asked   *)
(* one after the other, and the server may stop in between.  ClosePayment  *)
(* updates the order in a transaction, asks the gateway while it holds the *)
(* row, and commits or rolls back by the answer, which may be lost.  What  *)
(* pay_success does besides is in Settlement: here it gives the order the  *)
(* status "paid", whether the database says paid or settled.               *)
(***************************************************************************)
EXTENDS Naturals

CONSTANTS
    Order,      \* orders.id: orders of one student for one product, bought once
    Page,       \* cashier pages
    Call,       \* requests the server is handling
    MaxPolls,   \* the page stops polling at this counter (15 in the code)
    NULL

Status == {"created", "paid", "failed", "declined"}
TradeState == {"NOTPAY", "SUCCESS", "CLOSED", "REFUND"}
EndedBy == {"close", "desk", "limit"}

ASSUME GatewayAssumption ==
    /\ MaxPolls \in Nat \ {0}
    /\ NULL \notin Order \cup Page \cup Call \cup Status \cup TradeState \cup EndedBy

VARIABLES
    order,      \* orders.status, NULL before the order is generated
    polled,     \* orders that a poll has found paid and confirmed
    endedBy,    \* who ended the order
    txn,        \* the gateway's trade_state, NULL without a prepay
    page,
    call

vars == <<order, polled, endedBy, txn, page, call>>

Step == {"idle", "cashier", "polling", "gaveup", "broken"}

\* A confirmation is to "ask" the gateway, or has found the order "paid"; a close is to
\* "fail" the order, is "failing" it, and commits or rolls back: "closed" or "refused".
Phase == {"ask", "paid", "fail", "failing", "closed", "refused"}

CallRow == [of : Order, from : Page \cup {NULL}, phase : Phase]

TypeOK ==
    /\ order \in [Order -> Status \cup {NULL}]
    /\ polled \subseteq Order
    /\ endedBy \in [Order -> EndedBy \cup {NULL}]
    /\ txn \in [Order -> TradeState \cup {NULL}]
    /\ page \in [Page -> [order : Order \cup {NULL}, step : Step, counter : 0..MaxPolls]]
    /\ call \in [Call -> CallRow \cup {NULL}]
    /\ \A c, d \in Call : (call[c] # NULL /\ call[d] # NULL /\ call[c].from # NULL
                            /\ call[c].from = call[d].from) => c = d

NewPage == [order |-> NULL, step |-> "idle", counter |-> 0]

Init ==
    /\ order = [o \in Order |-> NULL]
    /\ polled = {}
    /\ endedBy = [o \in Order |-> NULL]
    /\ txn = [o \in Order |-> NULL]
    /\ page = [p \in Page |-> NewPage]
    /\ call = [c \in Call |-> NULL]

-----------------------------------------------------------------------------
(***************************************************************************)
(* The orders table                                                        *)
(***************************************************************************)

\* A close holds the row of its order from the update to the end of its transaction.
Locked(o) ==
    \E c \in Call : /\ call[c] # NULL /\ call[c].of = o
                    /\ call[c].phase \in {"failing", "closed", "refused"}

Others(o) == {x \in Order \ {o} : order[x] = "created"}

\* pay_success raises once the order is paid or has reached a final status.
CanPay(o) == order[o] = "created"

\* It waits for the row, and for those of the student's other open orders of the product,
\* which its trigger fails.
PaySuccess(o) ==
    /\ ~ Locked(o) /\ \A x \in Others(o) : ~ Locked(x)
    /\ order' = [x \in Order |-> CASE x = o            -> "paid"
                                   [] x \in Others(o)  -> "failed"
                                   [] OTHER            -> order[x]]
    /\ endedBy' = [x \in Order |-> IF x \in Others(o) THEN "limit" ELSE endedBy[x]]

UpdateOrderStatus(o, status, who) ==
    /\ order' = [order EXCEPT ![o] = status]
    /\ endedBy' = [endedBy EXCEPT ![o] = who]
    /\ UNCHANGED polled

\* The head quarter confirms a payment outside of the gateway, or settles a paid order.
ConfirmOfflineOrderSucceeded(o) ==
    /\ CanPay(o)
    /\ PaySuccess(o)
    /\ UNCHANGED <<polled, txn, page, call>>

\* DeclineOrder: the head quarter's page offers it for open and paid orders.
DeclineOrder(o) ==
    /\ order[o] \in {"created", "paid"} /\ ~ Locked(o)
    /\ UpdateOrderStatus(o, "declined", "desk")
    /\ UNCHANGED <<txn, page, call>>

-----------------------------------------------------------------------------
(***************************************************************************)
(* The page                                                                *)
(***************************************************************************)

\* Handles are alike: the first that is free is taken.
Start(c, o, p, phase) ==
    /\ call[c] = NULL /\ c = CHOOSE x \in Call : call[x] = NULL
    /\ call' = [call EXCEPT ![c] = [of |-> o, from |-> p, phase |-> phase]]

Awaited(p) == \E c \in Call : call[c] # NULL /\ call[c].from = p

\* showPaymentMethodDrawer: an order is generated unless the page still has one.
CreateOrder(p, o) ==
    /\ page[p].step \in {"idle", "gaveup", "broken"} /\ page[p].order = NULL
    /\ order[o] = NULL
    /\ \A x \in Order : order[x] # "paid"
    /\ order' = [order EXCEPT ![o] = "created"]
    /\ page' = [page EXCEPT ![p].order = o]
    /\ UNCHANGED <<polled, endedBy, txn, call>>

\* pay and pay_wechatpay: updateOrder sets the method, whatever the status, once the row
\* is free; CreateWechatPrepay looks at nothing but the price, and the gateway at nothing
\* but its own transaction; when that refuses, the page shows the error.
CreateWechatpayPrepay(p) ==
    LET o == page[p].order IN
    /\ page[p].step \in {"idle", "gaveup", "broken"} /\ o # NULL
    /\ ~ Locked(o)
    /\ IF txn[o] \in {NULL, "NOTPAY"}
       THEN /\ txn' = [txn EXCEPT ![o] = "NOTPAY"]
            /\ page' = [page EXCEPT ![p].step = "cashier"]
       ELSE /\ page' = [page EXCEPT ![p].step = "broken"]
            /\ UNCHANGED txn
    /\ UNCHANGED <<order, polled, endedBy, call>>

\* The student pays, in the WeChat client, as long as the gateway lets them.
Pay(o) ==
    /\ txn[o] = "NOTPAY"
    /\ txn' = [txn EXCEPT ![o] = "SUCCESS"]
    /\ UNCHANGED <<order, polled, endedBy, page, call>>

Refund(o) ==
    /\ txn[o] = "SUCCESS"
    /\ txn' = [txn EXCEPT ![o] = "REFUND"]
    /\ UNCHANGED <<order, polled, endedBy, page, call>>

\* The bridge answers ok, which is not absolutely reliable: the page polls, unless it has
\* used up its counter, which nothing resets.
BridgeOk(p) ==
    /\ page[p].step = "cashier"
    /\ page' = [page EXCEPT ![p].step = IF page[p].counter < MaxPolls THEN "polling" ELSE "gaveup"]
    /\ UNCHANGED <<order, polled, endedBy, txn, call>>

\* cancel, where the page forgets the order, or fail: it asks to close and goes on.
BridgeClose(p, c, forget) ==
    /\ page[p].step = "cashier"
    /\ Start(c, page[p].order, NULL, "fail")
    /\ page' = [page EXCEPT ![p].step = "idle", ![p].order = IF forget THEN NULL ELSE @]
    /\ UNCHANGED <<order, polled, endedBy, txn>>

\* The student reloads the page or leaves it; a call it waits for goes on.
Leave(p) ==
    /\ page' = [page EXCEPT ![p] = NewPage]
    /\ call' = [c \in Call |-> IF call[c] # NULL /\ call[c].from = p
                               THEN [call[c] EXCEPT !.from = NULL] ELSE call[c]]
    /\ UNCHANGED <<order, polled, endedBy, txn>>

ConfirmPayment(p, c) ==
    /\ page[p].step = "polling" /\ ~ Awaited(p)
    /\ Start(c, page[p].order, p, "ask")
    /\ UNCHANGED <<order, polled, endedBy, txn, page>>

-----------------------------------------------------------------------------
(***************************************************************************)
(* ConfirmOrderSucceeded                                                   *)
(***************************************************************************)

Handling(c, phase) == call[c] # NULL /\ call[c].phase = phase

\* Call c ends: the page, if it still waits for it, goes to the step.
Tell(c, step) ==
    /\ call' = [call EXCEPT ![c] = NULL]
    /\ page' = IF call[c].from = NULL THEN page ELSE [page EXCEPT ![call[c].from].step = step]

\* The page is told SUCCESS and leaves for another.
Redirect(c) ==
    /\ call' = [call EXCEPT ![c] = NULL]
    /\ page' = IF call[c].from = NULL THEN page ELSE [page EXCEPT ![call[c].from] = NewPage]

\* The page counts an answer NOTPAY, and stops at the limit.
Count(c) ==
    LET p == call[c].from
        n == page[p].counter + 1
    IN
    /\ call' = [call EXCEPT ![c] = NULL]
    /\ page' = IF p = NULL THEN page
               ELSE [page EXCEPT ![p].counter = n, ![p].step = IF n < MaxPolls THEN @ ELSE "gaveup"]

Go(c, phase) == call' = [call EXCEPT ![c].phase = phase] /\ UNCHANGED page

\* Mutant: a counter of each round.
Answered_Uncounted(c) ==
    \/ txn[call[c].of] = "SUCCESS" /\ Go(c, "paid")
    \/ txn[call[c].of] = "CLOSED"  /\ Go(c, "fail")
    \/ txn[call[c].of] \in {"NOTPAY", "REFUND"} /\ Tell(c, "polling")

\* What the handler does about the gateway's trade_state.  The page asks again and again
\* when it is told REFUND or CLOSED: it counts NOTPAY only.
Answered(c) ==
    \/ txn[call[c].of] = "SUCCESS" /\ Go(c, "paid")
    \/ txn[call[c].of] = "NOTPAY"  /\ Count(c)
    \/ txn[call[c].of] = "CLOSED"  /\ Go(c, "fail")
    \/ txn[call[c].of] = "REFUND"  /\ Tell(c, "polling")

GetPaymentByOrderId(c) ==
    /\ Handling(c, "ask")
    /\ \/ Answered(c)
       \/ Tell(c, "broken")             \* the gateway does not answer
    /\ UNCHANGED <<order, polled, endedBy, txn>>

ConfirmPaid(c) ==
    /\ Handling(c, "paid")
    /\ \/ CanPay(call[c].of) /\ PaySuccess(call[c].of) /\ polled' = polled \cup {call[c].of} /\ Redirect(c)
       \/ ~ CanPay(call[c].of) /\ Tell(c, "broken") /\ UNCHANGED <<order, polled, endedBy>>
    /\ UNCHANGED txn

-----------------------------------------------------------------------------
(***************************************************************************)
(* ClosePayment                                                            *)
(***************************************************************************)

\* The update, not committed yet.  It looks at no status.
FailOrder(c) ==
    /\ Handling(c, "fail") /\ ~ Locked(call[c].of)
    /\ call' = [call EXCEPT ![c].phase = "failing"]
    /\ UNCHANGED <<order, polled, endedBy, txn, page>>

\* Mutant: an error of the gateway is logged and forgotten.
CloseOrder_Forgiven(c) ==
    /\ Handling(c, "failing")
    /\ txn' = [txn EXCEPT ![call[c].of] = IF @ = "NOTPAY" THEN "CLOSED" ELSE @]
    /\ call' = [call EXCEPT ![c].phase = "closed"]
    /\ UNCHANGED <<order, polled, endedBy, page>>

\* The gateway closes what is not paid, and refuses otherwise; it may refuse to close
\* twice.  When its answer is lost the call is refused too.
CloseOrder(c) ==
    LET o == call[c].of IN
    /\ Handling(c, "failing")
    /\ \/ /\ txn[o] \in {"NOTPAY", "CLOSED"}
          /\ txn' = [txn EXCEPT ![o] = "CLOSED"]
          /\ \E answer \in {"closed", "refused"} : call' = [call EXCEPT ![c].phase = answer]
       \/ /\ call' = [call EXCEPT ![c].phase = "refused"]
          /\ UNCHANGED txn
    /\ UNCHANGED <<order, polled, endedBy, page>>

\* The page goes on polling: CLOSED is no answer it knows.
Commit(c) ==
    /\ Handling(c, "closed")
    /\ UpdateOrderStatus(call[c].of, "failed", "close")
    /\ Tell(c, "polling")
    /\ UNCHANGED txn

\* Mutant: the transaction is committed whatever the gateway has said.
Rollback_Commits(c) ==
    /\ Handling(c, "refused")
    /\ UpdateOrderStatus(call[c].of, "failed", "close")
    /\ Tell(c, "broken")
    /\ UNCHANGED txn

Rollback(c) ==
    /\ Handling(c, "refused")
    /\ Tell(c, "broken")
    /\ UNCHANGED <<order, polled, endedBy, txn>>

\* The server stops, and with it every call and every transaction that is open.
Crash ==
    /\ \E c \in Call : call[c] # NULL
    /\ call' = [c \in Call |-> NULL]
    /\ page' = [p \in Page |-> IF Awaited(p) THEN [page[p] EXCEPT !.step = "broken"] ELSE page[p]]
    /\ UNCHANGED <<order, polled, endedBy, txn>>

-----------------------------------------------------------------------------
Serve(c) ==
    \/ GetPaymentByOrderId(c) \/ ConfirmPaid(c)
    \/ FailOrder(c) \/ CloseOrder(c) \/ Commit(c) \/ Rollback(c)

Next ==
    \/ \E o \in Order : ConfirmOfflineOrderSucceeded(o) \/ DeclineOrder(o) \/ Pay(o) \/ Refund(o)
    \/ \E p \in Page :
          \/ CreateWechatpayPrepay(p) \/ BridgeOk(p) \/ Leave(p)
          \/ \E o \in Order : CreateOrder(p, o)
          \/ \E c \in Call : ConfirmPayment(p, c) \/ \E forget \in BOOLEAN : BridgeClose(p, c, forget)
    \/ \E c \in Call : Serve(c)
    \/ Crash

\* The server goes on with the calls it has taken, the page with its loop.  Nobody has to
\* pay, confirm or close anything.
Fairness ==
    /\ \A c \in Call : WF_vars(Serve(c))
    /\ \A p \in Page : WF_vars(\E c \in Call : ConfirmPayment(p, c))

Spec == Init /\ [][Next]_vars /\ Fairness

-----------------------------------------------------------------------------
(***************************************************************************)
(* Properties                                                              *)
(***************************************************************************)

\* An order that ClosePayment has failed cannot be paid at the gateway any more: the
\* status is committed after the gateway has closed, and not when it has refused or its
\* answer was lost.
ClosedUnpaid == \A o \in Order : endedBy[o] = "close" => txn[o] = "CLOSED"

\* An order that a poll has found paid was paid, and only the head quarter ends it: no
\* late close, second poll or other order of the student does.
GatewayPaymentStays ==
    \A o \in Order : o \in polled =>
        txn[o] \in {"SUCCESS", "REFUND"} /\ (order[o] = "paid" \/ endedBy[o] = "desk")

\* A row that a close has locked is released, whatever the gateway answers, also when it
\* does not.
RowsReleased == \A o \in Order : Locked(o) ~> ~ Locked(o)

\* The page stops polling unless the gateway has closed or refunded the order, which are
\* answers it does not know.
PollEnds ==
    \A p \in Page :
        page[p].step = "polling"
            ~> (page[p].step # "polling" \/ txn[page[p].order] \in {"CLOSED", "REFUND"})

\* A poll that asks after the student has paid gets the order paid, unless the order has
\* died, the student is refunded, or the page is told of an error or left.
PaidIsFound ==
    \A p \in Page :
        (\E c \in Call : Handling(c, "ask") /\ call[c].from = p /\ txn[call[c].of] = "SUCCESS")
            ~> (\/ page[p].step \in {"broken", "idle"}
                \/ order[page[p].order] # "created" \/ txn[page[p].order] = "REFUND")

\* A status that a close has committed is the gateway's too, in every state of the calls.
Consistent == TypeOK /\ ClosedUnpaid

\* Everything that waits for the gateway ends: the row a close has locked is released, a
\* poll stops, and a poll after the payment finds it.
EverythingAnswered == RowsReleased /\ PollEnds /\ PaidIsFound
=============================================================================
