---------------------------- MODULE WechatProofs ----------------------------
(***************************************************************************)
(* What goes through WeChat, for every value of the constants.  Orders     *)
(* paid through its gateway, for every number of orders, pages and calls:  *)
(* what a close has committed is closed at the gateway, and what a poll    *)
(* has found paid stays paid.  Logins and signups by a scanned code, for   *)
(* every number of people, scans and sessions: who is let in was           *)
(* authorized, and who is registered is registered once.                   *)
(***************************************************************************)
EXTENDS WechatGateway, ScanLogin, FiniteSetTheorems, TLAPS

------------------------------------------------------------------------------
(* Orders paid through the gateway: the invariant.                         *)

\* A page at the cashier has an order, one that polls has not used up its counter, and a
\* call it waits for finds it polling.
PagesAndCalls ==
    /\ \A p \in Page : page[p].step \in {"cashier", "polling"} => page[p].order # NULL
    /\ \A p \in Page : page[p].step = "polling" => page[p].counter < MaxPolls
    /\ \A c \in Call : call[c] # NULL /\ call[c].from # NULL => page[call[c].from].step = "polling"

\* A call that is past the gateway's answer still has it right: no transaction that is
\* closed opens again, and one that was paid is paid or refunded.
AnswersHold ==
    /\ \A c \in Call : Handling(c, "closed") => txn[call[c].of] = "CLOSED"
    /\ \A c \in Call : Handling(c, "paid") => txn[call[c].of] \in {"SUCCESS", "REFUND"}

\* Nobody has ended an order that is open.
OpenNotEnded == \A o \in Order : order[o] \in {NULL, "created"} => endedBy[o] = NULL

IInv ==
    /\ TypeOK /\ PagesAndCalls /\ AnswersHold /\ OpenNotEnded
    /\ ClosedUnpaid /\ GatewayPaymentStays

USE GatewayAssumption

-----------------------------------------------------------------------------
LEMMA InitIInv == Init => IInv
BY DEF Init, IInv, TypeOK, PagesAndCalls, AnswersHold, OpenNotEnded, ClosedUnpaid,
       GatewayPaymentStays, Handling, NewPage, Status, TradeState, EndedBy, Step, CallRow

\* Nothing changes.
LEMMA StutterIInv == ASSUME IInv, UNCHANGED vars PROVE IInv'
BY DEF vars, IInv, TypeOK, PagesAndCalls, AnswersHold, OpenNotEnded, ClosedUnpaid,
       GatewayPaymentStays, Handling

\* The orders table: a call or a page is not touched.
LEMMA PaySuccessIInv ==
    ASSUME IInv, NEW o \in Order, CanPay(o), PaySuccess(o), UNCHANGED txn
    PROVE  /\ order' \in [Order -> Status \cup {NULL}]
           /\ endedBy' \in [Order -> EndedBy \cup {NULL}]
           /\ OpenNotEnded' /\ ClosedUnpaid'
           /\ \A x \in Order : x \in polled =>
                 txn'[x] \in {"SUCCESS", "REFUND"} /\ (order'[x] = "paid" \/ endedBy'[x] = "desk")
           /\ order'[o] = "paid"
BY DEF IInv, TypeOK, CanPay, PaySuccess, Others, OpenNotEnded, ClosedUnpaid,
       GatewayPaymentStays, Status, EndedBy

LEMMA DeskIInv ==
    ASSUME IInv, NEW o \in Order,
           ConfirmOfflineOrderSucceeded(o) \/ DeclineOrder(o) \/ Pay(o) \/ Refund(o)
    PROVE  IInv'
<1>1. CASE ConfirmOfflineOrderSucceeded(o)
  <2>1. CanPay(o) /\ PaySuccess(o) /\ UNCHANGED <<polled, txn, page, call>>
    BY <1>1 DEF ConfirmOfflineOrderSucceeded
  <2> QED
    BY <2>1, PaySuccessIInv
    DEF IInv, TypeOK, PagesAndCalls, AnswersHold, Handling, GatewayPaymentStays
<1>2. CASE DeclineOrder(o)
  BY <1>2 DEF DeclineOrder, UpdateOrderStatus, IInv, TypeOK, PagesAndCalls, AnswersHold, Handling,
              OpenNotEnded, ClosedUnpaid, GatewayPaymentStays, Status, EndedBy
<1>3. CASE Pay(o)
  BY <1>3 DEF Pay, IInv, TypeOK, PagesAndCalls, AnswersHold, Handling,
              OpenNotEnded, ClosedUnpaid, GatewayPaymentStays, TradeState, CallRow
<1>4. CASE Refund(o)
  BY <1>4 DEF Refund, IInv, TypeOK, PagesAndCalls, AnswersHold, Handling,
              OpenNotEnded, ClosedUnpaid, GatewayPaymentStays, TradeState, CallRow
<1> QED
  BY <1>1, <1>2, <1>3, <1>4

\* The page without a call.
LEMMA PageIInv ==
    ASSUME IInv, NEW p \in Page,
           CreateWechatpayPrepay(p) \/ BridgeOk(p) \/ Leave(p) \/ \E o \in Order : CreateOrder(p, o)
    PROVE  IInv'
<1>1. CASE CreateWechatpayPrepay(p)
  <2>1. UNCHANGED <<order, polled, endedBy, call>> /\ page[p].order # NULL
    BY <1>1 DEF CreateWechatpayPrepay
  <2>2. CASE txn[page[p].order] \in {NULL, "NOTPAY"}
    <3>1. /\ txn' = [txn EXCEPT ![page[p].order] = "NOTPAY"]
          /\ page' = [page EXCEPT ![p].step = "cashier"]
          /\ page[p].step # "polling"
      BY <1>1, <2>2 DEF CreateWechatpayPrepay
    <3>2. TypeOK' /\ PagesAndCalls'
      BY <2>1, <3>1 DEF IInv, TypeOK, PagesAndCalls, Step, TradeState, CallRow
    <3>3. \A o \in Order : txn[o] \in {"CLOSED", "SUCCESS", "REFUND"} => txn'[o] = txn[o]
      BY <2>2, <3>1 DEF IInv, TypeOK, TradeState
    <3>4. AnswersHold'
      BY <2>1, <3>3 DEF IInv, TypeOK, AnswersHold, Handling, CallRow
    <3>5. ClosedUnpaid' /\ GatewayPaymentStays'
      BY <2>1, <3>1, <3>3 DEF IInv, TypeOK, ClosedUnpaid, GatewayPaymentStays
    <3> QED
      BY <2>1, <3>2, <3>4, <3>5 DEF IInv, OpenNotEnded
  <2>3. CASE txn[page[p].order] \notin {NULL, "NOTPAY"}
    <3>1. page' = [page EXCEPT ![p].step = "broken"] /\ txn' = txn /\ page[p].step # "polling"
      BY <1>1, <2>3 DEF CreateWechatpayPrepay
    <3>2. TypeOK' /\ PagesAndCalls'
      BY <2>1, <3>1 DEF IInv, TypeOK, PagesAndCalls, Step, CallRow
    <3> QED
      BY <2>1, <3>1, <3>2 DEF IInv, AnswersHold, Handling, OpenNotEnded, ClosedUnpaid,
         GatewayPaymentStays
  <2> QED
    BY <2>2, <2>3
<1>2. CASE BridgeOk(p)
  BY <1>2 DEF BridgeOk, IInv, TypeOK, PagesAndCalls, AnswersHold, Handling,
              OpenNotEnded, ClosedUnpaid, GatewayPaymentStays, CallRow, Step
<1>3. CASE Leave(p)
  BY <1>3 DEF Leave, NewPage, IInv, TypeOK, PagesAndCalls, AnswersHold, Handling,
              OpenNotEnded, ClosedUnpaid, GatewayPaymentStays, CallRow, Step
<1>4. ASSUME NEW o \in Order, CreateOrder(p, o) PROVE IInv'
  BY <1>4 DEF CreateOrder, IInv, TypeOK, PagesAndCalls, AnswersHold, Handling,
              OpenNotEnded, ClosedUnpaid, GatewayPaymentStays, CallRow, Status
<1> QED
  BY <1>1, <1>2, <1>3, <1>4

\* The page with a call.
LEMMA StartIInv ==
    ASSUME IInv, NEW p \in Page, NEW c \in Call,
           ConfirmPayment(p, c) \/ \E forget \in BOOLEAN : BridgeClose(p, c, forget)
    PROVE  IInv'
<1>1. CASE ConfirmPayment(p, c)
  <2>1. /\ call[c] = NULL
        /\ call' = [call EXCEPT ![c] = [of |-> page[p].order, from |-> p, phase |-> "ask"]]
        /\ page[p].step = "polling" /\ UNCHANGED <<order, polled, endedBy, txn, page>>
        /\ \A d \in Call : call[d] # NULL => call[d].from # p
    BY <1>1 DEF ConfirmPayment, Start, Awaited
  <2>2. [of |-> page[p].order, from |-> p, phase |-> "ask"] \in CallRow /\ p # NULL
    BY <2>1 DEF CallRow, Phase, IInv, TypeOK, PagesAndCalls
  <2>3. /\ call'[c] = [of |-> page[p].order, from |-> p, phase |-> "ask"]
        /\ \A d \in Call \ {c} : call'[d] = call[d]
    BY <2>1 DEF IInv, TypeOK
  <2>4. TypeOK'
    <3>1. call' \in [Call -> CallRow \cup {NULL}]
      BY <2>1, <2>2 DEF IInv, TypeOK
    <3>2. \A d, e \in Call : (call'[d] # NULL /\ call'[e] # NULL /\ call'[d].from # NULL
                                /\ call'[d].from = call'[e].from) => d = e
      BY <2>1, <2>3 DEF IInv, TypeOK
    <3> QED
      BY <2>1, <3>1, <3>2 DEF IInv, TypeOK
  <2>5. PagesAndCalls'
    BY <2>1, <2>3 DEF IInv, PagesAndCalls
  <2>6. AnswersHold'
    BY <2>1, <2>3 DEF IInv, AnswersHold, Handling
  <2> QED
    BY <2>1, <2>4, <2>5, <2>6 DEF IInv, OpenNotEnded, ClosedUnpaid, GatewayPaymentStays
<1>2. ASSUME NEW forget \in BOOLEAN, BridgeClose(p, c, forget) PROVE IInv'
  <2>1. /\ call[c] = NULL
        /\ call' = [call EXCEPT ![c] = [of |-> page[p].order, from |-> NULL, phase |-> "fail"]]
        /\ page[p].step = "cashier" /\ UNCHANGED <<order, polled, endedBy, txn>>
        /\ page' = [page EXCEPT ![p].step = "idle", ![p].order = IF forget THEN NULL ELSE @]
    BY <1>2 DEF BridgeClose, Start
  <2>2. [of |-> page[p].order, from |-> NULL, phase |-> "fail"] \in CallRow
    BY <2>1 DEF CallRow, Phase, IInv, TypeOK, PagesAndCalls
  <2>3. /\ call'[c] = [of |-> page[p].order, from |-> NULL, phase |-> "fail"]
        /\ \A d \in Call \ {c} : call'[d] = call[d]
    BY <2>1 DEF IInv, TypeOK
  <2>4. /\ page' \in [Page -> [order : Order \cup {NULL}, step : Step, counter : 0..MaxPolls]]
        /\ page'[p].step = "idle" /\ \A q \in Page \ {p} : page'[q] = page[q]
    <3> DEFINE rest == IF forget THEN NULL ELSE page[p].order
    <3>1. /\ page \in [Page -> [order : Order \cup {NULL}, step : Step, counter : 0..MaxPolls]]
          /\ rest \in Order \cup {NULL} /\ "idle" \in Step
      BY DEF IInv, TypeOK, Step
    <3>2. page' = [page EXCEPT ![p].step = "idle", ![p].order = rest]
      BY <2>1
    <3> HIDE DEF rest
    <3> QED
      BY <3>1, <3>2
  <2>5. TypeOK'
    <3>1. call' \in [Call -> CallRow \cup {NULL}]
      BY <2>1, <2>2 DEF IInv, TypeOK
    <3>2. \A d, e \in Call : (call'[d] # NULL /\ call'[e] # NULL /\ call'[d].from # NULL
                                /\ call'[d].from = call'[e].from) => d = e
      BY <2>1, <2>3 DEF IInv, TypeOK
    <3> QED
      BY <2>1, <2>4, <3>1, <3>2 DEF IInv, TypeOK
  <2>6. PagesAndCalls'
    <3>1. \A d \in Call : call[d] # NULL /\ call[d].from # NULL => call[d].from \in Page \ {p}
      BY <2>1 DEF IInv, TypeOK, CallRow, PagesAndCalls
    <3> QED
      BY <2>3, <2>4, <3>1 DEF IInv, PagesAndCalls
  <2>7. AnswersHold'
    BY <2>1, <2>3 DEF IInv, AnswersHold, Handling
  <2> QED
    BY <2>1, <2>5, <2>6, <2>7 DEF IInv, OpenNotEnded, ClosedUnpaid, GatewayPaymentStays
<1> QED
  BY <1>1, <1>2

\* A call ends and tells the page that waits for it, which no other call does.
LEMMA TellIInv ==
    ASSUME IInv, NEW c \in Call, call[c] # NULL,
           \/ \E step \in {"polling", "broken"} : Tell(c, step)
           \/ Redirect(c) \/ Count(c)
    PROVE  /\ page' \in [Page -> [order : Order \cup {NULL}, step : Step, counter : 0..MaxPolls]]
           /\ call' = [call EXCEPT ![c] = NULL]
           /\ PagesAndCalls'
<1> DEFINE p == call[c].from
<1>1. call' = [call EXCEPT ![c] = NULL]
  BY DEF Tell, Redirect, Count
<1>2. p \in Page \cup {NULL}
  BY DEF IInv, TypeOK, CallRow
<1>3. \A d \in Call : call'[d] # NULL => d # c /\ call'[d] = call[d]
  BY <1>1 DEF IInv, TypeOK
<1>4. CASE p = NULL
  <2>1. page' = page
    BY <1>4 DEF Tell, Redirect, Count
  <2> QED
    BY <1>1, <1>3, <2>1 DEF IInv, TypeOK, PagesAndCalls
<1>5. CASE p # NULL
  <2>1. p \in Page /\ page[p].step = "polling" /\ page[p].counter < MaxPolls
    BY <1>2, <1>5 DEF IInv, PagesAndCalls
  <2>2. \A d \in Call : call'[d] # NULL => call'[d].from # p
    BY <1>3, <1>5 DEF IInv, TypeOK
  <2>3. page[p].order \in Order /\ page[p].counter \in 0..MaxPolls
    BY <2>1 DEF IInv, TypeOK, PagesAndCalls
  <2>4. /\ page' \in [Page -> [order : Order \cup {NULL}, step : Step, counter : 0..MaxPolls]]
        /\ \A q \in Page \ {p} : page'[q] = page[q]
        /\ page'[p].step \in {"cashier", "polling"} =>
              page'[p].order # NULL /\ (page'[p].step = "polling" => page'[p].counter < MaxPolls)
    <3>1. ASSUME NEW step \in {"polling", "broken"}, Tell(c, step) PROVE <2>4!:
      BY <1>5, <2>1, <2>3, <3>1 DEF Tell, IInv, TypeOK, Step
    <3>2. CASE Redirect(c)
      BY <1>5, <2>1, <3>2 DEF Redirect, NewPage, IInv, TypeOK, Step
    <3>3. CASE Count(c)
      BY <1>5, <2>1, <2>3, <3>3 DEF Count, IInv, TypeOK, Step
    <3> QED
      BY <3>1, <3>2, <3>3
  <2>5. PagesAndCalls'
    BY <1>2, <1>3, <2>1, <2>2, <2>4 DEF IInv, TypeOK, CallRow, PagesAndCalls
  <2> QED
    BY <1>1, <2>4, <2>5
<1> QED
  BY <1>4, <1>5

LEMMA EndedCall ==
    ASSUME IInv, NEW c \in Call, call' = [call EXCEPT ![c] = NULL]
    PROVE  /\ call' \in [Call -> CallRow \cup {NULL}]
           /\ \A d, e \in Call : (call'[d] # NULL /\ call'[e] # NULL /\ call'[d].from # NULL
                                   /\ call'[d].from = call'[e].from) => d = e
           /\ UNCHANGED txn => AnswersHold'
BY DEF IInv, TypeOK, AnswersHold, Handling

\* A call goes on to its next phase.
LEMMA GoIInv ==
    ASSUME IInv, NEW c \in Call, call[c] # NULL, NEW phase \in Phase, UNCHANGED page,
           call' = [call EXCEPT ![c].phase = phase]
    PROVE  /\ call' \in [Call -> CallRow \cup {NULL}]
           /\ \A d \in Call : call'[d] # NULL => call[d] # NULL /\ call'[d].of = call[d].of
           /\ \A d, e \in Call : (call'[d] # NULL /\ call'[e] # NULL /\ call'[d].from # NULL
                                   /\ call'[d].from = call'[e].from) => d = e
           /\ \A d \in Call \ {c} : call'[d] = call[d]
           /\ call'[c].phase = phase /\ call'[c].of = call[c].of
           /\ PagesAndCalls'
BY DEF IInv, TypeOK, PagesAndCalls, CallRow

LEMMA ConfirmIInv ==
    ASSUME IInv, NEW c \in Call, GetPaymentByOrderId(c) \/ ConfirmPaid(c)
    PROVE  IInv'
<1>0. call[c] # NULL
  BY DEF GetPaymentByOrderId, ConfirmPaid, Handling
<1>o. call[c].of \in Order
  BY <1>0 DEF IInv, TypeOK, CallRow
<1>1. CASE GetPaymentByOrderId(c) /\ ((\E step \in {"polling", "broken"} : Tell(c, step)) \/ Count(c))
  <2>1. UNCHANGED <<order, polled, endedBy, txn>>
    BY <1>1 DEF GetPaymentByOrderId
  <2> QED
    BY <1>0, <1>1, <2>1, TellIInv, EndedCall DEF IInv, TypeOK, OpenNotEnded, ClosedUnpaid, GatewayPaymentStays
<1>2. CASE GetPaymentByOrderId(c) /\ txn[call[c].of] = "SUCCESS" /\ Go(c, "paid")
  <2>1. UNCHANGED <<order, polled, endedBy, txn, page>> /\ call' = [call EXCEPT ![c].phase = "paid"]
    BY <1>2 DEF GetPaymentByOrderId, Go
  <2>2. "paid" \in Phase
    BY DEF Phase
  <2>3. AnswersHold'
    BY <1>0, <1>2, <2>1, <2>2, GoIInv DEF AnswersHold, Handling, IInv
  <2> QED
    BY <1>0, <2>1, <2>2, <2>3, GoIInv DEF IInv, TypeOK, OpenNotEnded, ClosedUnpaid, GatewayPaymentStays
<1>3. CASE GetPaymentByOrderId(c) /\ Go(c, "fail")
  <2>1. UNCHANGED <<order, polled, endedBy, txn, page>> /\ call' = [call EXCEPT ![c].phase = "fail"]
    BY <1>3 DEF GetPaymentByOrderId, Go
  <2>2. "fail" \in Phase
    BY DEF Phase
  <2>3. AnswersHold'
    BY <1>0, <1>3, <2>1, <2>2, GoIInv DEF AnswersHold, Handling, IInv
  <2> QED
    BY <1>0, <2>1, <2>2, <2>3, GoIInv DEF IInv, TypeOK, OpenNotEnded, ClosedUnpaid, GatewayPaymentStays
<1>4. CASE ConfirmPaid(c) /\ ~ CanPay(call[c].of)
  <2>1. UNCHANGED <<order, polled, endedBy, txn>> /\ Tell(c, "broken")
    BY <1>4 DEF ConfirmPaid
  <2> QED
    BY <1>0, <2>1, TellIInv, EndedCall DEF IInv, TypeOK, OpenNotEnded, ClosedUnpaid, GatewayPaymentStays
<1>5. CASE ConfirmPaid(c) /\ CanPay(call[c].of)
  <2>1. /\ PaySuccess(call[c].of) /\ polled' = polled \cup {call[c].of} /\ Redirect(c)
        /\ UNCHANGED txn /\ Handling(c, "paid")
    BY <1>5 DEF ConfirmPaid
  <2>2. txn[call[c].of] \in {"SUCCESS", "REFUND"}
    BY <2>1 DEF IInv, AnswersHold
  <2>3. /\ page' \in [Page -> [order : Order \cup {NULL}, step : Step, counter : 0..MaxPolls]]
        /\ call' = [call EXCEPT ![c] = NULL] /\ PagesAndCalls'
    BY <1>0, <2>1, TellIInv
  <2>4. GatewayPaymentStays'
    BY <1>o, <1>5, <2>1, <2>2, PaySuccessIInv DEF GatewayPaymentStays
  <2> QED
    BY <1>o, <1>5, <2>1, <2>3, <2>4, PaySuccessIInv, EndedCall DEF IInv, TypeOK
<1> QED
  BY <1>1, <1>2, <1>3, <1>4, <1>5 DEF GetPaymentByOrderId, ConfirmPaid, Answered

LEMMA CloseIInv ==
    ASSUME IInv, NEW c \in Call, FailOrder(c) \/ CloseOrder(c) \/ Commit(c) \/ Rollback(c)
    PROVE  IInv'
<1>0. call[c] # NULL
  BY DEF FailOrder, CloseOrder, Commit, Rollback, Handling
<1>o. call[c].of \in Order
  BY <1>0 DEF IInv, TypeOK, CallRow
<1>1. CASE FailOrder(c)
  <2>1. UNCHANGED <<order, polled, endedBy, txn, page>> /\ call' = [call EXCEPT ![c].phase = "failing"]
    BY <1>1 DEF FailOrder
  <2>2. "failing" \in Phase
    BY DEF Phase
  <2>3. AnswersHold'
    BY <1>0, <2>1, <2>2, GoIInv DEF AnswersHold, Handling, IInv
  <2> QED
    BY <1>0, <2>1, <2>2, <2>3, GoIInv DEF IInv, TypeOK, OpenNotEnded, ClosedUnpaid, GatewayPaymentStays
<1>2. CASE CloseOrder(c)
  <2>1. PICK answer \in {"closed", "refused"} :
           /\ call' = [call EXCEPT ![c].phase = answer]
           /\ \/ txn[call[c].of] \in {"NOTPAY", "CLOSED"} /\ txn' = [txn EXCEPT ![call[c].of] = "CLOSED"]
              \/ answer = "refused" /\ UNCHANGED txn
    BY <1>2 DEF CloseOrder
  <2>2. answer \in Phase /\ UNCHANGED <<order, polled, endedBy, page>>
    BY <1>2 DEF CloseOrder, Phase
  <2>3. txn' \in [Order -> TradeState \cup {NULL}]
    BY <2>1 DEF IInv, TypeOK, TradeState
  <2>4. \A o \in Order : txn[o] \in {"CLOSED", "SUCCESS", "REFUND"} => txn'[o] = txn[o]
    BY <1>o, <2>1 DEF IInv, TypeOK
  <2>5. answer = "closed" => txn'[call[c].of] = "CLOSED"
    BY <1>o, <2>1 DEF IInv, TypeOK
  <2>6. \A d \in Call : call[d] # NULL => call[d].of \in Order
    BY DEF IInv, TypeOK, CallRow
  <2>7. AnswersHold'
    BY <1>0, <2>1, <2>2, <2>4, <2>5, <2>6, GoIInv DEF AnswersHold, Handling, IInv
  <2>8. ClosedUnpaid' /\ GatewayPaymentStays' /\ OpenNotEnded'
    BY <2>2, <2>4 DEF ClosedUnpaid, GatewayPaymentStays, OpenNotEnded, IInv
  <2> QED
    BY <1>0, <2>1, <2>2, <2>3, <2>7, <2>8, GoIInv DEF IInv, TypeOK
<1>3. CASE Commit(c)
  <2>1. /\ order' = [order EXCEPT ![call[c].of] = "failed"]
        /\ endedBy' = [endedBy EXCEPT ![call[c].of] = "close"]
        /\ UNCHANGED <<polled, txn>> /\ Tell(c, "polling")
    BY <1>3 DEF Commit, UpdateOrderStatus
  <2>2. txn[call[c].of] = "CLOSED"
    BY <1>3 DEF Commit, IInv, AnswersHold
  <2>3. order' \in [Order -> Status \cup {NULL}] /\ endedBy' \in [Order -> EndedBy \cup {NULL}]
    BY <2>1 DEF IInv, TypeOK, Status, EndedBy
  <2>4. OpenNotEnded'
    BY <1>o, <2>1 DEF IInv, TypeOK, OpenNotEnded, Status
  <2>5. ClosedUnpaid'
    BY <1>o, <2>1, <2>2 DEF IInv, TypeOK, ClosedUnpaid
  <2>6. GatewayPaymentStays'
    BY <1>o, <2>1, <2>2 DEF IInv, TypeOK, GatewayPaymentStays
  <2> QED
    BY <1>0, <2>1, <2>3, <2>4, <2>5, <2>6, TellIInv, EndedCall DEF IInv, TypeOK
<1>4. CASE Rollback(c)
  <2>1. UNCHANGED <<order, polled, endedBy, txn>> /\ Tell(c, "broken")
    BY <1>4 DEF Rollback
  <2> QED
    BY <1>0, <2>1, TellIInv, EndedCall DEF IInv, TypeOK, OpenNotEnded, ClosedUnpaid, GatewayPaymentStays
<1> QED
  BY <1>1, <1>2, <1>3, <1>4

LEMMA CrashIInv == ASSUME IInv, Crash PROVE IInv'
BY DEF Crash, Awaited, IInv, TypeOK, PagesAndCalls, AnswersHold, Handling, OpenNotEnded, ClosedUnpaid,
       GatewayPaymentStays, Step

LEMMA NextIInv == IInv /\ [Next]_vars => IInv'
BY StutterIInv, DeskIInv, PageIInv, StartIInv, ConfirmIInv, CloseIInv, CrashIInv DEF Next, Serve

-----------------------------------------------------------------------------
\* What ClosePayment commits the gateway has closed: the update of the order is rolled back
\* when the gateway refuses, does not answer, or the server stops in between.
THEOREM CloseAgrees == Spec => []Consistent
<1>1. IInv => Consistent
  BY DEF IInv, Consistent
<1> QED
  BY InitIInv, NextIInv, <1>1, PTL DEF Spec

\* An order that ConfirmOrderSucceeded found paid stays paid, whatever other calls and other
\* orders of the student do, unless the head quarter declines it.
THEOREM FoundStaysPaid == Spec => []GatewayPaymentStays
<1>1. IInv => GatewayPaymentStays
  BY DEF IInv
<1> QED
  BY InitIInv, NextIInv, <1>1, PTL DEF Spec

HIDE GatewayAssumption

------------------------------------------------------------------------------

Entry == 1 .. Len(heap)

Works(s) == scan[s].at \in Working

\* It has marked a session, and it has written its openid.
Marked(s)  == scan[s].at \in Working \ {"mark"}
Written(s) == scan[s].at \in Working \ {"mark", "exchange"}

Request == [at : Working \cup {"idle", "stuck", "done", "cut"},
            who : Person \cup {Nobody}, entry : Nat, knew : Nat]

ScanType == scan \in [Scan -> Request]

\* Objects are made for the page, by its form.
OfThePage ==
    \A e \in Entry : /\ heap[e].IsFromWechatClient = webpage.inplace
                     /\ webpage.stage = "signup" => heap[e].BasicInfo.phone \in Phone

\* A scan has the object it has read, if there was one, a person, and registers at a signup
\* page only.
Scans ==
    \A s \in Scan : /\ scan[s].entry \in Entry \cup {0}
                    /\ Works(s) => scan[s].who \in Person
                    /\ Written(s) => scan[s].entry # 0
                    /\ scan[s].at \in {"register", "insert"} => webpage.stage = "signup"

\* Whoever is registered since a scan has checked was inserted since.
Known ==
    /\ IsFiniteSet(users)
    /\ \A s \in Scan : scan[s].at = "insert" =>
          /\ scan[s].knew <= Cardinality(users)
          /\ Rows(scan[s].who) # {} => scan[s].knew < Cardinality(users)

\* An authorized object has been authorized by somebody.
Granted ==
    /\ \A e \in Entry : heap[e].Status = "AUTHORIZED" => heap[e].by # {}
    /\ poll.at = "token" => heap[poll.entry].by # {}

\* Whose openid is on the object was authorized on it, or nobody is.
Own(e) == heap[e].OpenId \in heap[e].by \cup {Nobody}

\* Unless scans have crossed one works at a time: what it finds on the object under the id is
\* its own mark, or nobody's when the page has opened its session again; and an answer is for
\* an object no marked scan works on.
Alone ==
    ~ crossed =>
        /\ \A s, o \in Scan : Works(s) /\ Works(o) => s = o
        /\ session # 0 /\ heap[session].Status = "AUTHORIZED" => Own(session)
        /\ \A s \in Scan : Works(s) => session \in {0, scan[s].entry} \/ heap[session].OpenId = Nobody
        /\ \A s \in Scan : Marked(s) =>
              /\ session # 0 /\ session = scan[s].entry => heap[session].Status # "AUTHORIZED"
              /\ poll.at = "token" => poll.entry # scan[s].entry
        /\ \A s \in Scan : Written(s) => heap[scan[s].entry].OpenId = scan[s].who
        /\ poll.at = "token" => Own(poll.entry)

\* What every step keeps for the same reasons.
Basics == LoginTypeOK /\ TokenAuthorized /\ InplaceCleared /\ ScanType /\ OfThePage /\ Scans

LoginIInv == Basics /\ RegisteredOnce /\ Known /\ Granted /\ Alone

------------------------------------------------------------------------------
(* Objects and requests.                                                   *)

LEMMA Entries ==
    ASSUME LoginTypeOK
    PROVE  /\ heap \in Seq(UserAuthInfo) /\ Len(heap) \in Nat /\ session \in Entry \cup {0} /\ DOMAIN heap = Entry
           /\ \A e \in Entry :
                /\ heap[e] \in UserAuthInfo /\ heap[e].OpenId \in Person \cup {Nobody}
                /\ heap[e].Status \in WechatAuthState /\ heap[e].BasicInfo \in BasicInfo
                /\ heap[e].IsFromWechatClient \in BOOLEAN /\ heap[e].sent \in 0 .. ChannelSize
                /\ heap[e].by \in SUBSET Person /\ e # 0
           /\ poll.at = "token" => poll.entry \in Entry
<1>1. heap \in Seq(UserAuthInfo) /\ session \in 0 .. Len(heap)
      /\ poll \in [at : {"idle"}, entry : {0}] \cup [at : {"token"}, entry : 1 .. Len(heap)]
  BY DEF LoginTypeOK
<1>2. Len(heap) \in Nat /\ DOMAIN heap = Entry /\ \A e \in Entry : heap[e] \in UserAuthInfo /\ e # 0
  BY <1>1 DEF Entry
<1>3. session \in Entry \cup {0}
  BY <1>1, <1>2 DEF Entry
<1>4. poll.at = "token" => poll.entry \in Entry
  BY <1>1 DEF Entry
<1> QED
  BY <1>1, <1>2, <1>3, <1>4 DEF UserAuthInfo

\* An object that is written on: everything but who is on it, and how far it is, stays.
HeapKept ==
    /\ heap' \in Seq(UserAuthInfo) /\ Len(heap') = Len(heap)
    /\ \A e \in Entry : /\ heap'[e].BasicInfo = heap[e].BasicInfo
                        /\ heap'[e].IsFromWechatClient = heap[e].IsFromWechatClient
                        /\ heap[e].by \subseteq heap'[e].by

Rewritten(e, row) == HeapKept /\ heap'[e] = row /\ \A k \in Entry : k # e => heap'[k] = heap[k]

LEMMA Writes ==
    ASSUME LoginTypeOK, NEW e \in Entry, NEW row \in UserAuthInfo, heap' = [heap EXCEPT ![e] = row],
           row.BasicInfo = heap[e].BasicInfo, row.IsFromWechatClient = heap[e].IsFromWechatClient,
           heap[e].by \subseteq row.by
    PROVE  Rewritten(e, row)
<1>1. heap \in Seq(UserAuthInfo) /\ Len(heap) \in Nat
  BY Entries
<1>2. heap' \in Seq(UserAuthInfo) /\ Len(heap') = Len(heap)
  BY <1>1 DEF Entry
<1>3. heap'[e] = row /\ \A k \in Entry : k # e => heap'[k] = heap[k]
  BY <1>1, Entries DEF Entry
<1> QED
  BY <1>2, <1>3 DEF Rewritten, HeapKept

LEMMA HeapSame == ASSUME LoginTypeOK, heap' = heap PROVE HeapKept
BY Entries DEF HeapKept

\* Request s goes on, or ends: it works with what it has.
Moved(s) ==
    /\ ScanType' /\ scan'[s].entry \in {0, scan[s].entry}
    /\ Works(s)' => scan'[s].who = scan[s].who /\ scan'[s].entry = scan[s].entry
    /\ \A o \in Scan : o # s => scan'[o] = scan[o]

LEMMA Moves ==
    ASSUME ScanType, NEW s \in Scan, NEW q \in Request, scan' = [scan EXCEPT ![s] = q],
           q.entry \in {0, scan[s].entry},
           q.at \in Working => q.who = scan[s].who /\ q.entry = scan[s].entry
    PROVE  Moved(s) /\ scan'[s] = q
<1>1. scan'[s] = q /\ \A o \in Scan : o # s => scan'[o] = scan[o]
  BY DEF ScanType
<1>2. ScanType'
  BY DEF ScanType
<1> QED
  BY <1>1, <1>2 DEF Moved, Works

\* A request that panics, or that a full channel holds.
LEMMA Leaves ==
    ASSUME ScanType, NEW s \in Scan, NEW at \in {"stuck", "cut"}, scan' = [scan EXCEPT ![s] = Gone(at)]
    PROVE  Moved(s) /\ scan'[s].at = at /\ scan'[s].entry = 0
<1>1. PICK q : q = Gone(at)
  OBVIOUS
<1>2. q \in Request /\ q.at = at /\ q.entry = 0 /\ q.at \notin Working
  BY <1>1 DEF Gone, Request, Working
<1> QED
  BY <1>1, <1>2, Moves

LEMMA Ends ==
    ASSUME LoginTypeOK, ScanType, NEW s \in Scan, End(s)
    PROVE  /\ Moved(s) /\ scan'[s].at = "done" /\ session' \in {0, session}
           /\ webpage.inplace => session' = 0
           /\ session' # session => webpage.inplace
<1>1. PICK r : r = scan[s]
  OBVIOUS
<1>2. PICK q : q = [Gone("done") EXCEPT !.entry = r.entry]
  OBVIOUS
<1>3. r \in Request
  BY <1>1 DEF ScanType
<1>4. q \in Request /\ q.at = "done" /\ q.entry = r.entry /\ q.at \notin Working
  BY <1>2, <1>3 DEF Gone, Request, Working
<1>5. scan' = [scan EXCEPT ![s] = q]
  BY <1>1, <1>2 DEF End
<1>6. Moved(s) /\ scan'[s].at = "done"
  BY <1>1, <1>4, <1>5, Moves
<1> QED
  BY <1>6 DEF End, ClearUserAuthInfoCache

\* What a request does on its own object, or on the one under the id.
LEMMA Acted ==
    ASSUME LoginIInv, NEW s \in Scan, ScanType', \A o \in Scan : o # s => scan'[o] = scan[o],
           scan'[s].entry \in Entry \cup {0},
           Works(s)' => scan'[s].who \in Person,
           Written(s)' => scan'[s].entry # 0,
           scan'[s].at \in {"register", "insert"} => webpage.stage = "signup",
           scan'[s].at = "done" /\ webpage.inplace => session' = 0,
           HeapKept, session' \in {0, session}, UNCHANGED <<webpage, poll>>,
           crossed' \in BOOLEAN, crossed => crossed', users' \subseteq UserRow, stale' \subseteq users'
    PROVE  Basics'
<1>1. LoginTypeOK /\ ScanType /\ Scans /\ OfThePage /\ TokenAuthorized /\ InplaceCleared
  BY DEF LoginIInv, Basics
<1>2. Len(heap') = Len(heap) /\ Entry' = Entry /\ heap' \in Seq(UserAuthInfo)
  BY DEF HeapKept, Entry
<1>3. Scans'
  <2> SUFFICES ASSUME NEW o \in Scan
               PROVE  /\ scan'[o].entry \in Entry \cup {0}
                      /\ Works(o)' => scan'[o].who \in Person
                      /\ Written(o)' => scan'[o].entry # 0
                      /\ scan'[o].at \in {"register", "insert"} => webpage.stage = "signup"
    BY <1>2 DEF Scans
  <2>1. CASE o = s
    BY <2>1
  <2>2. CASE o # s
    BY <1>1, <2>2 DEF Scans, Works, Written
  <2> QED
    BY <2>1, <2>2
<1>4. LoginTypeOK'
  <2>0. Len(heap) \in Nat
    BY <1>1, Entries
  <2>1. \A o \in Scan : /\ scan'[o].at \in Working \cup {"idle", "stuck", "done", "cut"}
                        /\ scan'[o].entry \in 0 .. Len(heap')
                        /\ scan'[o].at \in Working => scan'[o].who \in Person
                        /\ scan'[o].at \in Working \ {"mark", "exchange"} => scan'[o].entry # 0
    BY <1>2, <1>3, <2>0 DEF ScanType, Request, Scans, Works, Written, Entry
  <2>2. session' \in 0 .. Len(heap')
    BY <1>1, <1>2, <2>0 DEF LoginTypeOK
  <2> QED
    BY <1>1, <1>2, <2>1, <2>2 DEF LoginTypeOK
<1>5. OfThePage'
  BY <1>1, <1>2 DEF OfThePage, HeapKept
<1>6. TokenAuthorized'
  BY <1>1, <1>2 DEF TokenAuthorized, HeapKept, Entry
<1>7. InplaceCleared'
  <2> SUFFICES ASSUME NEW o \in Scan, scan'[o].at = "done", webpage.inplace, scan'[o].entry # 0
               PROVE  session' # scan'[o].entry
    BY DEF InplaceCleared
  <2>1. CASE o = s
    BY <2>1
  <2>2. CASE o # s
    BY <1>1, <2>2 DEF InplaceCleared
  <2> QED
    BY <2>1, <2>2
<1> QED
  BY <1>3, <1>4, <1>5, <1>6, <1>7 DEF Basics

\* What holds of a request that has worked holds on, whatever it does.
LEMMA Worked ==
    ASSUME LoginIInv, NEW s \in Scan, Works(s), Moved(s), HeapKept, session' \in {0, session},
           Written(s)' => scan[s].entry # 0,
           scan'[s].at \in {"register", "insert"} => webpage.stage = "signup",
           scan'[s].at = "done" /\ webpage.inplace => session' = 0,
           UNCHANGED <<webpage, poll>>, crossed' \in BOOLEAN, crossed => crossed',
           users' \subseteq UserRow, stale' \subseteq users'
    PROVE  Basics'
<1>1. scan[s].entry \in Entry \cup {0} /\ scan[s].who \in Person
  BY DEF LoginIInv, Basics, Scans
<1>2. /\ ScanType' /\ scan'[s].entry \in {0, scan[s].entry}
      /\ Works(s)' => scan'[s].who = scan[s].who /\ scan'[s].entry = scan[s].entry
      /\ \A o \in Scan : o # s => scan'[o] = scan[o]
  BY DEF Moved
<1>3. Written(s)' => Works(s)'
  BY DEF Written, Works
<1> QED
  BY <1>1, <1>2, <1>3, Acted

\* Nobody is registered.
LEMMA RegisteredKept ==
    ASSUME RegisteredOnce, UNCHANGED <<users, stale>>
    PROVE  RegisteredOnce'
BY DEF RegisteredOnce

LEMMA KnownKept ==
    ASSUME Known, UNCHANGED users, \A o \in Scan : scan'[o].at = "insert" => scan'[o] = scan[o]
    PROVE  Known'
BY DEF Known, Rows

\* A request that goes on has not crossed another, and one that does not is in nobody's way.
LEMMA AloneKept ==
    ASSUME Alone, UNCHANGED <<heap, crossed>>, session' \in {0, session},
           poll'.at = "token" => poll' = poll,
           \A o \in Scan : /\ Works(o)' => Works(o) /\ scan'[o].entry = scan[o].entry /\ scan'[o].who = scan[o].who
                           /\ Marked(o)' => Marked(o)
                           /\ Written(o)' => Written(o)
    PROVE  Alone'
<1> SUFFICES ASSUME ~ crossed PROVE Alone'
  BY DEF Alone
<1>1. \A o \in Scan : (Marked(o) => Works(o)) /\ (Written(o) => Marked(o))
                      /\ (Marked(o)' => Works(o)') /\ (Written(o)' => Marked(o)')
  BY DEF Marked, Works, Written
<1>2. \A e : Own(e)' <=> Own(e)
  <2> TAKE e
  <2> QED
    BY DEF Own
<1>3. \A s, o \in Scan : Works(s)' /\ Works(o)' => s = o
  BY DEF Alone
<1>4. session' # 0 /\ heap'[session'].Status = "AUTHORIZED" => Own(session)'
  BY DEF Alone, Own
<1>5. \A s \in Scan : Works(s)' => session' \in {0, scan'[s].entry} \/ heap'[session'].OpenId = Nobody
  BY DEF Alone
<1>6. \A s \in Scan : Marked(s)' =>
              /\ session' # 0 /\ session' = scan'[s].entry => heap'[session'].Status # "AUTHORIZED"
              /\ poll'.at = "token" => poll'.entry # scan'[s].entry
  BY <1>1 DEF Alone
<1>7. \A s \in Scan : Written(s)' => heap'[scan'[s].entry].OpenId = scan'[s].who
  BY <1>1 DEF Alone
<1>8. poll'.at = "token" => Own(poll.entry)'
  BY DEF Alone, Own
<1> QED
  BY <1>3, <1>4, <1>5, <1>6, <1>7, <1>8 DEF Alone

\* A request that goes on, or ends, without writing on an object.
LEMMA MovedInv ==
    ASSUME LoginIInv, NEW s \in Scan, Works(s), Moved(s), UNCHANGED <<heap, webpage, poll, crossed>>,
           session' \in {0, session}, Marked(s)' => Marked(s), Written(s)' => Written(s),
           scan'[s].at \in {"register", "insert"} => webpage.stage = "signup",
           scan'[s].at = "done" /\ webpage.inplace => session' = 0,
           users' \subseteq UserRow, stale' \subseteq users'
    PROVE  Basics' /\ Granted' /\ Alone'
<1>1. LoginTypeOK /\ Scans /\ Granted /\ Alone /\ crossed \in BOOLEAN
  BY DEF LoginIInv, Basics, LoginTypeOK
<1>2. Written(s)' => scan[s].entry # 0
  BY <1>1 DEF Scans
<1>3. Basics'
  BY <1>1, <1>2, HeapSame, Worked
<1>4. Granted'
  BY <1>1 DEF Granted, Entry
<1>5. \A o \in Scan :
         /\ Works(o)' => Works(o) /\ scan'[o].entry = scan[o].entry /\ scan'[o].who = scan[o].who
         /\ Marked(o)' => Marked(o)
         /\ Written(o)' => Written(o)
  <2> TAKE o \in Scan
  <2>1. CASE o = s
    BY <2>1 DEF Moved
  <2>2. CASE o # s
    BY <2>2 DEF Moved, Works, Marked, Written
  <2> QED
    BY <2>1, <2>2
<1>6. Alone'
  BY <1>1, <1>5, AloneKept
<1> QED
  BY <1>3, <1>4, <1>6

\* A request that ends.
LEMMA EndIInv ==
    ASSUME LoginIInv, NEW s \in Scan, Works(s), End(s), UNCHANGED <<heap, webpage, poll, users, stale, crossed>>
    PROVE  LoginIInv'
<1>1. LoginTypeOK /\ ScanType /\ Known /\ RegisteredOnce /\ users \subseteq UserRow /\ stale \subseteq users
  BY DEF LoginIInv, Basics, LoginTypeOK
<1>2. /\ Moved(s) /\ scan'[s].at = "done" /\ session' \in {0, session}
      /\ webpage.inplace => session' = 0
  BY <1>1, Ends
<1>3. ~ Marked(s)' /\ ~ Written(s)'
  BY <1>2 DEF Marked, Written, Working
<1>4. Basics' /\ Granted' /\ Alone'
  BY <1>1, <1>2, <1>3, MovedInv
<1>5. \A o \in Scan : scan'[o].at = "insert" => scan'[o] = scan[o]
  BY <1>2 DEF Moved
<1> QED
  BY <1>1, <1>4, <1>5, KnownKept, RegisteredKept DEF LoginIInv

LEMMA LoginInitIInv == ASSUME PersonsAssumption, LoginInit PROVE LoginIInv
<1>1. scan = [s \in Scan |-> Gone("idle")] /\ heap = << >> /\ session = 0 /\ poll = IdlePoll
      /\ stale = {} /\ crossed = FALSE
  BY DEF LoginInit
<1>2. Len(heap) = 0 /\ Entry = {} /\ heap \in Seq(UserAuthInfo)
  BY <1>1 DEF Entry
<1>3. \A s \in Scan : scan[s].at = "idle" /\ ~ Works(s) /\ scan[s] = Gone("idle") /\ scan[s].entry = 0
  BY <1>1 DEF Gone, Works, Working
<1>4. webpage.at = "form" /\ webpage.token = Nobody
      /\ webpage \in [at : {"form", "shown", "in", "stopped"}, stage : Stage, role : Role,
                   inplace : BOOLEAN, token : Person \cup {Nobody}]
  BY DEF LoginInit
<1>5. /\ users \subseteq UserRow
      /\ \A u, w \in users : u.openid = w.openid => u = w
      /\ IsFiniteSet(users)
  <2> DEFINE A == {[openid |-> p, phone |-> p, role |-> "AGENT"] : p \in Owners}
             B == {[openid |-> p, phone |-> p, role |-> "STUDENT"] : p \in Pupils}
  <2>1. users = A \cup B
    BY DEF LoginInit
  <2>3. \A u \in A : u.openid \in Owners /\ u = [openid |-> u.openid, phone |-> u.openid, role |-> "AGENT"]
    OBVIOUS
  <2>4. \A u \in B : u.openid \in Pupils /\ u = [openid |-> u.openid, phone |-> u.openid, role |-> "STUDENT"]
    OBVIOUS
  <2>2. IsFiniteSet(A) /\ IsFiniteSet(B)
    <3> DEFINE f == [p \in Owners |-> [openid |-> p, phone |-> p, role |-> "AGENT"]]
               g == [p \in Pupils |-> [openid |-> p, phone |-> p, role |-> "STUDENT"]]
    <3>1. f \in Surjection(Owners, A)
      BY DEF Surjection
    <3>2. g \in Surjection(Pupils, B)
      BY DEF Surjection
    <3> HIDE DEF A, B, f, g
    <3> QED
      BY <3>1, <3>2, PersonsAssumption, FS_Surjection DEF PersonsAssumption
  <2>5. \A u, w \in A \cup B : u.openid = w.openid => u = w
    BY <2>3, <2>4 DEF PersonsAssumption
  <2>6. A \cup B \subseteq UserRow
    <3>1. \A p \in Person, r \in Role : [openid |-> p, phone |-> p, role |-> r] \in UserRow
      BY DEF UserRow
    <3> HIDE DEF A, B
    <3> QED
      BY <2>3, <2>4, <3>1, PersonsAssumption DEF PersonsAssumption, Role
  <2>7. IsFiniteSet(A \cup B)
    BY <2>2, FS_Union
  <2> HIDE DEF A, B
  <2> QED
    BY <2>1, <2>5, <2>6, <2>7
<1>6. LoginTypeOK
  <2>1. session \in 0 .. Len(heap) /\ Len(heap) <= MaxInits
    BY <1>1, <1>2 DEF PersonsAssumption
  <2>2. \A s \in Scan :
          /\ scan[s].at \in Working \cup {"idle", "stuck", "done", "cut"}
          /\ scan[s].entry \in 0 .. Len(heap)
          /\ scan[s].at \in Working => scan[s].who \in Person
          /\ scan[s].at \in Working \ {"mark", "exchange"} => scan[s].entry # 0
    BY <1>2, <1>3 DEF Works
  <2>3. poll \in [at : {"idle"}, entry : {0}]
    BY <1>1 DEF IdlePoll
  <2> QED
    BY <1>1, <1>2, <1>4, <1>5, <2>1, <2>2, <2>3 DEF LoginTypeOK
<1>7. TokenAuthorized /\ InplaceCleared /\ RegisteredOnce
  BY <1>3, <1>4, <1>5 DEF TokenAuthorized, InplaceCleared, RegisteredOnce
<1>8. ScanType /\ OfThePage /\ Scans
  BY <1>1, <1>2, <1>3 DEF ScanType, Request, OfThePage, Scans, Gone, Working, Works, Written
<1>9. Known
  BY <1>3, <1>5 DEF Known
<1>10. Granted /\ Alone
  BY <1>1, <1>2, <1>3 DEF Granted, Alone, IdlePoll, Works, Marked, Written
<1> QED
  BY <1>6, <1>7, <1>8, <1>9, <1>10 DEF LoginIInv, Basics

\* An object is made, with nobody on it.
LEMMA OpenIInv ==
    ASSUME LoginIInv, NEW form \in BasicInfo, InitUserAuthInfoCache(form) PROVE LoginIInv'
<1> DEFINE row == [OpenId |-> Nobody, Status |-> "INIT", BasicInfo |-> form,
                   IsFromWechatClient |-> webpage.inplace, sent |-> 0, by |-> {}]
<1>0. PICK n : n = Len(heap) + 1
  OBVIOUS
<1>1. LoginTypeOK /\ ScanType /\ OfThePage /\ Scans /\ Known /\ Granted /\ Alone
      /\ TokenAuthorized /\ InplaceCleared /\ RegisteredOnce
  BY DEF LoginIInv, Basics
<1>2. /\ heap \in Seq(UserAuthInfo) /\ Len(heap) \in Nat /\ Len(heap) < MaxInits
      /\ webpage.inplace \in BOOLEAN
      /\ webpage.stage \in Stage
  BY <1>1, Entries DEF InitUserAuthInfoCache, LoginTypeOK
<1>3. row \in UserAuthInfo
  BY <1>2 DEF UserAuthInfo, WechatAuthState, ChannelSize
<1>4. heap' = Append(heap, row) /\ session' = n /\ UNCHANGED <<scan, poll, users, stale, crossed>>
      /\ webpage' = [webpage EXCEPT !.at = "shown"]
  BY <1>0 DEF InitUserAuthInfoCache
<1>5. webpage.stage = "signup" => form.phone \in Phone
  BY DEF InitUserAuthInfoCache
<1>6. PICK new : new = row
  OBVIOUS
<1>7. new \in UserAuthInfo /\ new.OpenId = Nobody /\ new.Status = "INIT" /\ new.by = {}
      /\ new.BasicInfo = form /\ new.IsFromWechatClient = webpage.inplace
  BY <1>3, <1>6
<1>8. /\ heap' \in Seq(UserAuthInfo) /\ Len(heap') = n /\ heap'[n] = new
      /\ \A e \in Entry : heap'[e] = heap[e]
  BY <1>0, <1>2, <1>4, <1>6, <1>7 DEF Entry
<1>9. Entry' = Entry \cup {n} /\ n \notin Entry /\ n \in Nat /\ n # 0
  BY <1>0, <1>2, <1>8 DEF Entry
<1>10. /\ webpage' \in [at : {"form", "shown", "in", "stopped"}, stage : Stage, role : Role,
                     inplace : BOOLEAN, token : Person \cup {Nobody}]
       /\ webpage'.inplace = webpage.inplace /\ webpage'.stage = webpage.stage /\ webpage'.token = webpage.token
  BY <1>1, <1>4 DEF LoginTypeOK
<1> HIDE DEF row
<1>11. \A s \in Scan : (Works(s)' <=> Works(s)) /\ (Marked(s)' <=> Marked(s)) /\ (Written(s)' <=> Written(s))
                       /\ scan'[s] = scan[s] /\ (Marked(s) => Works(s)) /\ (Written(s) => Works(s))
  BY <1>4 DEF Works, Marked, Written
<1>12. Scans' /\ ScanType'
  BY <1>1, <1>4, <1>9, <1>10, <1>11 DEF Scans, ScanType
<1>13. LoginTypeOK'
  <2>1. session' \in 0 .. Len(heap') /\ Len(heap') <= MaxInits
    BY <1>0, <1>2, <1>4, <1>8, PersonsAssumption DEF PersonsAssumption
  <2>2. \A s \in Scan :
          /\ scan'[s].at \in Working \cup {"idle", "stuck", "done", "cut"}
          /\ scan'[s].entry \in 0 .. Len(heap')
          /\ scan'[s].at \in Working => scan'[s].who \in Person
          /\ scan'[s].at \in Working \ {"mark", "exchange"} => scan'[s].entry # 0
    BY <1>8, <1>9, <1>12 DEF Scans, ScanType, Request, Works, Written, Entry
  <2>3. poll' \in [at : {"idle"}, entry : {0}] \cup [at : {"token"}, entry : 1 .. Len(heap')]
    BY <1>1, <1>4, <1>9 DEF LoginTypeOK, Entry
  <2> QED
    BY <1>1, <1>4, <1>8, <1>10, <2>1, <2>2, <2>3 DEF LoginTypeOK
<1>14. TokenAuthorized'
  BY <1>1, <1>4, <1>8, <1>9, <1>10 DEF TokenAuthorized, Entry
<1>15. RegisteredOnce' /\ Known'
  BY <1>1, <1>4, RegisteredKept, KnownKept
<1>16. InplaceCleared'
  <2> SUFFICES ASSUME NEW s \in Scan, scan[s].entry # 0 PROVE scan[s].entry # n
    BY <1>4 DEF InplaceCleared
  <2> QED
    BY <1>1, <1>9 DEF Scans
<1>17. OfThePage'
  BY <1>1, <1>5, <1>7, <1>8, <1>9, <1>10 DEF OfThePage
<1>18. Granted'
  <2>1. poll.at = "token" => poll.entry \in Entry
    BY <1>1, Entries
  <2> QED
    BY <1>1, <1>4, <1>7, <1>8, <1>9, <2>1 DEF Granted
<1>19. Alone'
  <2>1. poll.at = "token" => poll.entry \in Entry
    BY <1>1, Entries
  <2>2. \A e \in Entry : heap'[e].OpenId = heap[e].OpenId /\ heap'[e].by = heap[e].by /\ heap'[e].Status = heap[e].Status
    BY <1>8
  <2>3. \A e \in Entry : Own(e)' <=> Own(e)
    BY <2>2 DEF Own
  <2>4. \A s \in Scan : /\ scan[s].entry \in Entry \cup {0}
                        /\ Written(s) => scan[s].entry \in Entry
    BY <1>1 DEF Scans
  <2>5. heap'[n].Status = "INIT" /\ heap'[n].OpenId = Nobody
    BY <1>7, <1>8
  <2>6. poll.at = "token" => (Own(poll.entry)' <=> Own(poll.entry))
    BY <1>4, <2>1, <2>2 DEF Own
  <2> QED
    BY <1>1, <1>4, <1>9, <1>11, <2>2, <2>4, <2>5, <2>6 DEF Alone
<1> QED
  BY <1>12, <1>13, <1>14, <1>15, <1>16, <1>17, <1>18, <1>19 DEF LoginIInv, Basics

------------------------------------------------------------------------------
(* The phone's request.                                                    *)

\* Request s starts with the pointer it reads.
LEMMA RedirectIInv ==
    ASSUME LoginIInv, NEW s \in Scan, NEW p \in Person, WechatRedirectHandler(s, p) PROVE LoginIInv'
<1>1. LoginTypeOK /\ ScanType /\ Known /\ Granted /\ Alone /\ RegisteredOnce
  BY DEF LoginIInv, Basics
<1>2. /\ scan[s].at = "idle" /\ UNCHANGED <<heap, session, webpage, poll, users, stale>>
      /\ crossed' = (crossed \/ Meets(s))
      /\ users \subseteq UserRow /\ stale \subseteq users /\ session \in Entry \cup {0} /\ session \in Nat
  BY <1>1, Entries DEF WechatRedirectHandler, LoginTypeOK, Entry
<1>3. crossed' \in BOOLEAN /\ (crossed => crossed')
  BY <1>1, <1>2 DEF LoginTypeOK, Meets
<1>4. ~ crossed' => poll.at # "token" /\ ~ crossed /\ \A o \in Scan \ {s} : ~ Works(o)
  BY <1>2 DEF Works, Meets
<1>5. PICK q : q = [at |-> "mark", who |-> p, entry |-> session, knew |-> 0]
  OBVIOUS
<1>6. scan' = [scan EXCEPT ![s] = q]
  BY <1>5 DEF WechatRedirectHandler
<1>7. q \in Request /\ q.at = "mark" /\ q.who = p /\ q.entry = session
  BY <1>2, <1>5 DEF Request, Working
<1>8. scan'[s] = q /\ (\A o \in Scan : o # s => scan'[o] = scan[o]) /\ ScanType'
  BY <1>1, <1>6, <1>7 DEF ScanType
<1>9. ~ Written(s)' /\ ~ Marked(s)' /\ Works(s)'
  BY <1>7, <1>8 DEF Written, Marked, Works, Working
<1>10. Basics'
  BY <1>1, <1>2, <1>3, <1>7, <1>8, <1>9, HeapSame, Acted
<1>11. Known' /\ RegisteredOnce'
  <2>1. \A o \in Scan : scan'[o].at = "insert" => scan'[o] = scan[o]
    BY <1>7, <1>8
  <2> QED
    BY <1>1, <1>2, <2>1, KnownKept, RegisteredKept
<1>12. Granted'
  BY <1>1, <1>2 DEF Granted, Entry
<1>13. Alone'
  <2> SUFFICES ASSUME ~ crossed' PROVE Alone'
    BY DEF Alone
  <2>1. ~ crossed /\ poll'.at # "token"
    BY <1>2, <1>4
  <2>2. \A o \in Scan : o # s => ~ Works(o)' /\ ~ Marked(o)' /\ ~ Written(o)'
    BY <1>4, <1>8 DEF Works, Marked, Written
  <2>3. session' # 0 /\ heap'[session'].Status = "AUTHORIZED" => Own(session)'
    BY <1>1, <1>2, <2>1 DEF Alone, Own
  <2>4. scan'[s].entry = session'
    BY <1>2, <1>7, <1>8
  <2> QED
    BY <1>9, <2>1, <2>2, <2>3, <2>4 DEF Alone
<1> QED
  BY <1>10, <1>11, <1>12, <1>13 DEF LoginIInv

\* The session under the id is marked; without one the handler panics.
LEMMA MarkIInv ==
    ASSUME LoginIInv, NEW s \in Scan, MarkScanned(s) PROVE LoginIInv'
<1>1. LoginTypeOK /\ ScanType /\ Scans /\ Known /\ Granted /\ Alone /\ RegisteredOnce
  BY DEF LoginIInv, Basics
<1>2. /\ scan[s].at = "mark" /\ Works(s) /\ UNCHANGED <<session, webpage, poll, users, stale>>
      /\ crossed' = (crossed \/ Meets(s))
      /\ users \subseteq UserRow /\ stale \subseteq users
  BY <1>1 DEF MarkScanned, LoginTypeOK, Works, Working
<1>3. crossed' \in BOOLEAN /\ (crossed => crossed')
  BY <1>1, <1>2 DEF LoginTypeOK, Meets
<1>4. ~ crossed' => poll.at # "token" /\ ~ crossed /\ \A o \in Scan \ {s} : ~ Works(o)
  BY <1>2 DEF Works, Meets
<1>5. CASE session = 0
  <2>1. heap' = heap /\ scan' = [scan EXCEPT ![s] = Gone("cut")]
    BY <1>5 DEF MarkScanned
  <2>2. Moved(s) /\ scan'[s].at = "cut"
    BY <1>1, <2>1, Leaves
  <2>3. ~ Works(s)' /\ ~ Marked(s)' /\ ~ Written(s)'
    BY <2>2 DEF Works, Marked, Written, Working
  <2>4. Basics'
    BY <1>1, <1>2, <1>3, <2>1, <2>2, <2>3, HeapSame, Worked
  <2>5. Known' /\ RegisteredOnce'
    <3>1. \A o \in Scan : scan'[o].at = "insert" => scan'[o] = scan[o]
      BY <2>2 DEF Moved
    <3> QED
      BY <1>1, <1>2, <3>1, KnownKept, RegisteredKept
  <2>6. Granted'
    BY <1>1, <1>2, <2>1 DEF Granted, Entry
  <2>7. Alone'
    <3> SUFFICES ASSUME ~ crossed' PROVE Alone'
      BY DEF Alone
    <3>1. ~ crossed /\ poll'.at # "token"
      BY <1>2, <1>4
    <3>2. \A o \in Scan : ~ Works(o)' /\ ~ Marked(o)' /\ ~ Written(o)'
      BY <1>4, <2>2, <2>3 DEF Moved, Works, Marked, Written
    <3> QED
      BY <1>2, <1>5, <3>1, <3>2 DEF Alone
  <2> QED
    BY <2>4, <2>5, <2>6, <2>7 DEF LoginIInv
<1>6. CASE session # 0
  <2>1. session \in Entry /\ heap[session] \in UserAuthInfo /\ heap[session].sent \in 0 .. ChannelSize
    BY <1>1, <1>6, Entries
  <2>2. PICK r : r = heap[session]
    OBVIOUS
  <2>3. PICK n : n = IF r.sent = ChannelSize THEN r.sent ELSE r.sent + 1
    OBVIOUS
  <2>4. n \in 0 .. ChannelSize
    BY <2>1, <2>2, <2>3 DEF ChannelSize
  <2>5. PICK row : row = [r EXCEPT !.Status = "CODE_SCANNED", !.sent = n]
    OBVIOUS
  <2>6. /\ row \in UserAuthInfo /\ row.Status = "CODE_SCANNED" /\ row.by = r.by /\ row.OpenId = r.OpenId
        /\ row.BasicInfo = r.BasicInfo /\ row.IsFromWechatClient = r.IsFromWechatClient
    BY <2>1, <2>2, <2>4, <2>5 DEF UserAuthInfo, WechatAuthState
  <2>7. heap' = [heap EXCEPT ![session] = row]
    BY <1>6, <2>1, <2>2, <2>3, <2>5 DEF MarkScanned
  <2>8. Rewritten(session, row)
    BY ONLY <1>1, <2>1, <2>2, <2>6, <2>7, Writes
  <2>9. Moved(s) /\ scan'[s].at \in {"stuck", "exchange"}
    <3>1. PICK old : old = scan[s]
      OBVIOUS
    <3>2. old \in Request
      BY <1>1, <3>1 DEF ScanType
    <3>3. PICK q : q = IF r.sent = ChannelSize THEN Gone("stuck") ELSE [old EXCEPT !.at = "exchange"]
      OBVIOUS
    <3>4. scan' = [scan EXCEPT ![s] = q]
      BY <1>1, <1>6, <2>2, <3>1, <3>3 DEF MarkScanned, ScanType
    <3>5. /\ q \in Request /\ q.at \in {"stuck", "exchange"} /\ q.entry \in {0, old.entry}
          /\ q.at \in Working => q.who = old.who /\ q.entry = old.entry
      BY <3>2, <3>3 DEF Gone, Request, Working
    <3> QED
      BY <1>1, <3>1, <3>4, <3>5, Moves
  <2>10. ~ Written(s)'
    BY <2>9 DEF Written, Working
  <2>11. Basics'
    BY <1>1, <1>2, <1>3, <2>8, <2>9, <2>10, Worked DEF Rewritten
  <2>12. Known' /\ RegisteredOnce'
    <3>1. \A o \in Scan : scan'[o].at = "insert" => scan'[o] = scan[o]
      BY <2>9 DEF Moved
    <3> QED
      BY <1>1, <1>2, <3>1, KnownKept, RegisteredKept
  <2>13. Entry' = Entry /\ (poll.at = "token" => poll.entry \in Entry)
    BY <1>1, <2>8, Entries DEF Rewritten, HeapKept, Entry
  <2>14. Granted'
    BY <1>1, <1>2, <2>1, <2>6, <2>8, <2>13 DEF Granted, Rewritten, HeapKept
  <2>15. Alone'
    <3> SUFFICES ASSUME ~ crossed' PROVE Alone'
      BY DEF Alone
    <3>1. ~ crossed /\ poll'.at # "token"
      BY <1>2, <1>4
    <3>2. \A o \in Scan : o # s => ~ Works(o)' /\ ~ Marked(o)' /\ ~ Written(o)'
      BY <1>4, <2>9 DEF Moved, Works, Marked, Written
    <3>3. heap'[session].Status = "CODE_SCANNED" /\ heap'[session].OpenId = heap[session].OpenId
      BY <2>2, <2>6, <2>8 DEF Rewritten
    <3>4. session \in {0, scan[s].entry} \/ heap'[session].OpenId = Nobody
      BY <1>1, <1>2, <3>1, <3>3 DEF Alone
    <3>5. Works(s)' => scan'[s].entry = scan[s].entry
      BY <2>9 DEF Moved
    <3> QED
      BY <1>2, <2>10, <3>1, <3>2, <3>3, <3>4, <3>5 DEF Alone
  <2> QED
    BY <2>11, <2>12, <2>14, <2>15 DEF LoginIInv
<1> QED
  BY <1>5, <1>6

\* The openid is written on the object of a scan.
LEMMA ExchangeIInv ==
    ASSUME LoginIInv, NEW s \in Scan, GetUserInfoWithCode(s) PROVE LoginIInv'
<1>1. LoginTypeOK /\ ScanType /\ Scans /\ Known /\ Granted /\ Alone /\ RegisteredOnce
  BY DEF LoginIInv, Basics
<1>2. /\ scan[s].at = "exchange" /\ Works(s) /\ Marked(s) /\ UNCHANGED <<webpage, poll, users, stale, crossed>>
      /\ users \subseteq UserRow /\ stale \subseteq users /\ crossed \in BOOLEAN
  BY <1>1 DEF GetUserInfoWithCode, LoginTypeOK, Works, Marked, Working
<1>3. CASE End(s) /\ UNCHANGED heap
  BY <1>2, <1>3, EndIInv
<1>4. CASE /\ scan[s].entry # 0 /\ heap' = [heap EXCEPT ![scan[s].entry].OpenId = scan[s].who]
           /\ scan' = [scan EXCEPT ![s].at = "look"] /\ UNCHANGED session
  <2>1. PICK e : e = scan[s].entry
    OBVIOUS
  <2>2. e \in Entry /\ heap[e] \in UserAuthInfo /\ scan[s].who \in Person
    BY <1>1, <1>2, <1>4, <2>1, Entries DEF Scans
  <2>3. PICK r : r = heap[e]
    OBVIOUS
  <2>4. PICK row : row = [r EXCEPT !.OpenId = scan[s].who]
    OBVIOUS
  <2>5. /\ row \in UserAuthInfo /\ row.Status = r.Status /\ row.by = r.by /\ row.OpenId = scan[s].who
        /\ row.BasicInfo = r.BasicInfo /\ row.IsFromWechatClient = r.IsFromWechatClient
    BY <2>2, <2>3, <2>4 DEF UserAuthInfo
  <2>6. heap' = [heap EXCEPT ![e] = row]
    BY <1>4, <2>1, <2>2, <2>3, <2>4
  <2>7. Rewritten(e, row)
    BY ONLY <1>1, <2>2, <2>3, <2>5, <2>6, Writes
  <2>8. Moved(s) /\ scan'[s].at = "look"
    <3>1. PICK old : old = scan[s]
      OBVIOUS
    <3>2. PICK q : q = [old EXCEPT !.at = "look"]
      OBVIOUS
    <3>3. old \in Request /\ scan' = [scan EXCEPT ![s] = q]
      BY <1>1, <1>4, <3>1, <3>2 DEF ScanType
    <3>4. q \in Request /\ q.at = "look" /\ q.entry = old.entry /\ q.who = old.who
      BY <3>2, <3>3 DEF Request, Working
    <3> QED
      BY <1>1, <3>1, <3>3, <3>4, Moves
  <2>9. Works(s)' /\ scan'[s].entry = e /\ scan'[s].who = scan[s].who
    BY <2>1, <2>8 DEF Moved, Works, Working
  <2>10. Basics'
    BY <1>1, <1>2, <1>4, <2>7, <2>8, Worked DEF Rewritten
  <2>11. Known' /\ RegisteredOnce'
    <3>1. \A o \in Scan : scan'[o].at = "insert" => scan'[o] = scan[o]
      BY <2>8 DEF Moved
    <3> QED
      BY <1>1, <1>2, <3>1, KnownKept, RegisteredKept
  <2>12. Entry' = Entry /\ (poll.at = "token" => poll.entry \in Entry) /\ session \in Entry \cup {0}
    BY <1>1, <2>7, Entries DEF Rewritten, HeapKept, Entry
  <2>13. \A k \in Entry : heap'[k].Status = heap[k].Status /\ heap'[k].by = heap[k].by
    BY <2>3, <2>5, <2>7 DEF Rewritten
  <2>14. Granted'
    BY <1>1, <1>2, <2>12, <2>13 DEF Granted
  <2>15. Alone'
    <3> SUFFICES ASSUME ~ crossed PROVE Alone'
      BY <1>2 DEF Alone
    <3>1. \A o \in Scan : Works(o)' \/ Marked(o)' \/ Written(o)' => o = s
      BY <1>1, <1>2, <2>8 DEF Alone, Moved, Works, Marked, Written
    <3>2. /\ session = e => heap[session].Status # "AUTHORIZED"
          /\ session \in {0, e} \/ heap[session].OpenId = Nobody
          /\ poll.at = "token" => poll.entry # e /\ Own(poll.entry)
          /\ session # 0 /\ heap[session].Status = "AUTHORIZED" => Own(session)
      BY <1>1, <1>2, <2>1, <2>2, Entries DEF Alone
    <3>3. \A k \in Entry : k # e => heap'[k] = heap[k]
      BY <2>7 DEF Rewritten
    <3>4. session' # 0 /\ heap'[session'].Status = "AUTHORIZED" => Own(session)'
      BY <1>4, <2>12, <2>13, <3>2, <3>3 DEF Own
    <3>5. session \in {0, e} \/ heap'[session].OpenId = Nobody
      BY <2>12, <3>2, <3>3
    <3>6. heap'[e].OpenId = scan[s].who
      BY <2>5, <2>7 DEF Rewritten
    <3>7. poll'.at = "token" => Own(poll.entry)' /\ poll'.entry # e
      BY <1>2, <2>12, <3>2, <3>3 DEF Own
    <3>8. session = e => heap'[session].Status # "AUTHORIZED"
      BY <2>2, <2>13, <3>2
    <3> QED
      BY <1>4, <2>9, <3>1, <3>4, <3>5, <3>6, <3>7, <3>8 DEF Alone
  <2> QED
    BY <2>10, <2>11, <2>14, <2>15 DEF LoginIInv
<1> QED
  BY <1>3, <1>4 DEF GetUserInfoWithCode

\* Request s, past its openid, goes on to at.
LEMMA GoesOn ==
    ASSUME LoginIInv, NEW s \in Scan, Written(s), NEW at \in Working \ {"mark", "exchange"}, NEW knew \in Nat,
           scan' = [scan EXCEPT ![s].at = at, ![s].knew = knew],
           at \in {"register", "insert"} => webpage.stage = "signup",
           UNCHANGED <<heap, session, webpage, poll, crossed>>, users' \subseteq UserRow, stale' \subseteq users'
    PROVE  Moved(s) /\ scan'[s].at = at /\ scan'[s].knew = knew /\ scan'[s].who = scan[s].who
           /\ Basics' /\ Granted' /\ Alone'
<1>1. ScanType
  BY DEF LoginIInv, Basics
<1>2. PICK r : r = scan[s]
  OBVIOUS
<1>3. PICK q : q = [r EXCEPT !.at = at, !.knew = knew]
  OBVIOUS
<1>4. r \in Request /\ scan' = [scan EXCEPT ![s] = q]
  BY <1>1, <1>2, <1>3 DEF ScanType
<1>5. q \in Request /\ q.at = at /\ q.entry = r.entry /\ q.who = r.who /\ q.knew = knew
  BY <1>3, <1>4 DEF Request
<1>6. Moved(s) /\ scan'[s] = q
  BY <1>1, <1>2, <1>4, <1>5, Moves
<1>7. Works(s) /\ Marked(s)
  BY DEF Written, Marked, Works
<1>8. scan'[s].at \in {"register", "insert"} => webpage.stage = "signup"
  BY <1>5, <1>6
<1>9. scan'[s].at # "done"
  BY <1>5, <1>6 DEF Working
<1> QED
  BY <1>2, <1>5, <1>6, <1>7, <1>8, <1>9, MovedInv

\* Its user is looked for.
LEMMA LookIInv ==
    ASSUME LoginIInv, NEW s \in Scan, GetUserByOpenid(s) PROVE LoginIInv'
<1>1. LoginTypeOK /\ ScanType /\ Known /\ RegisteredOnce
  BY DEF LoginIInv, Basics
<1>2. /\ scan[s].at = "look" /\ Works(s) /\ Written(s)
      /\ UNCHANGED <<heap, webpage, poll, users, stale, crossed>>
      /\ users \subseteq UserRow /\ stale \subseteq users /\ webpage.stage \in {"login", "signup"}
      /\ scan[s].knew \in Nat
  BY <1>1 DEF GetUserByOpenid, LoginTypeOK, Works, Written, Working, Stage, ScanType, Request
<1>3. CASE End(s)
  BY <1>2, <1>3, EndIInv
<1>4. ASSUME NEW next \in {"fail", "authorize", "register"}, scan' = [scan EXCEPT ![s].at = next],
             next = "register" => webpage.stage = "signup", UNCHANGED session
      PROVE  LoginIInv'
  <2>1. next \in Working \ {"mark", "exchange"} /\ next # "insert"
    BY DEF Working
  <2>2. PICK k : k = scan[s].knew
    OBVIOUS
  <2>3. scan' = [scan EXCEPT ![s].at = next, ![s].knew = k]
    <3>1. PICK r : r = scan[s]
      OBVIOUS
    <3>2. r \in Request /\ k = r.knew
      BY <1>1, <2>2, <3>1 DEF ScanType
    <3>3. [r EXCEPT !.at = next] = [r EXCEPT !.at = next, !.knew = k]
      BY <3>2 DEF Request
    <3> QED
      BY <1>1, <1>4, <3>1, <3>3 DEF ScanType
  <2>4. Moved(s) /\ scan'[s].at = next /\ Basics' /\ Granted' /\ Alone'
    <3>1. k \in Nat /\ users' \subseteq UserRow /\ stale' \subseteq users'
          /\ UNCHANGED <<heap, session, webpage, poll, crossed>>
      BY <1>2, <1>4, <2>2
    <3>2. next \in {"register", "insert"} => webpage.stage = "signup"
      BY <1>4, <2>1
    <3> QED
      BY ONLY LoginIInv, s \in Scan, <1>2, <2>1, <2>3, <3>1, <3>2, GoesOn
  <2>5. \A o \in Scan : scan'[o].at = "insert" => scan'[o] = scan[o]
    BY <2>1, <2>4 DEF Moved
  <2> QED
    BY <1>1, <1>2, <2>4, <2>5, KnownKept, RegisteredKept DEF LoginIInv
<1>5. \/ End(s)
      \/ \E next \in {"fail", "authorize", "register"} :
            /\ scan' = [scan EXCEPT ![s].at = next] /\ UNCHANGED session
            /\ next = "register" => webpage.stage = "signup"
  BY <1>2 DEF GetUserByOpenid
<1> QED
  BY <1>3, <1>4, <1>5

\* It is checked that nobody has its openid or phone.
LEMMA RegisterIInv ==
    ASSUME LoginIInv, NEW s \in Scan, RegisterUser(s) PROVE LoginIInv'
<1>1. LoginTypeOK /\ ScanType /\ Scans /\ Known /\ RegisteredOnce
  BY DEF LoginIInv, Basics
<1>2. /\ scan[s].at = "register" /\ Works(s) /\ Written(s)
      /\ UNCHANGED <<heap, webpage, poll, users, stale, crossed>>
      /\ users \subseteq UserRow /\ stale \subseteq users /\ webpage.stage = "signup"
  BY <1>1 DEF RegisterUser, LoginTypeOK, Works, Written, Working, Scans
<1>3. CASE End(s)
  BY <1>2, <1>3, EndIInv
<1>4. CASE /\ MayRegister(scan[s].who, heap[scan[s].entry].BasicInfo) /\ UNCHANGED session
           /\ scan' = [scan EXCEPT ![s].at = "insert", ![s].knew = Cardinality(users)]
  <2>1. Cardinality(users) \in Nat
    BY <1>1, FS_CardinalityType DEF Known
  <2>2. /\ Moved(s) /\ scan'[s].at = "insert" /\ scan'[s].knew = Cardinality(users)
        /\ scan'[s].who = scan[s].who /\ Basics' /\ Granted' /\ Alone'
    <3>1. "insert" \in Working \ {"mark", "exchange"}
      BY DEF Working
    <3> QED
      BY <1>2, <1>4, <2>1, <3>1, GoesOn
  <2>3. Known'
    <3> SUFFICES ASSUME NEW o \in Scan, scan'[o].at = "insert"
                 PROVE  /\ scan'[o].knew <= Cardinality(users)
                        /\ Rows(scan'[o].who) # {} => scan'[o].knew < Cardinality(users)
      BY <1>1, <1>2 DEF Known, Rows
    <3>1. CASE o = s
      <4>1. Rows(scan[s].who) = {}
        BY <1>4 DEF MayRegister
      <4>2. scan'[o].who = scan[s].who /\ scan'[o].knew = Cardinality(users)
        BY <2>2, <3>1
      <4> QED
        BY <2>1, <4>1, <4>2
    <3>2. CASE o # s
      BY <1>1, <2>2, <3>2 DEF Moved, Known
    <3> QED
      BY <3>1, <3>2
  <2> QED
    BY <1>1, <1>2, <2>2, <2>3, RegisteredKept DEF LoginIInv
<1> QED
  BY <1>3, <1>4 DEF RegisterUser

\* The user is inserted.
LEMMA InsertIInv ==
    ASSUME LoginIInv, NEW s \in Scan, InsertUser(s) PROVE LoginIInv'
<1>1. LoginTypeOK /\ ScanType /\ OfThePage /\ Scans /\ Known /\ RegisteredOnce
  BY DEF LoginIInv, Basics
<1>2. /\ scan[s].at = "insert" /\ Works(s) /\ Written(s) /\ UNCHANGED <<heap, webpage, poll, crossed>>
      /\ users \subseteq UserRow /\ stale \subseteq users /\ webpage.stage = "signup"
  BY <1>1 DEF InsertUser, LoginTypeOK, Works, Written, Working, Scans
<1>3. PICK e : e = scan[s].entry
  OBVIOUS
<1>4. PICK form : form = heap[e].BasicInfo
  OBVIOUS
<1>5. PICK who : who = scan[s].who
  OBVIOUS
<1>6. e \in Entry /\ form \in BasicInfo /\ form.phone \in Phone /\ who \in Person
  <2>1. e \in Entry /\ who \in Person
    BY <1>1, <1>2, <1>3, <1>5 DEF Scans
  <2> QED
    BY <1>1, <1>2, <1>4, <2>1, Entries DEF OfThePage
<1>7. PICK row : row = [openid |-> who, phone |-> form.phone, role |-> form.role]
  OBVIOUS
<1>8. row \in UserRow /\ row.openid = who /\ row.phone = form.phone
  BY <1>6, <1>7 DEF UserRow, BasicInfo
<1>9. CASE \E u \in users : u.phone = form.phone
  <2>1. End(s) /\ UNCHANGED <<users, stale>>
    BY <1>3, <1>4, <1>9 DEF InsertUser
  <2> QED
    BY <1>2, <2>1, EndIInv
<1>10. CASE \A u \in users : u.phone # form.phone
  <2>1. /\ users' = users \cup {row}
        /\ stale' = IF Cardinality(users) > scan[s].knew THEN stale \cup {row} ELSE stale
        /\ End(s) \/ (scan' = [scan EXCEPT ![s].at = "authorize", ![s].knew = 0] /\ UNCHANGED session)
    BY <1>3, <1>4, <1>5, <1>7, <1>10 DEF InsertUser
  <2>2. row \notin users
    BY <1>8, <1>10
  <2>3. /\ IsFiniteSet(users') /\ Cardinality(users) \in Nat
        /\ Cardinality(users') = Cardinality(users) + 1
    BY <1>1, <2>1, <2>2, FS_AddElement, FS_CardinalityType DEF Known
  <2>4. users' \subseteq UserRow /\ stale' \subseteq users' /\ stale \subseteq stale'
    BY <1>2, <1>8, <2>1
  <2>5. Moved(s) /\ scan'[s].at \in {"done", "authorize"} /\ Basics' /\ Granted' /\ Alone'
    <3>1. CASE End(s)
      <4>1. /\ Moved(s) /\ scan'[s].at = "done" /\ session' \in {0, session}
            /\ webpage.inplace => session' = 0
        BY <1>1, <3>1, Ends
      <4>2. ~ Marked(s)' /\ ~ Written(s)'
        BY <4>1 DEF Marked, Written, Working
      <4> QED
        BY <1>2, <2>4, <4>1, <4>2, MovedInv
    <3>2. CASE scan' = [scan EXCEPT ![s].at = "authorize", ![s].knew = 0] /\ UNCHANGED session
      <4>1. "authorize" \in Working \ {"mark", "exchange"} /\ 0 \in Nat
        BY DEF Working
      <4> QED
        BY <1>2, <2>4, <3>2, <4>1, GoesOn
    <3> QED
      BY <2>1, <3>1, <3>2
  <2>6. Known'
    <3> SUFFICES ASSUME NEW o \in Scan, scan'[o].at = "insert"
                 PROVE  scan'[o].knew < Cardinality(users') /\ scan'[o].knew <= Cardinality(users')
      BY <2>3 DEF Known
    <3>1. scan[o] = scan'[o]
      BY <2>5 DEF Moved
    <3>2. scan[o].knew <= Cardinality(users) /\ scan[o].knew \in Nat
      BY <1>1, <3>1 DEF Known, ScanType, Request
    <3> QED
      BY <2>3, <3>1, <3>2
  <2>7. RegisteredOnce'
    <3>1. ASSUME NEW w \in users, w.openid = who PROVE row \in stale'
      <4>1. Rows(who) # {}
        BY <3>1 DEF Rows
      <4>2. scan[s].knew < Cardinality(users) /\ scan[s].knew \in Nat
        BY <1>1, <1>2, <1>5, <4>1 DEF Known, ScanType, Request
      <4> QED
        BY <2>1, <2>3, <4>2
    <3> SUFFICES ASSUME NEW u \in users', NEW w \in users', u # w, u.openid = w.openid
                 PROVE  u \in stale' \/ w \in stale'
      BY DEF RegisteredOnce
    <3>2. CASE u \in users /\ w \in users
      BY <1>1, <2>4, <3>2 DEF RegisteredOnce
    <3>3. CASE u = row
      <4>1. w \in users /\ w.openid = who
        BY <1>8, <2>1, <3>3
      <4> QED
        BY <3>1, <3>3, <4>1
    <3>4. CASE w = row
      <4>1. u \in users /\ u.openid = who
        BY <1>8, <2>1, <3>4
      <4> QED
        BY <3>1, <3>4, <4>1
    <3> QED
      BY <2>1, <3>2, <3>3, <3>4
  <2> QED
    BY <2>5, <2>6, <2>7 DEF LoginIInv
<1> QED
  BY <1>9, <1>10

\* The outcome is written on the object under the id.
LEMMA CachedIInv ==
    ASSUME LoginIInv, NEW s \in Scan, NEW status \in {"AUTHORIZED", "FAILED"}, Written(s),
           CacheWechatAuthStatus(s, status), UNCHANGED <<webpage, poll, users, stale, crossed>>
    PROVE  LoginIInv'
<1>1. LoginTypeOK /\ ScanType /\ Scans /\ Known /\ Granted /\ Alone /\ RegisteredOnce
  BY DEF LoginIInv, Basics
<1>2. /\ users \subseteq UserRow /\ stale \subseteq users /\ scan[s].who \in Person /\ crossed \in BOOLEAN
      /\ Works(s) /\ Marked(s)
  BY <1>1 DEF LoginTypeOK, Scans, Written, Works, Marked
<1>3. CASE session = 0
  BY <1>2, <1>3, EndIInv DEF CacheWechatAuthStatus
<1>4. CASE session # 0
  <2>1. session \in Entry /\ heap[session] \in UserAuthInfo /\ heap[session].sent \in 0 .. ChannelSize
        /\ heap[session].by \subseteq Person
    BY <1>1, <1>4, Entries
  <2>2. PICK r : r = heap[session]
    OBVIOUS
  <2>3. PICK n : n = IF r.sent = ChannelSize THEN r.sent ELSE r.sent + 1
    OBVIOUS
  <2>4. PICK by : by = IF status = "AUTHORIZED" THEN r.by \cup {scan[s].who} ELSE r.by
    OBVIOUS
  <2>5. n \in 0 .. ChannelSize /\ by \in SUBSET Person /\ r.by \subseteq by
        /\ (status = "AUTHORIZED" => scan[s].who \in by)
    BY <1>2, <2>1, <2>2, <2>3, <2>4 DEF ChannelSize
  <2>6. PICK row : row = [r EXCEPT !.Status = status, !.sent = n, !.by = by]
    OBVIOUS
  <2>7. /\ row \in UserAuthInfo /\ row.Status = status /\ row.by = by /\ row.OpenId = r.OpenId
        /\ row.BasicInfo = r.BasicInfo /\ row.IsFromWechatClient = r.IsFromWechatClient
    BY <2>1, <2>2, <2>5, <2>6 DEF UserAuthInfo, WechatAuthState
  <2>8. heap' = [heap EXCEPT ![session] = row]
    BY <1>4, <2>1, <2>2, <2>3, <2>4, <2>6 DEF CacheWechatAuthStatus
  <2>9. Rewritten(session, row)
    BY ONLY <1>1, <2>1, <2>2, <2>5, <2>7, <2>8, Writes
  <2>10. /\ Moved(s) /\ scan'[s].at \in {"done", "stuck"} /\ session' \in {0, session}
         /\ scan'[s].at = "done" /\ webpage.inplace => session' = 0
    <3>1. CASE End(s)
      BY <1>1, <3>1, Ends
    <3>2. CASE scan' = [scan EXCEPT ![s] = Gone("stuck")] /\ UNCHANGED session
      <4>1. Moved(s) /\ scan'[s].at = "stuck"
        BY ONLY <1>1, <3>2, s \in Scan, Leaves
      <4> QED
        BY <3>2, <4>1
    <3> QED
      BY <1>4, <3>1, <3>2 DEF CacheWechatAuthStatus
  <2>11. ~ Works(s)' /\ ~ Marked(s)' /\ ~ Written(s)'
    BY <2>10 DEF Works, Marked, Written, Working
  <2>12. Basics'
    BY <1>1, <1>2, <2>9, <2>10, <2>11, Worked DEF Rewritten
  <2>13. Known' /\ RegisteredOnce'
    <3>1. \A o \in Scan : scan'[o].at = "insert" => scan'[o] = scan[o]
      BY <2>10 DEF Moved
    <3> QED
      BY <1>1, <3>1, KnownKept, RegisteredKept
  <2>14. Entry' = Entry /\ (poll.at = "token" => poll.entry \in Entry)
    BY <1>1, <2>9, Entries DEF Rewritten, HeapKept, Entry
  <2>15. Granted'
    <3>1. heap'[session].Status = "AUTHORIZED" => heap'[session].by # {}
      BY <2>5, <2>7, <2>9 DEF Rewritten
    <3> QED
      BY <1>1, <2>9, <2>14, <3>1 DEF Granted, Rewritten, HeapKept
  <2>16. Alone'
    <3> SUFFICES ASSUME ~ crossed PROVE Alone'
      BY DEF Alone
    <3>1. \A o \in Scan : ~ Works(o)' /\ ~ Marked(o)' /\ ~ Written(o)'
      <4> TAKE o \in Scan
      <4>1. CASE o = s
        BY <2>11, <4>1
      <4>2. CASE o # s
        BY <1>1, <1>2, <2>10, <4>2 DEF Alone, Moved, Works, Marked, Written
      <4> QED
        BY <4>1, <4>2
    <3>2. scan[s].entry = session => heap[session].OpenId = scan[s].who
      BY <1>1 DEF Alone
    <3>3. scan[s].entry = session \/ heap[session].OpenId = Nobody
      BY <1>1, <1>2, <1>4 DEF Alone
    <3>4. heap'[session].Status = "AUTHORIZED" => heap'[session].OpenId \in heap'[session].by \cup {Nobody}
      BY <2>2, <2>5, <2>7, <2>9, <3>2, <3>3 DEF Rewritten
    <3>5. session' # 0 /\ heap'[session'].Status = "AUTHORIZED" => Own(session)'
      BY <2>10, <3>4 DEF Own
    <3>6. poll.at = "token" => heap[poll.entry].OpenId \in heap[poll.entry].by \cup {Nobody}
      BY <1>1 DEF Alone, Own
    <3>7. poll.at = "token" => heap'[poll.entry].OpenId \in heap'[poll.entry].by \cup {Nobody}
      BY <2>2, <2>5, <2>7, <2>9, <2>14, <3>6 DEF Rewritten
    <3>8. poll'.at = "token" => Own(poll.entry)'
      BY <3>7 DEF Own
    <3> QED
      BY <3>1, <3>5, <3>8 DEF Alone
  <2> QED
    BY <2>12, <2>13, <2>15, <2>16 DEF LoginIInv
<1> QED
  BY <1>3, <1>4

------------------------------------------------------------------------------
(* The page's request, time and restarts.                                  *)

\* The page asks for the status.
LEMMA StatusIInv == ASSUME LoginIInv, GetWechatAuthStatus PROVE LoginIInv'
<1>1. LoginTypeOK /\ ScanType /\ OfThePage /\ Scans /\ Known /\ Granted /\ Alone /\ RegisteredOnce
      /\ TokenAuthorized /\ InplaceCleared
  BY DEF LoginIInv, Basics
<1>2. /\ poll.at = "idle" /\ session # 0 /\ UNCHANGED <<heap, session, scan, users, stale, crossed>>
      /\ Entry' = Entry /\ session \in Entry
  BY <1>1, Entries DEF GetWechatAuthStatus, Entry
<1>3. \/ /\ heap[session].Status = "AUTHORIZED"
         /\ poll' = [at |-> "token", entry |-> session] /\ UNCHANGED webpage
      \/ webpage' = [webpage EXCEPT !.at = "stopped"] /\ UNCHANGED poll
      \/ UNCHANGED <<webpage, poll>>
  BY DEF GetWechatAuthStatus
<1>4. webpage' \in [at : {"form", "shown", "in", "stopped"}, stage : Stage, role : Role,
                 inplace : BOOLEAN, token : Person \cup {Nobody}]
      /\ webpage'.stage = webpage.stage /\ webpage'.inplace = webpage.inplace /\ webpage'.token = webpage.token
  BY <1>1, <1>3 DEF LoginTypeOK
<1>5. /\ poll' \in [at : {"idle"}, entry : {0}] \cup [at : {"token"}, entry : 1 .. Len(heap)]
      /\ poll'.at = "token" => poll'.entry = session /\ heap[session].Status = "AUTHORIZED"
  BY <1>1, <1>2, <1>3 DEF LoginTypeOK, Entry
<1>6. LoginTypeOK'
  BY <1>1, <1>2, <1>4, <1>5 DEF LoginTypeOK
<1>7. TokenAuthorized' /\ InplaceCleared' /\ RegisteredOnce' /\ Known'
  BY <1>1, <1>2, <1>4, RegisteredKept, KnownKept DEF TokenAuthorized, InplaceCleared
<1>8. ScanType' /\ OfThePage' /\ Scans'
  BY <1>1, <1>2, <1>4 DEF ScanType, OfThePage, Scans, Works, Written
<1>9. Granted'
  BY <1>1, <1>2, <1>5 DEF Granted
<1>10. Alone'
  <2> SUFFICES ASSUME ~ crossed PROVE Alone'
    BY <1>2 DEF Alone
  <2>1. \A s \in Scan : /\ Works(s)' <=> Works(s)
                        /\ Marked(s)' <=> Marked(s)
                        /\ Written(s)' <=> Written(s)
                        /\ scan'[s] = scan[s]
    BY <1>2 DEF Works, Marked, Written
  <2>2. session # 0 /\ heap[session].Status = "AUTHORIZED" => Own(session)
    BY <1>1 DEF Alone
  <2>3. session' # 0 /\ heap'[session'].Status = "AUTHORIZED" => Own(session)'
    BY <1>2, <2>2 DEF Own
  <2>4. poll'.at = "token" => /\ Own(poll.entry)'
                              /\ \A s \in Scan : Marked(s) => poll'.entry # scan[s].entry
    BY <1>1, <1>2, <1>5, <2>2 DEF Alone, Own
  <2> QED
    BY <1>1, <1>2, <2>1, <2>3, <2>4 DEF Alone
<1> QED
  BY <1>6, <1>7, <1>8, <1>9, <1>10 DEF LoginIInv, Basics

\* The page is answered.
LEMMA TokenIInv == ASSUME LoginIInv, GenerateJwtToken PROVE LoginIInv'
<1>1. LoginTypeOK /\ ScanType /\ OfThePage /\ Scans /\ Known /\ Granted /\ Alone /\ RegisteredOnce
      /\ TokenAuthorized /\ InplaceCleared
  BY DEF LoginIInv, Basics
<1>2. /\ poll.at = "token" /\ poll' = [at |-> "idle", entry |-> 0]
      /\ UNCHANGED <<heap, scan, users, stale, crossed>> /\ session' \in {0, session}
      /\ Entry' = Entry /\ session \in Entry \cup {0} /\ poll.entry \in Entry
      /\ heap[poll.entry].OpenId \in Person \cup {Nobody}
  BY <1>1, Entries DEF GenerateJwtToken, IdlePoll, ClearUserAuthInfoCache, Entry
<1>3. PICK token \in {heap[poll.entry].OpenId, Nobody} :
          \/ webpage' = [webpage EXCEPT !.at = "in", !.token = token]
          \/ UNCHANGED webpage
  BY DEF GenerateJwtToken
<1>4. webpage' \in [at : {"form", "shown", "in", "stopped"}, stage : Stage, role : Role,
                 inplace : BOOLEAN, token : Person \cup {Nobody}]
      /\ webpage'.stage = webpage.stage /\ webpage'.inplace = webpage.inplace
      /\ webpage'.token \in {webpage.token, heap[poll.entry].OpenId, Nobody}
  <2>1. PICK r : r = webpage
    OBVIOUS
  <2>2. r \in [at : {"form", "shown", "in", "stopped"}, stage : Stage, role : Role,
               inplace : BOOLEAN, token : Person \cup {Nobody}]
    BY <1>1, <2>1 DEF LoginTypeOK
  <2>3. token \in Person \cup {Nobody}
    BY <1>2
  <2>4. PICK q : q = [r EXCEPT !.at = "in", !.token = token]
    OBVIOUS
  <2>5. /\ q \in [at : {"form", "shown", "in", "stopped"}, stage : Stage, role : Role,
                  inplace : BOOLEAN, token : Person \cup {Nobody}]
        /\ q.stage = r.stage /\ q.inplace = r.inplace /\ q.token = token
    BY <2>2, <2>3, <2>4
  <2>6. webpage' = q \/ webpage' = r
    BY <1>3, <2>1, <2>4
  <2> QED
    BY <2>1, <2>2, <2>5, <2>6
<1>5. session' \in 0 .. Len(heap)
  BY <1>1, <1>2, Entries DEF LoginTypeOK
<1>6. LoginTypeOK'
  BY <1>1, <1>2, <1>4, <1>5 DEF LoginTypeOK
<1>7. TokenAuthorized'
  <2> SUFFICES ASSUME webpage'.token # Nobody, ~ crossed
               PROVE  \E e \in Entry : webpage'.token \in heap[e].by
    BY <1>2 DEF TokenAuthorized, Entry
  <2>1. heap[poll.entry].OpenId \in heap[poll.entry].by \cup {Nobody}
    BY <1>1, <1>2 DEF Alone, Own
  <2>2. CASE webpage'.token = webpage.token
    BY <1>1, <2>2 DEF TokenAuthorized, Entry
  <2>3. CASE webpage'.token = heap[poll.entry].OpenId
    BY <1>2, <2>1, <2>3
  <2> QED
    BY <1>4, <2>2, <2>3
<1>8. InplaceCleared'
  BY <1>1, <1>2, <1>4 DEF InplaceCleared
<1>9. RegisteredOnce' /\ Known'
  BY <1>1, <1>2, RegisteredKept, KnownKept
<1>10. ScanType' /\ OfThePage' /\ Scans'
  BY <1>1, <1>2, <1>4 DEF ScanType, OfThePage, Scans, Works, Written
<1>11. Granted'
  BY <1>1, <1>2 DEF Granted
<1>12. Alone'
  <2>1. \A s \in Scan : /\ Works(s)' => Works(s) /\ scan'[s].entry = scan[s].entry /\ scan'[s].who = scan[s].who
                        /\ Marked(s)' => Marked(s)
                        /\ Written(s)' => Written(s)
    BY <1>2 DEF Works, Marked, Written
  <2>2. poll'.at # "token"
    BY <1>2
  <2> QED
    BY <1>1, <1>2, <2>1, <2>2, AloneKept
<1> QED
  BY <1>6, <1>7, <1>8, <1>9, <1>10, <1>11, <1>12 DEF LoginIInv, Basics

\* The session goes, the page stops asking, or the server is restarted.
LEMMA ElseIInv ==
    ASSUME LoginIInv, \/ LeavePage \/ Expire \/ Restart \/ UNCHANGED loginVars
    PROVE  LoginIInv'
<1>1. LoginTypeOK /\ ScanType /\ OfThePage /\ Scans /\ Known /\ Granted /\ Alone /\ RegisteredOnce
      /\ TokenAuthorized /\ InplaceCleared
  BY DEF LoginIInv, Basics
<1>2. /\ UNCHANGED <<heap, users, stale, crossed>> /\ session' \in {0, session}
      /\ UNCHANGED webpage \/ webpage' = [webpage EXCEPT !.at = "stopped"]
      /\ UNCHANGED poll \/ poll' = [at |-> "idle", entry |-> 0]
  BY DEF LeavePage, Expire, Restart, loginVars, ClearUserAuthInfoCache, IdlePoll
<1>3. Entry' = Entry /\ session \in Entry \cup {0}
  BY <1>1, <1>2, Entries DEF Entry
<1>4. webpage' \in [at : {"form", "shown", "in", "stopped"}, stage : Stage, role : Role,
                 inplace : BOOLEAN, token : Person \cup {Nobody}]
      /\ webpage'.stage = webpage.stage /\ webpage'.inplace = webpage.inplace /\ webpage'.token = webpage.token
  BY <1>1, <1>2 DEF LoginTypeOK
<1>5. /\ poll' \in [at : {"idle"}, entry : {0}] \cup [at : {"token"}, entry : 1 .. Len(heap)]
      /\ poll'.at = "token" => poll' = poll
  BY <1>1, <1>2 DEF LoginTypeOK
<1>6. /\ ScanType'
      /\ \A s \in Scan : scan'[s] = scan[s] \/ (scan'[s].at = "cut" /\ scan'[s].entry = 0)
  <2>1. CASE UNCHANGED scan
    BY <1>1, <2>1 DEF ScanType
  <2>2. CASE scan' = [s \in Scan |-> IF scan[s].at \in Working \cup {"stuck"}
                                     THEN Gone("cut") ELSE scan[s]]
    <3>1. PICK g : g = Gone("cut")
      OBVIOUS
    <3>2. g \in Request /\ g.at = "cut" /\ g.entry = 0
      BY <3>1 DEF Gone, Request
    <3>3. \A s \in Scan : scan[s] \in Request /\ scan'[s] \in {scan[s], g}
      BY <1>1, <2>2, <3>1 DEF ScanType
    <3>4. ScanType'
      BY <2>2, <3>1, <3>2, <3>3 DEF ScanType
    <3> QED
      BY <3>2, <3>3, <3>4
  <2> QED
    BY <2>1, <2>2 DEF LeavePage, Expire, Restart, loginVars
<1>7. \A s \in Scan : /\ Works(s)' => Works(s) /\ scan'[s] = scan[s]
                      /\ Marked(s)' => Marked(s) /\ scan'[s] = scan[s]
                      /\ Written(s)' => Written(s) /\ scan'[s] = scan[s]
                      /\ scan'[s].at \in {"done", "register", "insert"} => scan'[s] = scan[s]
                      /\ scan'[s].entry \in {0, scan[s].entry}
  BY <1>6 DEF Works, Marked, Written, Working
<1>8. Scans'
  BY <1>1, <1>3, <1>4, <1>7 DEF Scans
<1>9. LoginTypeOK'
  <2>1. session' \in 0 .. Len(heap) /\ Len(heap) \in Nat
    BY <1>1, <1>2, Entries DEF LoginTypeOK
  <2>2. \A s \in Scan : /\ scan'[s].at \in Working \cup {"idle", "stuck", "done", "cut"}
                        /\ scan'[s].entry \in 0 .. Len(heap)
                        /\ scan'[s].at \in Working => scan'[s].who \in Person
                        /\ scan'[s].at \in Working \ {"mark", "exchange"} => scan'[s].entry # 0
    BY <1>3, <1>6, <1>8, <2>1 DEF ScanType, Request, Scans, Works, Written, Entry
  <2> QED
    BY <1>1, <1>2, <1>4, <1>5, <2>1, <2>2 DEF LoginTypeOK
<1>10. TokenAuthorized'
  BY <1>1, <1>2, <1>4 DEF TokenAuthorized
<1>11. RegisteredOnce' /\ Known'
  BY <1>1, <1>2, <1>7, RegisteredKept, KnownKept
<1>12. InplaceCleared'
  BY <1>1, <1>2, <1>4, <1>7 DEF InplaceCleared
<1>13. OfThePage' /\ Granted'
  BY <1>1, <1>2, <1>3, <1>4, <1>5 DEF OfThePage, Granted
<1>14. Alone'
  BY <1>1, <1>2, <1>5, <1>7, AloneKept
<1> QED
  BY <1>6, <1>8, <1>9, <1>10, <1>11, <1>12, <1>13, <1>14 DEF LoginIInv, Basics

LEMMA LoginNextIInv == ASSUME LoginIInv, [LoginNext]_loginVars PROVE LoginIInv'
<1>1. CASE \E form \in BasicInfo : InitUserAuthInfoCache(form)
  BY <1>1, OpenIInv
<1>2. CASE \E s \in Scan, p \in Person : WechatRedirectHandler(s, p)
  BY <1>2, RedirectIInv
<1>3. ASSUME NEW s \in Scan, ServeScan(s) PROVE LoginIInv'
  <2>1. CASE MarkScanned(s)
    BY <2>1, MarkIInv
  <2>2. CASE GetUserInfoWithCode(s)
    BY <2>2, ExchangeIInv
  <2>3. CASE GetUserByOpenid(s)
    BY <2>3, LookIInv
  <2>4. CASE RegisterUser(s)
    BY <2>4, RegisterIInv
  <2>5. CASE InsertUser(s)
    BY <2>5, InsertIInv
  <2>6. CASE Authorize(s) \/ Fail(s)
    <3>1. Written(s) /\ UNCHANGED <<webpage, poll, users, stale, crossed>>
          /\ \E status \in {"AUTHORIZED", "FAILED"} : CacheWechatAuthStatus(s, status)
      BY <2>6 DEF Authorize, Fail, Written, Working
    <3> QED
      BY <3>1, CachedIInv
  <2> QED
    BY <1>3, <2>1, <2>2, <2>3, <2>4, <2>5, <2>6 DEF ServeScan
<1>4. CASE GetWechatAuthStatus
  BY <1>4, StatusIInv
<1>5. CASE GenerateJwtToken
  BY <1>5, TokenIInv
<1>6. CASE LeavePage \/ Expire \/ Restart \/ UNCHANGED loginVars
  BY <1>6, ElseIInv
<1> QED
  BY <1>1, <1>2, <1>3, <1>4, <1>5, <1>6 DEF LoginNext

LEMMA LoginSpecIInv == LoginSpec => []LoginIInv
<1>1. LoginInit => LoginIInv
  BY LoginInitIInv, PersonsAssumption
<1>2. LoginIInv /\ [LoginNext]_loginVars => LoginIInv'
  BY LoginNextIInv
<1> QED
  BY <1>1, <1>2, PTL DEF LoginSpec

\* Who is let in was authorized unless scans crossed, who signs up is registered once unless a
\* registration is committed between the check and the insertion of another, and a phone that
\* ended leaves the session it read no longer open.
THEOREM LoginsStayConsistent == LoginSpec => []LoginConsistent
<1>1. LoginIInv => LoginConsistent
  BY DEF LoginIInv, Basics, LoginConsistent
<1> QED
  BY <1>1, LoginSpecIInv, PTL

\* A step that takes the session away is one of those named, or finds a grant.
LEMMA TakenAway ==
    ASSUME LoginIInv, [LoginNext]_loginVars, session # 0, session' = 0, heap[session].by = {}
    PROVE  \/ Expire \/ Restart \/ heap[session].IsFromWechatClient
           \/ poll.at = "token" /\ poll.entry # session
<1>1. LoginTypeOK /\ ScanType /\ OfThePage /\ Granted
  BY DEF LoginIInv, Basics
<1>2. session \in Entry
  BY <1>1, Entries
<1>3. ASSUME NEW s \in Scan, End(s) PROVE heap[session].IsFromWechatClient
  BY <1>1, <1>2, <1>3, Ends DEF OfThePage
<1>4. ASSUME NEW s \in Scan, ServeScan(s) PROVE heap[session].IsFromWechatClient
  <2>1. End(s) \/ UNCHANGED session
    BY <1>4 DEF ServeScan, MarkScanned, GetUserInfoWithCode, GetUserByOpenid, RegisterUser, InsertUser,
                Authorize, Fail, CacheWechatAuthStatus
  <2> QED
    BY <1>3, <2>1
<1>5. ASSUME GenerateJwtToken PROVE poll.at = "token" /\ poll.entry # session
  BY <1>1, <1>5 DEF GenerateJwtToken, Granted
<1>6. ASSUME NEW form \in BasicInfo, InitUserAuthInfoCache(form) PROVE FALSE
  <2>1. session' = Len(heap) + 1 /\ Len(heap) \in Nat
    BY <1>1, <1>6, Entries DEF InitUserAuthInfoCache
  <2> QED
    BY <2>1
<1>7. ASSUME \/ \E s \in Scan, p \in Person : WechatRedirectHandler(s, p)
             \/ GetWechatAuthStatus \/ LeavePage \/ UNCHANGED loginVars
      PROVE  FALSE
  BY <1>7 DEF WechatRedirectHandler, GetWechatAuthStatus, LeavePage, loginVars
<1> QED
  BY <1>4, <1>5, <1>6, <1>7 DEF LoginNext

\* An entry nobody was authorized on goes by time, by a restart, by the phone it is opened on, or
\* by the answer for the entry it replaced; no handler that overlaps it takes it away.
THEOREM LiveEntriesKept == LoginSpec => LiveEntryKept
<1>1. LoginIInv /\ [LoginNext]_loginVars =>
        [session # 0 /\ session' = 0 /\ heap[session].by = {}
           => \/ Expire \/ Restart \/ heap[session].IsFromWechatClient
              \/ poll.at = "token" /\ poll.entry # session]_loginVars
  BY TakenAway
<1> QED
  BY <1>1, LoginSpecIInv, PTL DEF LoginSpec, LiveEntryKept
=============================================================================
