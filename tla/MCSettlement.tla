----------------------------- MODULE MCSettlement -----------------------------
(***************************************************************************)
(* Small instances of Settlement.  The tree is                             *)
(*     HQ <- head (HQ_AGENT) <- manager (LV1_AGENT, R)                     *)
(*        <- dealer (LV2_AGENT, L) <- student                              *)
(* so that a sale to the student pays the dealer directly, the manager     *)
(* across levels and by extension, and the head across levels.             *)
(***************************************************************************)
EXTENDS SettlementPages, TLC

CONSTANTS dealer, manager, head, student, HQ, course, coupon, video

MCAgent == {dealer, manager, head}
MCStudent == {student}
MCAccountType == dealer :> "LV2_AGENT" @@ manager :> "LV1_AGENT" @@ head :> "HQ_AGENT"
MCUpstream == student :> dealer @@ dealer :> manager @@ manager :> head @@ head :> HQ
MCPartition == dealer :> "L" @@ manager :> "R" @@ head :> NULL

\* A course with an external delivery by the head, whose limit the runs choose.
CoursePricing(limit, delivery) ==
    [finalprice |-> 1000, purchaselimit |-> limit,
     purchase |-> "LV2_AGENT" :> 600 @@ "LV1_AGENT" :> 500 @@ "HQ_AGENT" :> 400
                  @@ "HEAD_QUARTER" :> 0,
     direct |-> "LV2_AGENT" :> 0 @@ "LV1_AGENT" :> 30 @@ "HQ_AGENT" :> 40,
     conversion |-> 50, extension |-> 20, earnest |-> 100,
     delivery |-> delivery, deliveryaccount |-> head,
     validdays |-> video :> 2]

MCPricing == course :> CoursePricing(1, 80)
MCPricingStale == course :> CoursePricing(1, 0)

MCCouponTerms ==
    coupon :> [agentid |-> head, discount |-> 100, studentid |-> NULL,
               productid |-> NULL, maxcount |-> 2, startdate |-> NULL, duedate |-> 1]

\* For the pages, a coupon that is valid beyond the first day, with every term given: it
\* lowers the price, which the open one does not.
MCCouponTermsLong ==
    coupon :> [MCCouponTerms[coupon] EXCEPT !.studentid = student, !.productid = course,
                                            !.startdate = 1, !.duedate = 2]

\* The dealer still has earnest money to get back, once and a half; the manager, once.
NoMoney == [c \in Column |-> 0]
MCOpeningAccount ==
    dealer :> [NoMoney EXCEPT !["pendingreturn"] = 50]
    @@ manager :> [NoMoney EXCEPT !["pendingreturn"] = 100, !["balancetriplelock"] = 200]
    @@ head :> NoMoney @@ HQ :> NoMoney
MCAwardAmount == dealer :> 200
MCOpeningAward == dealer :> 200
MCOpeningStock == [a \in MCAgent |-> course :> IF a = dealer THEN 1 ELSE 0]
OrderSymmetry == Permutations(Order)
=============================================================================
