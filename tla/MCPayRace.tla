----------------------------- MODULE MCPayRace -----------------------------
(***************************************************************************)
(* Small instances of PayRace.  Two dealers under one manager, a student   *)
(* under each:                                                             *)
(*     HQ <- manager (LV1_AGENT) <- left, right (LV2_AGENT) <- ann, bob     *)
(* Each dealer may hold the coupon of an order of the other's student, so   *)
(* that two payments lock the dealers in opposite orders.                  *)
(***************************************************************************)
EXTENDS PayRace, TLC

CONSTANTS manager, left, right, ann, bob, HQ, o1, o2, s1, s2, s3, s4

MCAgent == {manager, left, right}
MCStudent == {ann, bob}
MCAccountType == manager :> "LV1_AGENT" @@ left :> "LV2_AGENT" @@ right :> "LV2_AGENT"
MCUpstream == ann :> left @@ bob :> right @@ left :> manager @@ right :> manager @@ manager :> HQ
MCPartition == manager :> NULL @@ left :> "L" @@ right :> "R"
MCAmount == "commission" :> 7 @@ "conversion" :> 5 @@ "earnest" :> 2 @@ "earnestDebt" :> -2
            @@ "fee" :> -4 @@ "crossAward" :> 3 @@ "extension" :> 1
MCOrder == {o1, o2}

\* Two orders that cross: each is sold with a coupon of the other's dealer.
CrossStudent == o1 :> ann @@ o2 :> bob
CrossCoupon == o1 :> right @@ o2 :> left
\* Two orders of one student.
SameStudent == o1 :> ann @@ o2 :> ann
SameCoupon == o1 :> manager @@ o2 :> manager
Created == o1 :> "created" @@ o2 :> "created"
NoDebt == [a \in MCAgent |-> 0]
Debt == manager :> 1 @@ left :> 2 @@ right :> 0

\* A statement and a revocation of one order, two approvals of the other.
SerialKind == s1 :> "statement" @@ s2 :> "approve" @@ s3 :> "approve" @@ s4 :> "revoke"
SerialOrder == s1 :> o1 @@ s2 :> o2 @@ s3 :> o2 @@ s4 :> o1
\* Two approvals of one order, one approval and a revocation of the other.
LimitKind == s1 :> "approve" @@ s2 :> "approve" @@ s3 :> "approve" @@ s4 :> "revoke"
LimitOrder == s1 :> o1 @@ s2 :> o2 @@ s3 :> o2 @@ s4 :> o1
\* Two sessions that lock nothing first, on one order.
TwinKind == s1 :> "confirm" @@ s2 :> "confirm"
TwinOrder == s1 :> o1 @@ s2 :> o1
=============================================================================
