----------------------------- MODULE AwardBook -----------------------------
(***************************************************************************)
(* What the settlement of orders promises, whatever the order of payments, *)
(* approvals, statements and revocations: the awards of an order are handed*)
(* out all at once and once, and taken back all at once and for good.      *)
(* Settlement implements it with transactions that are single steps;       *)
(* PayRace, for the transactions that lock their order first, with         *)
(* transactions that interleave statement by statement.                    *)
(***************************************************************************)
CONSTANTS
    Order,  \* orders
    Award   \* what one balanceactivity row awards

VARIABLES
    live,   \* the awards in force, of each order
    closed  \* the orders whose awards were taken back

bookVars == <<live, closed>>

Init ==
    /\ live = [o \in Order |-> {}]
    /\ closed = {}

\* pay_success
Distribute(o) ==
    /\ live[o] = {} /\ o \notin closed
    /\ live'[o] \subseteq Award
    /\ live' = [live EXCEPT ![o] = live'[o]]
    /\ UNCHANGED closed

\* revoke_pay
TakeBack(o) ==
    /\ live[o] # {}
    /\ live' = [live EXCEPT ![o] = {}]
    /\ closed' = closed \cup {o}

\* An approval that revokes at once hands out nothing that anybody sees.
Skip(o) ==
    /\ live[o] = {} /\ o \notin closed
    /\ closed' = closed \cup {o}
    /\ UNCHANGED live

Next == \E o \in Order : Distribute(o) \/ TakeBack(o) \/ Skip(o)

Spec == Init /\ [][Next]_bookVars
=============================================================================
