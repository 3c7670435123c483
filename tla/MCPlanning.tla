----------------------------- MODULE MCPlanning -----------------------------
(* Three requests on one student's row, of any three kinds: which of them  *)
(* is of which kind does not matter, so the kinds are in one order.        *)
EXTENDS Planning

CONSTANTS r1, r2, r3

MCRequest == {r1, r2, r3}

MCDuties ==
    {d \in [MCRequest -> Kind] :
        /\ d[r1] = "ask" => d[r2] # "profile" /\ d[r3] # "profile"
        /\ d[r1] = "wait" => d[r2] = "wait"
        /\ d[r2] = "ask" => d[r3] # "profile"
        /\ d[r2] = "wait" => d[r3] = "wait"}

\* Requests of one kind differ in their names only: they begin in order.
NamesInOrder ==
    LET begun(r) == request[r].at # "idle" IN
    /\ request[r1].kind = request[r2].kind => (begun(r2) => begun(r1))
    /\ request[r2].kind = request[r3].kind => (begun(r3) => begun(r2))
=============================================================================
