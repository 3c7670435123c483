------------------------------ MODULE MCPortal ------------------------------
(* The founder and two people, two accounts to open, one request at a time *)
(* and one order.                                                            *)
EXTENDS Portal, TLC

Alike == Permutations(User \ {Founder}) \cup Permutations(Account \ {HQ})

\* An owner of an agent account may do what its administrators may not, and the menus of
\* the head quarter, of agents and of students differ.
MCAllowed == [r \in Roletype \X Rolename |->
    {r[1]} \cup (IF r[2] = "OWNER" THEN {"settings"} ELSE {}) \cup {"orders"}]
MCDenied == [r \in Roletype \X Rolename |-> IF r = <<"AGENT", "ADMIN">> THEN {"orders"} ELSE {}]

\* Sessions and demo settings on the one hand and orders on the other do not read each
\* other, and no property is about both: a behaviour has one or the other.
Apart == session # None \/ DOMAIN demo # {} => DOMAIN orders = {}
=============================================================================
