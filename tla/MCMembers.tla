------------------------------ MODULE MCMembers ------------------------------
(* The founder and three people, two accounts to open, two requests at a    *)
(* time.                                                                     *)
EXTENDS Members, TLC

Alike == Permutations(User \ {Founder}) \cup Permutations(Account \ {HQ})
             \cup Permutations(Request)
=============================================================================
