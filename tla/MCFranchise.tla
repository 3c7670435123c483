---------------------------- MODULE MCFranchise ----------------------------
(* One agent, and two more to register below it, for TLC. *)
EXTENDS FranchisePages, TLC

CONSTANTS a1, n1, n2

MCOpening == [a \in Account |->
    IF a = a1 THEN [type |-> "LV1_AGENT", status |-> "ACTIVE", partition |-> "R", upstream |-> HeadQuarter]
              ELSE NULL]

MCEarlier == [a \in Account |-> IF a = a1 THEN 1 ELSE 0]

\* The datadictionary's, in units of 600, 144 and 129.6.
MCDirectAward == [p \in AgentType \X AgentType |->
    CASE p[1] = "LV2_AGENT" -> 3
      [] p[1] = "LV1_AGENT" -> IF p[2] = "LV2_AGENT" THEN 4 ELSE 9
      [] p[1] = "HQ_AGENT"  -> CASE p[2] = "LV2_AGENT" -> 5
                                 [] p[2] = "LV1_AGENT" -> 15
                                 [] p[2] = "HQ_AGENT"  -> 30]
MCAwardX == [t \in AgentType |-> CASE t = "LV2_AGENT" -> 1 [] t = "LV1_AGENT" -> 3 [] OTHER -> 9]
MCAwardMod == <<1, 4, 10>>
MCExtension == MCAwardX

\* While the head quarter has an account open in its editor one call is in flight at most.
OneBesideEditor == editor # NULL => Cardinality({s \in Session : session[s] # NULL}) <= 1

Symmetry == Permutations(Session) \cup Permutations({n1, n2})
=============================================================================
