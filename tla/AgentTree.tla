------------------------------ MODULE AgentTree ------------------------------
(***************************************************************************)
(* The tree of accounts.  Students hang under agents, agents under agents, *)
(* and the topmost agents under the head quarter.  No code ever moves an   *)
(* account, so the tree is a constant; the type, partition and status of an*)
(* agent, which franchise orders change, are constants here too.  What the *)
(* code computes on every payment is the chain of accounts from a student  *)
(* to the head quarter (get_upstreamaccount_chain) and which rows of it    *)
(* are rewarded.                                                           *)
(***************************************************************************)
EXTENDS Integers, FiniteSets

CONSTANTS
    Agent,           \* accounts of type LV2_AGENT, LV1_AGENT or HQ_AGENT
    Student,         \* accounts of type STUDENT
    HeadQuarter,     \* the account of type HEAD_QUARTER
    AccountType,     \* [Agent -> AgentType]
    Upstream,        \* account.upstreamaccount
    Partition,       \* account.partition: "L", "R" or NULL
    Active,          \* the agents whose account.status is ACTIVE
    ExtensionLevel,  \* datadictionary 'award-extension-level'
    NULL             \* an SQL null

AgentType == {"LV2_AGENT", "LV1_AGENT", "HQ_AGENT"}
Account == Agent \cup {HeadQuarter}

ASSUME TreeAssumption ==
    /\ HeadQuarter \notin Agent \cup Student
    /\ Agent \cap Student = {}
    /\ NULL \notin Agent \cup Student \cup {HeadQuarter}
    /\ AccountType \in [Agent -> AgentType]
    /\ Upstream \in [Agent \cup Student -> Account]
    /\ Partition \in [Agent -> {"L", "R", NULL}]
    /\ Active \subseteq Agent
    /\ ExtensionLevel \in Nat

-----------------------------------------------------------------------------
\* Row n of the chain of student s: row 1 is s, and the chain stays at the head
\* quarter once it is there.
ChainRow(s, n) ==
    LET row[i \in Nat \ {0}] ==
            IF i = 1 THEN s
            ELSE IF row[i - 1] = HeadQuarter THEN HeadQuarter
            ELSE Upstream[row[i - 1]]
    IN  row[n]

\* The rows of s held by agents.  The chain cannot be longer than the agents.
AgentRows(s) == {n \in 2 .. Cardinality(Agent) + 1 : ChainRow(s, n) \in Agent}

\* Every chain ends at the head quarter: the tree has no cycle.
ASSUME TreeIsRooted ==
    IsFiniteSet(Agent) =>
        \A s \in Student : ChainRow(s, Cardinality(Agent) + 2) = HeadQuarter

\* accounttype_awardlayer
Layer(a) == CASE AccountType[a] = "LV2_AGENT" -> 1
              [] AccountType[a] = "LV1_AGENT" -> 2
              [] AccountType[a] = "HQ_AGENT"  -> 3

\* Agent a is above the direct upstream of s and outranks everybody between
\* s and itself: it earns the cross-level award (award_layer < Layer(a)).
CrossLevel(s, a) ==
    \E n \in AgentRows(s) :
        /\ n >= 3 /\ ChainRow(s, n) = a
        /\ \A m \in 2 .. n - 1 : Layer(ChainRow(s, m)) < Layer(a)

\* The side on which agent a earns the extension award for a sale to s: the
\* partition of the account one row below it, for rows 3 to ExtensionLevel + 2.
ExtensionSide(s, a, side) ==
    \E n \in AgentRows(s) :
        /\ n \in 3 .. ExtensionLevel + 2 /\ ChainRow(s, n) = a
        /\ Partition[ChainRow(s, n - 1)] = side

\* What generate_simple_order and pay_success require of the chain: every agent
\* is active, and the rewarded ones are partitioned unless they hang directly
\* under the head quarter.
UpstreamReady(s) ==
    \A n \in AgentRows(s) :
        LET a == ChainRow(s, n) IN
        /\ a \in Active
        /\ n <= ExtensionLevel + 2 =>
               Partition[a] # NULL \/ Upstream[a] = HeadQuarter

\* The direct upstream of s is an agent: row 2 of the payout loop exists.
HasDirectAgent(s) == Upstream[s] # HeadQuarter
=============================================================================
