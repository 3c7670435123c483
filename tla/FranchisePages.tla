---------------------------- MODULE FranchisePages ----------------------------
(***************************************************************************)
(* What agents and the head quarter see of module Franchise: where an      *)
(* agent stands when it logs in, the tree below it with what each side has *)
(* brought, its triple cycle, and the orders that wait for approval.       *)
(***************************************************************************)
EXTENDS Franchise

\* getAccountWithPendingFranchiseOrder: the account with its pending orders, or with none.
GetAccountWithPendingFranchiseOrder(a) ==
    {[type |-> account[a].type, status |-> account[a].status, originaltype |-> o] :
        o \in IF Pending(a) = {} THEN {"none"} ELSE {franchiseorder[f].originaltype : f \in Pending(a)}}

\* The answers that authService.CheckAgentStatus may give; an agent reads one at login.
CheckAgentStatus(a) ==
    CASE account[a].status = "INIT"   -> {"AgentLoginInit"}
      [] account[a].status = "CLOSED" -> {"AgentClosed"}
      [] OTHER ->
           {IF row.originaltype \in AgentType THEN "AgentLoginUpgrading"
            ELSE IF account[a].upstream # HeadQuarter /\ account[a].partition = NULL
                 THEN "AgentUpstreamPartition" ELSE "nil" :
               row \in GetAccountWithPendingFranchiseOrder(a)}

\* listMyDirectAgents: the agents the account gives a side to.
ListMyAgents(a) == {x \in Account : account[x] # NULL /\ account[x].upstream = a}

\* get_accounts_by_partition_and_depth: who sits below a, on the side of the direct child
\* above them or of their own.
Level(a, x) ==
    LET chain == Chain(x) IN {n \in 1 .. Cardinality(Account) : n <= 7 /\ chain[n + 1] = a}

OnSide(a, partition) ==
    {x \in Account : account[x] # NULL /\ LET chain == Chain(x) IN
                        \E n \in Level(a, x) : account[chain[n]].partition = partition}

\* listSubAgentDetails: the extension awards that sales by x brought to a.
ListSubAgentDetails(a, x) ==
    UNION {{[franchiseorderid |-> f, amount |-> extended[f][<<a, partition>>], partition |-> partition] :
               f \in {g \in Order : extended[g][<<a, partition>>] # 0 /\ Upstream(g) = x}} :
              partition \in Accountpartition}

Pv(rows) == SumFunctionOnSet([row \in rows |-> row.amount], rows)

\* sevenLevelSubAgents: the active agents on a side, each with what it brought to that side.
SevenLevelSubAgents(a, partition) ==
    {[account |-> x, direct_child |-> 1 \in Level(a, x),
      pv |-> Pv({row \in ListSubAgentDetails(a, x) : row.partition = partition})] :
        x \in {y \in OnSide(a, partition) : account[y].status = "ACTIVE"}}

\* calculateSumPv: a row for each side that has brought something.
SumPv(a) ==
    {[partition |-> partition,
      amount |-> SumFunctionOnSet([f \in Order |-> extended[f][<<a, partition>>]], Order)] :
        partition \in {p \in Accountpartition : \E f \in Order : extended[f][<<a, p>>] # 0}}

\* accountService.CalculateSumPv: zero for a side without a row.
CalculateSumPv(a) ==
    [partition \in Accountpartition |-> Pv({row \in SumPv(a) : row.partition = partition})]

\* upstreamAgentPendingAccounts: what the head quarter is shown before it approves f, the
\* earlier orders under the same agent that wait still.
UpstreamAgentPendingAccounts(f) ==
    {g \in Order : g < f /\ franchiseorder[g].status = "pending" /\ Upstream(g) = Upstream(f)}

\* listTripleAwardDetails: the place of an award in its round.
ListTripleAwardDetails(a) ==
    {[whichround |-> ((row.number - 1) \div 3) + 1, whichorder |-> ((row.number - 1) % 3) + 1,
      order |-> row.order, amount |-> row.amount] : row \in {triplecycle[a][i] : i \in DOMAIN triplecycle[a]}}

\* searchAgentsWithPendingFranchiseOrder: the head quarter's table, a row per pending order.
SearchAgents ==
    UNION {{[account |-> a, order |-> f] : f \in IF Pending(a) = {} THEN {0} ELSE Pending(a)} :
              a \in {b \in Account : account[b] # NULL}}

-------------------------------------------------------------------------------

\* An agent that is told nothing at login can bring in agents, and one that can is told at
\* most that its upgrade waits.  Who is told that its side is missing is on the list of an
\* agent that was activated and has to give it one.
ToldWhereItStands ==
    \A a \in Account : account[a] # NULL =>
        /\ "nil" \in CheckAgentStatus(a) => MayRegister(a)
        /\ MayRegister(a) => CheckAgentStatus(a) \subseteq {"nil", "AgentLoginUpgrading"}
        /\ "AgentUpstreamPartition" \in CheckAgentStatus(a) =>
               \E u \in Account : a \in ListMyAgents(u) /\ account[u].status # "INIT"

\* What each side has brought is what the agents listed on it have brought, except what a
\* seller brought that was closed since; and what is listed under an agent is all on the
\* side it is on.
SidesAddUp ==
    \A a \in Account, partition \in Accountpartition : account[a] # NULL =>
        LET listed == SevenLevelSubAgents(a, partition)
            gone == {x \in Account : /\ account[x] # NULL /\ account[x].status = "CLOSED"
                                   /\ x \in OnSide(a, partition)}
        IN  /\ CalculateSumPv(a)[partition]
                 = SumFunctionOnSet([row \in listed |-> row.pv], listed)
                   + SumFunctionOnSet([x \in gone |-> Pv(ListSubAgentDetails(a, x))], gone)
            /\ \A row \in listed : row.pv = Pv(ListSubAgentDetails(a, row.account))

\* An award has the amount of the place it is shown at; the head quarter's table shows an
\* account twice only after overlapping upgrades, and an order it is warned of is on it, of
\* an agent on the same upstream's list.
QueueShown ==
    /\ \A f \in Order : \A g \in UpstreamAgentPendingAccounts(f) :
          \E row \in SearchAgents : row.order = g /\ row.account \in ListMyAgents(Upstream(f))
    /\ \A a \in Account : \A row \in ListTripleAwardDetails(a) :
          row.order # 0 => row.amount = AwardX[franchiseorder[row.order].targettype] * AwardMod[row.whichorder]
    /\ \A a \in Account : account[a] # NULL /\ <<"pending", a>> \notin raced =>
          Cardinality({row \in SearchAgents : row.account = a}) = 1

\* The tree that settlement of orders relies on, and what its members are shown of it.
FranchiseConsistent == Consistent /\ ToldWhereItStands /\ SidesAddUp /\ QueueShown
===============================================================================
