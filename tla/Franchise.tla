----------------------------- MODULE Franchise -----------------------------
(***************************************************************************)
(* How the tree of agents grows: an agent registers under another, the     *)
(* head quarter approves its franchise order once the fee is paid, which   *)
(* activates it and rewards the agents above it, and an active agent       *)
(* upgrades with an order of its own.  A partition is set once, by the     *)
(* upstream; the head quarter's editor saves whole rows it has loaded      *)
(* before.  AgentTree takes the tree this module builds as it is at one    *)
(* moment.                                                                 *)
(*                                                                         *)
(* assign_award and check_pending_status read what they check without      *)
(* locks, so an award and an upgrade have two steps: the reads, up to the  *)
(* first row written, and the writes, which commit together.  The columns  *)
(* of account get what the ledgers here are posted.                        *)
(***************************************************************************)
EXTENDS Integers, Sequences, FiniteSets, FiniteSetsExt

CONSTANTS
    Account,         \* account.id of agents
    HeadQuarter,     \* the account of type HEAD_QUARTER
    Opening,         \* the agents there are before the first step
    Earlier,         \* how many approvals are in their triple cycles already
    Session,         \* calls in flight
    Invited,         \* types for which agents register
    Offered,         \* types to which agents upgrade, and the editor sets
    MaxOrders,       \* bound on the franchise orders
    MaxEdits,        \* bound on the saves of the editor
    DirectAward,     \* datadictionary '<type>-<target>-direct-award'
    AwardX,          \* '<target>-award-x', in tenths
    AwardMod,        \* 'award-mod-<n>', in tenths
    Extension,       \* '<target>-award-y' times 'award-y-ratio'
    ExtensionLevel,  \* 'award-extension-level'
    NULL

AgentType == {"LV2_AGENT", "LV1_AGENT", "HQ_AGENT"}
Accountstatus == {"INIT", "ACTIVE", "CLOSED"}
Accountpartition == {"L", "R"}
AccountRow == [type : AgentType, status : Accountstatus,
               partition : Accountpartition \cup {NULL}, upstream : Account \cup {HeadQuarter}]

ASSUME FranchiseAssumption ==
    /\ HeadQuarter \notin Account /\ IsFiniteSet(Account)
    /\ Opening \in [Account -> AccountRow \cup {NULL}]
    /\ Earlier \in [Account -> Nat]
    /\ Invited \subseteq AgentType /\ Offered \subseteq AgentType
    /\ MaxOrders \in Nat /\ MaxEdits \in Nat /\ ExtensionLevel \in Nat
    /\ DirectAward \in [AgentType \X AgentType -> Nat]
    /\ AwardX \in [AgentType -> Nat] /\ AwardMod \in [1..3 -> Nat] /\ Extension \in [AgentType -> Nat]
    /\ NULL \notin Account \cup {HeadQuarter} \cup AgentType \cup Accountpartition
    /\ NULL \notin AccountRow

\* Registrations and closings are taken by the model: the agents there are at first were
\* activated, whoever has somebody below has a side, and nobody is above itself.
ASSUME OpeningAssumption ==
    /\ \A a \in Account : Opening[a] # NULL =>
          /\ Opening[a].status = "ACTIVE"
          /\ Opening[a].upstream # HeadQuarter =>
                LET u == Opening[Opening[a].upstream] IN
                u # NULL /\ (u.partition # NULL \/ u.upstream = HeadQuarter)
    /\ \E depth \in [Account -> 0 .. Cardinality(Account)] :
          \A a \in Account : (Opening[a] # NULL /\ Opening[a].upstream # HeadQuarter)
              => depth[Opening[a].upstream] < depth[a]

VARIABLES
    account,         \* a row of account, NULL before it is inserted
    franchiseorder,  \* the rows of franchiseorder, in the order of their creation
    triplecycle,     \* triplecycleaward: the rows of an account
    awarded,         \* balanceactivity: the direct awards of an order
    extended,        \* partitionaward: the extension awards of an order
    session,         \* what a call has read
    editor,          \* the row the head quarter's editor has loaded
    edits,           \* saves so far
    byhand,          \* what the editor has changed, of which accounts
    raced            \* what two calls have decided on the same reads

vars == <<account, franchiseorder, triplecycle, awarded, extended, session, editor, edits, byhand,
          raced>>

Order == DOMAIN franchiseorder
OrderRow == [accountid : Account, originaltype : AgentType \cup {NULL}, targettype : AgentType,
             status : {"pending", "settled"}]
TripleRow == [number : Nat, order : 0..MaxOrders, amount : Nat]  \* order 0: an earlier one

Call ==
    [kind : {"award"}, order : 1..MaxOrders, types : [Account -> AgentType \cup {NULL}],
     number : Nat, stale : SUBSET {"order", "number"}]
    \cup [kind : {"upgrade"}, account : Account, target : AgentType, stale : SUBSET {"pending"}]

ASSUME CallAssumption == NULL \notin Call

TypeOK ==
    /\ account \in [Account -> AccountRow \cup {NULL}]
    /\ franchiseorder \in Seq(OrderRow) /\ Len(franchiseorder) <= MaxOrders
    /\ triplecycle \in [Account -> Seq(TripleRow)]
    /\ awarded \in [1..MaxOrders -> [Account -> Int]]
    /\ extended \in [1..MaxOrders -> [Account \X Accountpartition -> Nat]]
    /\ session \in [Session -> Call \cup {NULL}]
    /\ editor \in [accountid : Account, row : AccountRow] \cup {NULL}
    /\ edits \in 0..MaxEdits
    /\ byhand \subseteq {"type", "status"} \X Account
    /\ raced \subseteq {"order", "number", "pending"} \X (1..MaxOrders \cup Account \cup {HeadQuarter})

\* The row of the triple cycle after the one with the number; its three awards grow.
TripleAward(f, target, number) ==
    [number |-> number + 1, order |-> f,
     amount |-> AwardX[target] * AwardMod[(number % 3) + 1]]

Init ==
    /\ account = Opening
    /\ franchiseorder = <<>>
    /\ triplecycle = [a \in Account |-> [i \in 1 .. Earlier[a] |-> [number |-> i, order |-> 0, amount |-> 0]]]
    /\ awarded = [f \in 1..MaxOrders |-> [a \in Account |-> 0]]
    /\ extended = [f \in 1..MaxOrders |-> [p \in Account \X Accountpartition |-> 0]]
    /\ session = [s \in Session |-> NULL]
    /\ editor = NULL /\ edits = 0
    /\ byhand = {} /\ raced = {}

-----------------------------------------------------------------------------
(***************************************************************************)
(* The tree                                                                *)
(***************************************************************************)

\* get_upstreamaccount_chain: row 1 is the account; after the head quarter nothing follows.
Chain(a) ==
    LET row[n \in 1 .. Cardinality(Account) + 2] ==
            IF n = 1 THEN a
            ELSE IF row[n - 1] \in Account THEN account[row[n - 1]].upstream ELSE NULL
    IN row

\* The rows of agents above an account.
AgentRows(a) == LET chain == Chain(a) IN {n \in 2 .. Cardinality(Account) + 1 : chain[n] \in Account}
Above(a) == {Chain(a)[n] : n \in AgentRows(a)}

\* Only the accounts directly under the head quarter may do without a partition.
Partitioned(a) == account[a].partition # NULL \/ account[a].upstream = HeadQuarter

Pending(a) == {f \in Order : franchiseorder[f].accountid = a /\ franchiseorder[f].status = "pending"}

PlaceOrder(a, original, target) ==
    /\ Len(franchiseorder) < MaxOrders
    /\ franchiseorder' = Append(franchiseorder,
           [accountid |-> a, originaltype |-> original, targettype |-> target, status |-> "pending"])

\* check_account_before_insert.  What it reads of the upstream, without a lock, is never
\* taken back but by closing the account.
MayRegister(u) ==
    u # HeadQuarter => account[u] # NULL /\ account[u].status = "ACTIVE" /\ Partitioned(u)

\* The insert of an agent by register_user or student_to_agent, with both its triggers.
Register(a, u, type) ==
    /\ account[a] = NULL /\ MayRegister(u)
    /\ account' = [account EXCEPT ![a] =
           [type |-> type, status |-> "INIT", partition |-> NULL, upstream |-> u]]
    /\ PlaceOrder(a, NULL, type)
    /\ UNCHANGED <<triplecycle, awarded, extended, session, editor, edits, byhand, raced>>

\* UpdateAgentPartition: check_account_before_update refuses to change one that is set.
UpdateAgentPartition(a, partition) ==
    /\ account[a] # NULL /\ account[a].partition = NULL
    /\ account' = [account EXCEPT ![a].partition = partition]
    /\ UNCHANGED <<franchiseorder, triplecycle, awarded, extended, session, editor, edits, byhand, raced>>

-----------------------------------------------------------------------------
(***************************************************************************)
(* Sessions                                                                *)
(***************************************************************************)

InFlight(s, kind) == session[s] # NULL /\ session[s].kind = kind

\* Session s ends; what the sessions in others have read is out of date.
End(s, what, others) ==
    session' = [t \in Session |->
        IF t = s THEN NULL
        ELSE IF t \in others THEN [session[t] EXCEPT !.stale = @ \cup {what}]
        ELSE session[t]]

MayUpgrade_Always(a) == account[a] # NULL

\* check_pending_status
MayUpgrade(a) == account[a] # NULL /\ Pending(a) = {}

\* UpdateAgentTargettype: any type will do ...
UpdateAgentTargettype(s, a, target) ==
    /\ Len(franchiseorder) < MaxOrders
    /\ session[s] = NULL /\ MayUpgrade(a)
    /\ session' = [session EXCEPT ![s] =
           [kind |-> "upgrade", account |-> a, target |-> target, stale |-> {}]]
    /\ UNCHANGED <<account, franchiseorder, triplecycle, awarded, extended, editor, edits, byhand, raced>>

\* ... and the row appears when the insert commits.
InsertUpgrade(s) ==
    LET a == session[s].account IN
    /\ InFlight(s, "upgrade")
    /\ PlaceOrder(a, account[a].type, session[s].target)
    /\ End(s, "pending", {t \in Session : InFlight(t, "upgrade") /\ session[t].account = a})
    /\ raced' = raced \cup {<<x, a>> : x \in session[s].stale}
    /\ UNCHANGED <<account, triplecycle, awarded, extended, editor, edits, byhand>>

-----------------------------------------------------------------------------
(***************************************************************************)
(* assign_award                                                            *)
(***************************************************************************)

Layer(type) == CASE type = "LV2_AGENT" -> 1 [] type = "LV1_AGENT" -> 2 [] type = "HQ_AGENT" -> 3

Upstream(f) == account[franchiseorder[f].accountid].upstream

MayAssign_Settled(f) ==
    LET a == franchiseorder[f].accountid IN
    \A u \in Above(a) : account[u].status = "ACTIVE"

\* What it requires: agents above that are active and, where an extension is due, have a
\* partition, and an account whose status fits the kind of order.
MayAssign(f) ==
    LET fo == franchiseorder[f]
        a  == fo.accountid
    IN
    /\ fo.status = "pending"
    /\ \A u \in Above(a) : account[u].status = "ACTIVE"
    /\ \A n \in AgentRows(a) : n <= ExtensionLevel + 2 => Partitioned(Chain(a)[n])
    /\ account[a].status = "INIT"   => fo.originaltype = NULL
    /\ account[a].status = "ACTIVE" => fo.originaltype # NULL

\* The last number of an account in its triple cycle.
LastNumber(a) ==
    IF a \in Account THEN Max({0} \cup {triplecycle[a][i].number : i \in DOMAIN triplecycle[a]}) ELSE 0

AssignAgentAward(s, f) ==
    /\ session[s] = NULL /\ MayAssign(f)
    /\ session' = [session EXCEPT ![s] =
           [kind |-> "award", order |-> f, number |-> LastNumber(Upstream(f)), stale |-> {},
            types |-> [a \in Account |-> IF account[a] = NULL THEN NULL ELSE account[a].type]]]
    /\ UNCHANGED <<account, franchiseorder, triplecycle, awarded, extended, editor, edits, byhand, raced>>

DirectAwards_Unreduced(f, types) ==
    LET fo  == franchiseorder[f]
        row == Chain(fo.accountid)
    IN [a \in Account |->
           IF \E n \in AgentRows(fo.accountid) :
                  row[n] = a /\ \A m \in 2 .. n - 1 : Layer(types[row[m]]) < Layer(types[a])
           THEN DirectAward[<<types[a], fo.targettype>>] ELSE 0]

\* The direct awards along the chain: the direct upstream, then everybody who outranks
\* those before, gets the award of its type less what has been paid.
DirectAwards(f, types) ==
    LET fo   == franchiseorder[f]
        row  == Chain(fo.accountid)
        none == [layer |-> 0, paid |-> 0, award |-> 0]
        loop[n \in DOMAIN row] ==
            IF n = 1 THEN none
            ELSE LET a == row[n]
                     before == loop[n - 1]
                 IN IF a \in Account /\ (n = 2 \/ Layer(types[a]) > before.layer)
                    THEN LET due == DirectAward[<<types[a], fo.targettype>>]
                         IN [layer |-> Layer(types[a]), paid |-> due, award |-> due - before.paid]
                    ELSE [before EXCEPT !.award = 0]
    IN [a \in Account |-> IF \E n \in AgentRows(fo.accountid) : row[n] = a
                          THEN loop[CHOOSE n \in AgentRows(fo.accountid) : row[n] = a].award ELSE 0]

\* The extension award, on the side of the account one row below.
ExtensionAwards(f) ==
    LET fo  == franchiseorder[f]
        row == Chain(fo.accountid)
    IN [p \in Account \X Accountpartition |->
           IF \E n \in AgentRows(fo.accountid) :
                  /\ n \in 3 .. ExtensionLevel + 2 /\ row[n] = p[1]
                  /\ account[row[n - 1]].partition = p[2]
           THEN Extension[fo.targettype] ELSE 0]

\* A new agent is activated, an old one gets its type.
Activated(f) ==
    LET a == franchiseorder[f].accountid
    IN IF franchiseorder[f].originaltype = NULL
       THEN [account EXCEPT ![a].status = "ACTIVE"]
       ELSE [account EXCEPT ![a].type = franchiseorder[f].targettype]

\* The writes.  They look at nothing that was checked again.
Distribute(s) ==
    LET f      == session[s].order
        u      == Upstream(f)
        direct == DirectAwards(f, session[s].types)
        ext    == ExtensionAwards(f)
    IN
    /\ InFlight(s, "award")
    /\ triplecycle' = IF u \in Account
                      THEN [triplecycle EXCEPT ![u] = Append(@, TripleAward(f, franchiseorder[f].targettype, session[s].number))]
                      ELSE triplecycle
    /\ awarded' = [awarded EXCEPT ![f] = [a \in Account |-> @[a] + direct[a]]]
    /\ extended' = [extended EXCEPT ![f] = [p \in Account \X Accountpartition |-> @[p] + ext[p]]]
    /\ account' = Activated(f)
    /\ franchiseorder' = [franchiseorder EXCEPT ![f].status = "settled"]
    /\ session' = [t \in Session |->
           IF t = s THEN NULL
           ELSE IF ~ InFlight(t, "award") THEN session[t]
           ELSE [session[t] EXCEPT !.stale =
                    @ \cup (IF session[t].order = f THEN {"order"} ELSE {})
                      \cup (IF Upstream(session[t].order) = u THEN {"number"} ELSE {})]]
    /\ raced' = raced \cup {<<x, IF x = "order" THEN f ELSE u>> : x \in session[s].stale}
    /\ UNCHANGED <<editor, edits, byhand>>

-----------------------------------------------------------------------------
(***************************************************************************)
(* The head quarter's editor                                               *)
(***************************************************************************)

OpenEditor(a) ==
    /\ edits < MaxEdits
    /\ account[a] # NULL
    /\ editor' = [accountid |-> a, row |-> account[a]]
    /\ UNCHANGED <<account, franchiseorder, triplecycle, awarded, extended, session, edits, byhand, raced>>

\* UpdateAgentByHQ: the page sends the whole row it has loaded, with what the clerk has
\* changed; an empty partition is not sent, and setting one does what UpdateAgentPartition
\* does.  check_account_before_update refuses to go back to INIT.
UpdateAgentByHQ(type, status) ==
    LET a   == editor.accountid
        old == account[a]
    IN
    /\ type = editor.row.type \/ status = editor.row.status  \* the clerk changes one field
    /\ status = "INIT" => old.status = "INIT"
    /\ account' = [account EXCEPT ![a].type = type, ![a].status = status]
    /\ byhand' = byhand \cup (IF type # old.type THEN {<<"type", a>>} ELSE {})
                        \cup (IF status # old.status THEN {<<"status", a>>} ELSE {})
    /\ editor' = NULL /\ edits' = edits + 1
    /\ UNCHANGED <<franchiseorder, triplecycle, awarded, extended, session, raced>>

-----------------------------------------------------------------------------
Next ==
    \/ \E a \in Account :
          \/ \E u \in Account \cup {HeadQuarter}, type \in Invited : Register(a, u, type)
          \/ \E partition \in Accountpartition : UpdateAgentPartition(a, partition)
          \/ \E s \in Session, target \in Offered : UpdateAgentTargettype(s, a, target)
          \/ OpenEditor(a)
    \/ \E s \in Session : InsertUpgrade(s) \/ Distribute(s) \/ \E f \in Order : AssignAgentAward(s, f)
    \/ /\ editor # NULL
       /\ \E type \in Offered \cup {editor.row.type}, status \in {"ACTIVE", "CLOSED", editor.row.status} :
              UpdateAgentByHQ(type, status)

Spec == Init /\ [][Next]_vars

-----------------------------------------------------------------------------
(***************************************************************************)
(* Properties                                                              *)
(***************************************************************************)

\* What an approval pays in direct awards depends on the highest rank among the agents
\* above only, however many there are and whatever their order: they share the award of
\* that rank.
AwardsTelescope ==
    [][\A s \in Session : (InFlight(s, "award") /\ session'[s] = NULL) =>
          LET f     == session[s].order
              above == Above(franchiseorder[f].accountid)
              top   == {a \in above : \A b \in above :
                            Layer(session[s].types[b]) <= Layer(session[s].types[a])}
              pays  == SumFunctionOnSet([a \in Account |-> awarded'[f][a] - awarded[f][a]], Account)
          IN IF above = {} THEN pays = 0
             ELSE \A a \in top : pays = DirectAward[<<session[s].types[a], franchiseorder[f].targettype>>]
      ]_vars

\* The extension award of an order is booked on the side on which the order lies, seen
\* from the account that earns it, and not beyond the level; two approvals at once book it
\* twice.
ExtensionSides ==
    \A f \in Order, p \in Account \X Accountpartition :
        extended[f][p] > 0 =>
            /\ \E n \in 3 .. ExtensionLevel + 2 :
                  /\ Chain(franchiseorder[f].accountid)[n] = p[1]
                  /\ account[Chain(franchiseorder[f].accountid)[n - 1]].partition = p[2]
            /\ <<"order", f>> \notin raced => extended[f][p] = Extension[franchiseorder[f].targettype]

\* An approved order is in the triple cycle of its upstream once, and one that is pending
\* is not: awards are handed out once, unless two approvals of the order overlap.
AwardedOnce ==
    \A f \in Order : <<"order", f>> \notin raced =>
        \A a \in Account :
            Cardinality({i \in DOMAIN triplecycle[a] : triplecycle[a][i].order = f})
                = IF franchiseorder[f].status = "settled" /\ Upstream(f) = a THEN 1 ELSE 0

\* The triple cycle of an account counts on without a gap, and its three factors take
\* turns, unless two approvals below the account overlap.
TripleInOrder ==
    \A a \in Account : <<"number", a>> \notin raced =>
        \A i \in DOMAIN triplecycle[a] :
            /\ triplecycle[a][i].number = i
            /\ i > Earlier[a] => triplecycle[a][i].amount
                   = AwardX[franchiseorder[triplecycle[a][i].order].targettype] * AwardMod[((i - 1) % 3) + 1]

\* Every agent with somebody below has been activated once, also when the registration
\* below it and its own approval, closing or editing are taken in any order.
NoInitAbove ==
    \A a \in Account : account[a] # NULL => \A u \in Above(a) : account[u].status # "INIT"

\* Every agent with somebody below has a partition, unless it is directly under the head
\* quarter: assign_award never fails for want of one.
PartitionedAbove ==
    \A a \in Account : account[a] # NULL => \A u \in Above(a) : Partitioned(u)

\* An account waits for one order at a time, unless two upgrades were asked for at once.
OnePending == \A a \in Account : <<"pending", a>> \notin raced => Cardinality(Pending(a)) <= 1

\* A pending order can be approved: the first of an account while it is INIT, and an upgrade
\* of an active one.  Only the editor makes an order that nobody can settle any more, and
\* with it an agent that can never upgrade.
PendingSettleable ==
    \A a \in Account : <<"status", a>> \notin byhand =>
        \A f \in Pending(a) : account[a].status = IF franchiseorder[f].originaltype = NULL
                                                  THEN "INIT" ELSE "ACTIVE"

\* An agent has the type of the last order it paid for.  The editor can change it, also
\* without meaning to, when the row it saves was loaded before the approval; and so can an
\* approval, or an upgrade, that overlapped another.
TypeFollowsOrders ==
    \A a \in Account :
        LET mine == {f \in Order : franchiseorder[f].accountid = a}
            paid == {f \in mine : franchiseorder[f].status = "settled"}
        IN (/\ paid # {} /\ <<"type", a>> \notin byhand /\ <<"pending", a>> \notin raced
            /\ \A f \in mine : <<"order", f>> \notin raced)
           => account[a].type = franchiseorder[Max(paid)].targettype

\* The tree that settlement of orders relies on: whoever has somebody below was activated
\* and has a side, waits for one order and has the type it has paid for.
Consistent ==
    /\ TypeOK /\ NoInitAbove /\ PartitionedAbove
    /\ OnePending /\ PendingSettleable /\ TypeFollowsOrders

\* What an approval hands out is handed out once, in its turn and on the right side.
AwardsSound == AwardedOnce /\ TripleInOrder /\ ExtensionSides
=============================================================================
