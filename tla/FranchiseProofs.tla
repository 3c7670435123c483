--------------------------- MODULE FranchiseProofs ---------------------------
(***************************************************************************)
(* How the tree of agents grows, for every number of agents, orders and    *)
(* calls in flight: whoever has somebody below was activated and has a     *)
(* side, and an approval hands out what it has to.                         *)
(*                                                                         *)
(* The chain of upstreams is a recursive function.  That it is defined is  *)
(* proved first, by induction over its rows; then that an account that is  *)
(* in the tree keeps the chain it has, since nothing moves it.             *)
(***************************************************************************)
EXTENDS FranchisePages, SumProofs

------------------------------------------------------------------------------
(* Recursion over the rows of a chain.                                     *)

LEMMA LeastOf ==
    ASSUME NEW S \in SUBSET Nat, S # {}
    PROVE  \E k \in S : \A j \in S : k <= j
<1>1. PICK k \in S : \A j \in S : ~ (<<j, k>> \in OpToRel(<, Nat))
  BY NatLessThanWellFounded, WFMin
<1>2. \A j \in S : ~ (j < k)
  BY <1>1 DEF OpToRel
<1> QED
  BY <1>2

LEMMA RowInduction ==
    ASSUME NEW M \in Nat, NEW S, 1 \in S, \A n \in 1 .. M - 1 : n \in S => n + 1 \in S
    PROVE  1 .. M \subseteq S
<1> DEFINE out == (1 .. M) \ S
<1>1. SUFFICES ASSUME out # {} PROVE FALSE
  OBVIOUS
<1>2. out \in SUBSET Nat
  OBVIOUS
<1>3. PICK k \in out : \A j \in out : k <= j
  <2> HIDE DEF out
  <2> QED
    BY <1>1, <1>2, LeastOf
<1>4. k # 1 /\ k - 1 \in 1 .. M - 1
  BY <1>3
<1>5. k - 1 \in S
  BY <1>3, <1>4
<1> QED
  BY <1>3, <1>4, <1>5

\* A function defined row by row.
Follows(g, M, D, first, step) ==
    /\ g \in [1 .. M -> D] /\ g[1] = first
    /\ \A n \in 2 .. M : g[n] = step[<<n, g[n - 1]>>]

LEMMA RowsExist ==
    ASSUME NEW M \in Nat, M > 0, NEW D, NEW first \in D, NEW step,
           \A n \in 2 .. M, x \in D : step[<<n, x>>] \in D
    PROVE  \E g : Follows(g, M, D, first, step)
<1> DEFINE Good(g, m) == g[1] = first /\ \A n \in 2 .. m : g[n] = step[<<n, g[n - 1]>>]
           S == {m \in 1 .. M : \E g \in [1 .. m -> D] : Good(g, m)}
<1>1. 1 \in S
  <2> DEFINE g == [n \in 1 .. 1 |-> first]
  <2>1. g \in [1 .. 1 -> D] /\ Good(g, 1) /\ 1 \in 1 .. M
    OBVIOUS
  <2> HIDE DEF g
  <2>2. \E h \in [1 .. 1 -> D] : Good(h, 1)
    BY <2>1
  <2> HIDE DEF Good
  <2> QED
    BY <2>1, <2>2
<1>2. ASSUME NEW m \in 1 .. M - 1, m \in S PROVE m + 1 \in S
  <2>1. PICK g \in [1 .. m -> D] : Good(g, m)
    BY <1>2
  <2> DEFINE h == [n \in 1 .. m + 1 |-> IF n = m + 1 THEN step[<<n, g[m]>>] ELSE g[n]]
  <2>2. m + 1 \in 1 .. M /\ m \in 1 .. m
    OBVIOUS
  <2>3. step[<<m + 1, g[m]>>] \in D
    BY <2>2
  <2>4. h \in [1 .. m + 1 -> D]
    BY <2>3
  <2>5. ASSUME NEW n \in 2 .. m + 1 PROVE h[n] = step[<<n, h[n - 1]>>]
    <3>1. CASE n = m + 1
      BY <2>2, <3>1
    <3>2. CASE n # m + 1
      BY <2>1, <3>2
    <3> QED
      BY <3>1, <3>2
  <2>6. h[1] = first
    BY <2>1
  <2> QED
    BY <2>2, <2>4, <2>5, <2>6
<1>3. 1 .. M \subseteq S
  <2> HIDE DEF S
  <2> QED
    BY <1>1, <1>2, RowInduction
<1>4. M \in S
  <2> HIDE DEF S
  <2> QED
    BY <1>3
<1>5. PICK g \in [1 .. M -> D] : Good(g, M)
  BY <1>4
<1>6. Follows(g, M, D, first, step)
  BY <1>5 DEF Follows
<1> QED
  BY <1>6

------------------------------------------------------------------------------
(* The chain.                                                              *)

Height == Cardinality(Account) + 2

LEMMA HeightNat == Height \in Nat /\ Height > 1
  BY FranchiseAssumption, FS_CardinalityType DEF Height

\* The chain read off the rows up.
Path(up, a) ==
    LET row[n \in 1 .. Cardinality(Account) + 2] ==
            IF n = 1 THEN a
            ELSE IF row[n - 1] \in Account THEN up[row[n - 1]].upstream ELSE NULL
    IN row

\* The accounts T are below each other or directly under the head quarter.
Closed(up, T) == \A a \in T : up[a].upstream \in T \cup {HeadQuarter}

LEMMA ChainIsPath == \A a : Chain(a) = Path(account, a)
  BY DEF Chain, Path

LEMMA PathRows ==
    ASSUME NEW up, NEW T \in SUBSET Account, Closed(up, T), NEW a \in T
    PROVE  /\ Path(up, a) \in [1 .. Height -> T \cup {HeadQuarter, NULL}]
           /\ Path(up, a)[1] = a
           /\ \A n \in 2 .. Height :
                 Path(up, a)[n] = IF Path(up, a)[n - 1] \in Account
                                  THEN up[Path(up, a)[n - 1]].upstream ELSE NULL
<1> DEFINE D == T \cup {HeadQuarter, NULL}
           next(x) == IF x \in Account THEN up[x].upstream ELSE NULL
           step == [p \in (1 .. Height) \X D |-> next(p[2])]
           at(g, n) == IF n = 1 THEN a
                       ELSE IF g[n - 1] \in Account THEN up[g[n - 1]].upstream ELSE NULL
           Rows(g) == g = [n \in 1 .. Height |-> at(g, n)]
<1>1. Height \in Nat /\ Height > 0
  BY HeightNat
<1>2. \A x \in D : next(x) \in D
  BY FranchiseAssumption DEF Closed
<1>3. \A n \in 2 .. Height, x \in D : step[<<n, x>>] = next(x)
  BY <1>1
<1> HIDE DEF step, Rows, at
<1>4. \A n \in 2 .. Height, x \in D : step[<<n, x>>] \in D
  BY <1>2, <1>3
<1>5. PICK g : Follows(g, Height, D, a, step)
  <2>1. a \in D
    OBVIOUS
  <2> HIDE DEF D
  <2> QED
    BY <1>1, <1>4, <2>1, RowsExist
<1>6. /\ g \in [1 .. Height -> D] /\ g[1] = a
      /\ \A n \in 2 .. Height : g[n] = step[<<n, g[n - 1]>>]
  BY <1>5 DEF Follows
<1>7. \A n \in 2 .. Height : g[n - 1] \in D
  BY <1>1, <1>6
<1>8. Rows(g)
  <2>1. ASSUME NEW n \in 1 .. Height PROVE g[n] = at(g, n)
    <3>1. CASE n = 1
      BY <1>6, <3>1 DEF at
    <3>2. CASE n # 1
      <4>1. n \in 2 .. Height
        BY <1>1, <3>2
      <4> QED
        BY <1>3, <1>6, <1>7, <3>2, <4>1 DEF at
    <3> QED
      BY <3>1, <3>2
  <2> QED
    BY <1>6, <2>1 DEF Rows
<1>9. Path(up, a) = CHOOSE r : Rows(r)
  BY DEF Path, Height, Rows, at
<1>10. \E r : Rows(r) /\ Path(up, a) = r
  BY <1>8, <1>9
<1>11. ASSUME NEW r, Rows(r)
       PROVE  /\ r[1] = a /\ \A n \in 2 .. Height : r[n] = next(r[n - 1])
              /\ r = [n \in 1 .. Height |-> r[n]]
  <2>1. r = [n \in 1 .. Height |-> at(r, n)]
    BY <1>11 DEF Rows
  <2>2. \A n \in 1 .. Height : r[n] = at(r, n)
    BY <2>1
  <2>3. r = [n \in 1 .. Height |-> r[n]]
    BY <2>1, <2>2
  <2>4. 1 \in 1 .. Height /\ \A n \in 2 .. Height : n \in 1 .. Height /\ n # 1
    BY <1>1
  <2> QED
    BY <2>2, <2>3, <2>4 DEF at
<1>12. ASSUME NEW r, Rows(r) PROVE r \in [1 .. Height -> D]
  <2> DEFINE S == {n \in 1 .. Height : r[n] \in D}
  <2>1. 1 \in S
    BY <1>1, <1>11, <1>12
  <2>2. ASSUME NEW n \in 1 .. Height - 1, n \in S PROVE n + 1 \in S
    <3>1. n + 1 \in 2 .. Height /\ n + 1 \in 1 .. Height /\ (n + 1) - 1 = n
      BY <1>1
    <3>2. r[n + 1] = next(r[n]) /\ r[n] \in D
      <4> HIDE DEF next, D
      <4> QED
        BY <1>11, <1>12, <2>2, <3>1
    <3> HIDE DEF next, D
    <3> QED
      BY <1>2, <3>1, <3>2
  <2>3. 1 .. Height \subseteq S
    <3> HIDE DEF S
    <3> QED
      BY <1>1, <2>1, <2>2, RowInduction
  <2>4. \A n \in 1 .. Height : r[n] \in D
    BY <2>3
  <2> HIDE DEF D, next, S
  <2> QED
    BY <1>11, <1>12, <2>4
<1> HIDE DEF Rows, D
<1>13. PICK r : Rows(r) /\ Path(up, a) = r
  BY <1>10
<1> QED
  BY <1>11, <1>12, <1>13 DEF D

\* Whoever is in the tree keeps the chain it has.
LEMMA PathSame ==
    ASSUME NEW up, NEW down, NEW T \in SUBSET Account, Closed(up, T), NEW a \in T,
           \A x \in T : down[x].upstream = up[x].upstream
    PROVE  Path(down, a) = Path(up, a)
<1> DEFINE p == Path(up, a)
           q == Path(down, a)
           S == {n \in 1 .. Height : p[n] = q[n]}
<1>1. /\ p \in [1 .. Height -> T \cup {HeadQuarter, NULL}] /\ p[1] = a
      /\ \A n \in 2 .. Height : p[n] = IF p[n - 1] \in Account THEN up[p[n - 1]].upstream ELSE NULL
  BY PathRows
<1>2. /\ q \in [1 .. Height -> T \cup {HeadQuarter, NULL}] /\ q[1] = a
      /\ \A n \in 2 .. Height : q[n] = IF q[n - 1] \in Account THEN down[q[n - 1]].upstream ELSE NULL
  <2>1. Closed(down, T)
    BY DEF Closed
  <2> QED
    BY <2>1, PathRows
<1> HIDE DEF p, q
<1>3. Height \in Nat /\ Height > 1
  BY HeightNat
<1>4. 1 \in S
  BY <1>1, <1>2, <1>3
<1>5. ASSUME NEW n \in 1 .. Height - 1, n \in S PROVE n + 1 \in S
  <2>1. n + 1 \in 2 .. Height /\ n + 1 \in 1 .. Height /\ (n + 1) - 1 = n
    BY <1>3
  <2>2. p[n] = q[n] /\ p[n] \in T \cup {HeadQuarter, NULL}
    BY <1>1, <1>5
  <2>3. p[n + 1] = IF p[n] \in Account THEN up[p[n]].upstream ELSE NULL
    BY <1>1, <2>1
  <2>4. q[n + 1] = IF p[n] \in Account THEN down[p[n]].upstream ELSE NULL
    BY <1>2, <2>1, <2>2
  <2>5. p[n] \in Account => p[n] \in T
    BY <2>2, FranchiseAssumption
  <2> QED
    BY <2>1, <2>3, <2>4, <2>5
<1>6. 1 .. Height \subseteq S
  <2> HIDE DEF S
  <2> QED
    BY <1>3, <1>4, <1>5, RowInduction
<1>7. p = q
  <2>1. \A n \in 1 .. Height : p[n] = q[n]
    BY <1>6
  <2>2. p = [n \in 1 .. Height |-> p[n]] /\ q = [n \in 1 .. Height |-> q[n]]
    BY <1>1, <1>2
  <2> QED
    BY <2>1, <2>2, Zenon
<1> QED
  BY <1>7 DEF p, q

------------------------------------------------------------------------------
(* The parts of the invariant.                                             *)

Registered == {a \in Account : account[a] # NULL}

OrdersOf(a) == {f \in Order : franchiseorder[f].accountid = a}

Paid(a) == {f \in OrdersOf(a) : franchiseorder[f].status = "settled"}

\* Whoever has somebody below is in the tree, was activated and has a side.
Rooted ==
    \A a \in Registered : LET u == account[a].upstream IN
        u # HeadQuarter => u \in Registered /\ account[u].status # "INIT" /\ Partitioned(u)

\* An order is an agent's; an agent registers with one order and pays for the others later.
Placed ==
    /\ \A f \in Order : franchiseorder[f].accountid \in Registered
    /\ \A f, g \in Order :
          /\ franchiseorder[f].accountid = franchiseorder[g].accountid
          /\ franchiseorder[f].originaltype = NULL /\ franchiseorder[g].originaltype = NULL
          => f = g

\* The order an agent registers with keeps it INIT while it is pending.
StatusByOrders ==
    \A a \in Registered : <<"status", a>> \notin byhand =>
        /\ \A f \in OrdersOf(a) : account[a].status =
              IF franchiseorder[f].status = "pending" /\ franchiseorder[f].originaltype = NULL
              THEN "INIT" ELSE "ACTIVE"
        /\ account[a].status = "INIT" => Pending(a) # {}
        /\ account[a].status # "CLOSED"

\* What is pending came after what was paid.
PendingLast ==
    \A a \in Account : <<"pending", a>> \notin raced =>
        \A f \in Pending(a), g \in OrdersOf(a) : g <= f

\* An agent that waits for its first approval has the type it registered with.
TypeAtFirst ==
    \A a \in Registered :
        /\ <<"type", a>> \notin byhand /\ <<"pending", a>> \notin raced
        /\ \A f \in OrdersOf(a) : <<"order", f>> \notin raced
        => \A f \in Pending(a) : franchiseorder[f].originaltype = NULL
                => account[a].type = franchiseorder[f].targettype

\* TypeFollowsOrders of the last order that was paid, without Max.
TypeByOrders ==
    \A a \in Account :
        /\ <<"type", a>> \notin byhand /\ <<"pending", a>> \notin raced
        /\ \A f \in OrdersOf(a) : <<"order", f>> \notin raced
        => \A m \in Paid(a) : (\A f \in Paid(a) : f <= m)
                => account[a].type = franchiseorder[m].targettype

TreeInv ==
    /\ TypeOK /\ Rooted /\ Placed /\ OnePending /\ StatusByOrders
    /\ PendingLast /\ TypeAtFirst /\ TypeByOrders

\* What a call has read is true until another call ends that makes it stale.
AwardRead(c) ==
    /\ c.order \in Order
    /\ "order" \notin c.stale => franchiseorder[c.order].status = "pending"
    /\ "number" \notin c.stale => c.number = LastNumber(Upstream(c.order))
    /\ LET chain == Chain(franchiseorder[c.order].accountid) IN
       \A n \in 2 .. Height : chain[n] \in Account => c.types[chain[n]] \in AgentType

UpgradeRead(c) ==
    /\ c.account \in Registered
    /\ "pending" \notin c.stale => Pending(c.account) = {}
    /\ <<"status", c.account>> \notin byhand => account[c.account].status = "ACTIVE"

CallsRead ==
    \A s \in Session : /\ InFlight(s, "award") => AwardRead(session[s])
                       /\ InFlight(s, "upgrade") => UpgradeRead(session[s])

EditorLoaded == editor # NULL => editor.accountid \in Registered /\ edits < MaxEdits

\* Rows of the triple cycles are of orders there are, and have the amount of their place.
RowsPlaced ==
    /\ \A a \in Account : Earlier[a] <= Len(triplecycle[a])
    /\ \A a \in Account : \A i \in DOMAIN triplecycle[a] : LET row == triplecycle[a][i] IN
        /\ row.order <= Len(franchiseorder)
        /\ row.order = 0 <=> i <= Earlier[a]
        /\ row.order # 0 => /\ row.number > 0
                            /\ row.amount = AwardX[franchiseorder[row.order].targettype]
                                               * AwardMod[((row.number - 1) % 3) + 1]

\* Where extension awards of an order may be booked.
OnSideOf(f, p) ==
    \E n \in AgentRows(franchiseorder[f].accountid) :
        /\ n \in 3 .. ExtensionLevel + 2
        /\ Chain(franchiseorder[f].accountid)[n] = p[1]
        /\ account[Chain(franchiseorder[f].accountid)[n - 1]].partition = p[2]

ExtendedBySide ==
    /\ \A f \in Order, p \in Account \X Accountpartition :
          /\ extended[f][p] > 0 => OnSideOf(f, p)
          /\ <<"order", f>> \notin raced => extended[f][p] \in {0, Extension[franchiseorder[f].targettype]}
          /\ <<"order", f>> \notin raced /\ franchiseorder[f].status = "pending" => extended[f][p] = 0
    /\ \A f \in (1..MaxOrders) \ Order, p \in Account \X Accountpartition : extended[f][p] = 0

IInv == TreeInv /\ CallsRead /\ EditorLoaded /\ RowsPlaced /\ AwardedOnce /\ TripleInOrder /\ ExtendedBySide

\* The tree and the orders grow, and what places an account in the tree stays.
Grown ==
    /\ account' \in [Account -> AccountRow \cup {NULL}]
    /\ \A a \in Registered :
          /\ a \in Registered' /\ account'[a].upstream = account[a].upstream
          /\ account[a].partition # NULL => account'[a].partition = account[a].partition
    /\ \A f \in Order :
          /\ f \in Order' /\ franchiseorder'[f].accountid = franchiseorder[f].accountid
          /\ franchiseorder'[f].originaltype = franchiseorder[f].originaltype
          /\ franchiseorder'[f].targettype = franchiseorder[f].targettype

------------------------------------------------------------------------------
(* The chain of an account in the tree.                                    *)

LEMMA RegisteredRows ==
    ASSUME TypeOK
    PROVE  /\ Registered \subseteq Account
           /\ \A a \in Registered :
                /\ account[a] \in AccountRow /\ account[a].type \in AgentType
                /\ account[a].status \in Accountstatus
                /\ account[a].partition \in Accountpartition \cup {NULL}
                /\ account[a].upstream \in Account \cup {HeadQuarter}
BY DEF TypeOK, Registered, AccountRow

LEMMA OrderRows ==
    ASSUME TypeOK
    PROVE  /\ Len(franchiseorder) \in 0 .. MaxOrders /\ Order = 1 .. Len(franchiseorder)
           /\ Order \subseteq 1 .. MaxOrders
           /\ \A f \in Order :
                /\ f \in Nat /\ f # 0 /\ franchiseorder[f] \in OrderRow
                /\ franchiseorder[f].accountid \in Account
                /\ franchiseorder[f].originaltype \in AgentType \cup {NULL}
                /\ franchiseorder[f].targettype \in AgentType
                /\ franchiseorder[f].status \in {"pending", "settled"}
<1>1. /\ franchiseorder \in Seq(OrderRow) /\ Len(franchiseorder) <= MaxOrders /\ MaxOrders \in Nat
  BY FranchiseAssumption DEF TypeOK
<1>2. Len(franchiseorder) \in Nat /\ Order = 1 .. Len(franchiseorder)
  BY <1>1 DEF Order
<1>3. \A f \in Order : franchiseorder[f] \in OrderRow
  BY <1>1, <1>2
<1>4. \A f \in Order : f \in Nat /\ f # 0 /\ f \in 1 .. MaxOrders
  BY <1>1, <1>2
<1> QED
  BY <1>1, <1>2, <1>3, <1>4 DEF OrderRow

LEMMA CycleRows ==
    ASSUME TypeOK, NEW a \in Account
    PROVE  /\ Len(triplecycle[a]) \in Nat /\ DOMAIN triplecycle[a] = 1 .. Len(triplecycle[a])
           /\ \A i \in DOMAIN triplecycle[a] :
                /\ i \in Nat /\ triplecycle[a][i] \in TripleRow
                /\ triplecycle[a][i].order \in Nat /\ triplecycle[a][i].number \in Nat
<1>1. triplecycle[a] \in Seq(TripleRow) /\ MaxOrders \in Nat
  BY FranchiseAssumption DEF TypeOK
<1>2. \A i \in DOMAIN triplecycle[a] : i \in Nat /\ triplecycle[a][i] \in TripleRow
  BY <1>1
<1> QED
  BY <1>1, <1>2 DEF TripleRow

LEMMA TreeClosed ==
    ASSUME TypeOK, Rooted
    PROVE  Closed(account, Registered)
BY RegisteredRows DEF Rooted, Closed

LEMMA ChainOf ==
    ASSUME TypeOK, Rooted, NEW a \in Registered
    PROVE  /\ Chain(a) \in [1 .. Height -> Registered \cup {HeadQuarter, NULL}]
           /\ Chain(a)[1] = a
           /\ \A n \in 2 .. Height :
                 Chain(a)[n] = IF Chain(a)[n - 1] \in Account
                               THEN account[Chain(a)[n - 1]].upstream ELSE NULL
BY RegisteredRows, TreeClosed, PathRows, ChainIsPath

\* Whoever is above an account is in the tree, was activated and has a side.
LEMMA AboveSound ==
    ASSUME TypeOK, Rooted, NEW a \in Registered, NEW n \in AgentRows(a)
    PROVE  LET u == Chain(a)[n] IN
           /\ n \in 2 .. Height - 1 /\ u \in Registered
           /\ Chain(a)[n - 1] \in Registered /\ account[Chain(a)[n - 1]].upstream = u
           /\ account[u].status # "INIT" /\ Partitioned(u)
<1> DEFINE u == Chain(a)[n]
           x == Chain(a)[n - 1]
<1>1. /\ Chain(a) \in [1 .. Height -> Registered \cup {HeadQuarter, NULL}]
      /\ Chain(a)[n] = IF Chain(a)[n - 1] \in Account THEN account[Chain(a)[n - 1]].upstream ELSE NULL
      /\ n \in 2 .. Height - 1 /\ n \in 1 .. Height /\ n - 1 \in 1 .. Height
  <2>1. n \in 2 .. Cardinality(Account) + 1 /\ Cardinality(Account) \in Nat
    BY FS_CardinalityType, FranchiseAssumption DEF AgentRows
  <2>2. n \in 2 .. Height /\ n \in 2 .. Height - 1 /\ n \in 1 .. Height /\ n - 1 \in 1 .. Height
    BY <2>1 DEF Height
  <2> QED
    BY <2>2, ChainOf
<1>2. Chain(a)[n] \in Account
  BY DEF AgentRows
<1>3. Chain(a)[n] \in Registered \cup {HeadQuarter, NULL} /\ Chain(a)[n - 1] \in Registered \cup {HeadQuarter, NULL}
  BY <1>1
<1> HIDE DEF u, x
<1>4. u \in Account /\ u = (IF x \in Account THEN account[x].upstream ELSE NULL)
  BY <1>1, <1>2 DEF u, x
<1>5. u \in Registered \cup {HeadQuarter, NULL} /\ x \in Registered \cup {HeadQuarter, NULL}
  BY <1>3 DEF u, x
<1>6. u \in Registered /\ x \in Registered /\ account[x].upstream = u /\ u # HeadQuarter
  BY <1>4, <1>5, FranchiseAssumption
<1>7. account[u].status # "INIT" /\ Partitioned(u)
  BY <1>6 DEF Rooted
<1> QED
  BY <1>1, <1>6, <1>7 DEF u, x

\* Whoever is in the tree keeps the chain it has.
LEMMA ChainStays ==
    ASSUME TypeOK, Rooted, Grown, NEW a \in Registered
    PROVE  Chain(a)' = Chain(a) /\ AgentRows(a)' = AgentRows(a) /\ Above(a)' = Above(a)
<1>1. Chain(a)' = Path(account', a)
  BY DEF Chain, Path
<1>2. Path(account', a) = Path(account, a)
  BY RegisteredRows, TreeClosed, PathSame DEF Grown
<1>3. Chain(a)' = Chain(a)
  BY <1>1, <1>2, ChainIsPath
<1>4. AgentRows(a)' = AgentRows(a)
  BY <1>3 DEF AgentRows
<1> QED
  BY <1>3, <1>4 DEF Above

LEMMA UpstreamStays ==
    ASSUME TypeOK, Placed, Grown, NEW f \in Order
    PROVE  Upstream(f)' = Upstream(f) /\ Upstream(f) \in Account \cup {HeadQuarter}
BY RegisteredRows DEF Upstream, Placed, Grown

------------------------------------------------------------------------------
LEMMA InitIInv == Init => IInv
<1> SUFFICES ASSUME Init PROVE IInv
  OBVIOUS
<1>1. /\ account = Opening /\ franchiseorder = <<>> /\ Len(franchiseorder) = 0
      /\ triplecycle = [a \in Account |-> [i \in 1 .. Earlier[a] |-> [number |-> i, order |-> 0, amount |-> 0]]]
      /\ extended = [f \in 1..MaxOrders |-> [p \in Account \X Accountpartition |-> 0]]
      /\ session = [s \in Session |-> NULL] /\ byhand = {} /\ raced = {}
  BY DEF Init
<1>2. Order = {} /\ \A a : OrdersOf(a) = {} /\ Pending(a) = {}
  BY <1>1 DEF Order, OrdersOf, Pending
<1>3. TypeOK
  <2>1. account \in [Account -> AccountRow \cup {NULL}]
    BY <1>1, FranchiseAssumption
  <2>2. franchiseorder \in Seq(OrderRow) /\ Len(franchiseorder) <= MaxOrders
    BY <1>1, FranchiseAssumption
  <2>3. triplecycle \in [Account -> Seq(TripleRow)]
    <3>1. ASSUME NEW a \in Account PROVE triplecycle[a] \in Seq(TripleRow)
      <4>1. Earlier[a] \in Nat
        BY FranchiseAssumption
      <4>2. \A i \in 1 .. Earlier[a] : [number |-> i, order |-> 0, amount |-> 0] \in TripleRow
        BY <4>1, FranchiseAssumption DEF TripleRow
      <4>3. [i \in 1 .. Earlier[a] |-> [number |-> i, order |-> 0, amount |-> 0]] \in Seq(TripleRow)
        BY <4>1, <4>2
      <4> QED
        BY <1>1, <4>3
    <3> QED
      BY <1>1, <3>1
  <2>4. /\ awarded \in [1..MaxOrders -> [Account -> Int]]
        /\ extended \in [1..MaxOrders -> [Account \X Accountpartition -> Nat]]
    BY DEF Init
  <2>5. session \in [Session -> Call \cup {NULL}] /\ editor = NULL /\ edits \in 0..MaxEdits
    BY FranchiseAssumption DEF Init
  <2> QED
    BY <1>1, <2>1, <2>2, <2>3, <2>4, <2>5 DEF TypeOK
<1>4. Rooted
  BY <1>1, FranchiseAssumption, OpeningAssumption DEF Rooted, Registered, Partitioned, AccountRow
<1>5. Placed /\ PendingLast /\ TypeAtFirst /\ TypeByOrders
  BY <1>2 DEF Placed, PendingLast, TypeAtFirst, TypeByOrders, Paid
<1>6. OnePending
  BY <1>2, FS_EmptySet DEF OnePending
<1>7. StatusByOrders
  BY <1>1, <1>2, OpeningAssumption DEF StatusByOrders, Registered
<1>8. CallsRead /\ EditorLoaded
  BY <1>1 DEF CallsRead, InFlight, EditorLoaded, Init
<1>9. RowsPlaced /\ TripleInOrder
  <2>1. ASSUME NEW a \in Account, NEW i \in DOMAIN triplecycle[a]
        PROVE  /\ triplecycle[a][i] = [number |-> i, order |-> 0, amount |-> 0]
               /\ i \in 1 .. Earlier[a] /\ Earlier[a] \in Nat
    BY <1>1, FranchiseAssumption
  <2>2. ASSUME NEW a \in Account, NEW i \in DOMAIN triplecycle[a]
        PROVE  /\ triplecycle[a][i].order = 0 /\ triplecycle[a][i].number = i
               /\ i \in Nat /\ Earlier[a] \in Nat /\ i <= Earlier[a]
    <3>1. PICK row : row = triplecycle[a][i]
      OBVIOUS
    <3>2. row = [number |-> i, order |-> 0, amount |-> 0]
      BY <2>1, <3>1
    <3>3. row.order = 0 /\ row.number = i
      BY <3>2
    <3>4. i \in 1 .. Earlier[a] /\ Earlier[a] \in Nat
      BY <2>1
    <3> QED
      BY <3>1, <3>3, <3>4
  <2>3. RowsPlaced
    <3>1. ASSUME NEW a \in Account PROVE Earlier[a] <= Len(triplecycle[a])
      <4>1. Earlier[a] \in Nat
        BY FranchiseAssumption
      <4>2. Len(triplecycle[a]) = Earlier[a]
        BY <1>1, <4>1
      <4> QED
        BY <4>1, <4>2
    <3>2. ASSUME NEW a \in Account, NEW i \in DOMAIN triplecycle[a]
          PROVE  /\ triplecycle[a][i].order <= Len(franchiseorder)
                 /\ triplecycle[a][i].order = 0 /\ i <= Earlier[a]
      BY <1>1, <2>2
    <3> QED
      BY <3>1, <3>2 DEF RowsPlaced
  <2>4. TripleInOrder
    BY <2>2 DEF TripleInOrder
  <2> QED
    BY <2>3, <2>4
<1>10. AwardedOnce /\ ExtendedBySide
  BY <1>1, <1>2 DEF AwardedOnce, ExtendedBySide
<1> QED
  BY <1>3, <1>4, <1>5, <1>6, <1>7, <1>8, <1>9, <1>10 DEF IInv, TreeInv

------------------------------------------------------------------------------
(* What most steps do not touch.                                           *)

\* Orders are placed, and none is approved.
Unapproved ==
    /\ \A f \in Order : franchiseorder'[f].status = franchiseorder[f].status
    /\ \A f \in Order' \ Order : franchiseorder'[f].status = "pending"

LEMMA CyclesKept ==
    ASSUME IInv, TypeOK', Grown, triplecycle' = triplecycle, raced \subseteq raced'
    PROVE  RowsPlaced' /\ TripleInOrder'
<1>1. /\ TypeOK /\ RowsPlaced /\ TripleInOrder
      /\ Len(franchiseorder) \in Nat /\ Order = 1 .. Len(franchiseorder)
  BY OrderRows DEF IInv, TreeInv
<1>2. Len(franchiseorder) <= Len(franchiseorder')
  <2>1. Len(franchiseorder') \in Nat /\ Order' = 1 .. Len(franchiseorder')
    BY DEF TypeOK, Order
  <2>2. Order \subseteq Order'
    BY DEF Grown
  <2> QED
    BY <1>1, <2>1, <2>2
<1>3. ASSUME NEW a \in Account, NEW i \in DOMAIN triplecycle[a], triplecycle[a][i].order # 0
      PROVE  LET f == triplecycle[a][i].order IN
             franchiseorder'[f].targettype = franchiseorder[f].targettype
  <2>1. triplecycle[a][i].order \in Nat
    BY <1>1, CycleRows
  <2>2. triplecycle[a][i].order \in Order
    BY <1>1, <1>3, <2>1 DEF RowsPlaced
  <2> QED
    BY <2>2 DEF Grown
<1>4. RowsPlaced'
  <2> SUFFICES ASSUME NEW a \in Account, NEW i \in DOMAIN triplecycle[a]
               PROVE  LET row == triplecycle[a][i] IN
                      /\ row.order <= Len(franchiseorder')
                      /\ row.order = 0 <=> i <= Earlier[a]
                      /\ row.order # 0 => /\ row.number > 0
                                          /\ row.amount = AwardX[franchiseorder'[row.order].targettype]
                                                             * AwardMod[((row.number - 1) % 3) + 1]
    BY <1>1 DEF RowsPlaced
  <2>1. triplecycle[a][i].order \in Nat
    BY <1>1, CycleRows
  <2>2. triplecycle[a][i].order <= Len(franchiseorder)
    BY <1>1 DEF RowsPlaced
  <2>3. triplecycle[a][i].order <= Len(franchiseorder')
    <3>1. Len(franchiseorder') \in Nat
      BY DEF TypeOK
    <3> QED
      BY <1>1, <1>2, <2>1, <2>2, <3>1
  <2> QED
    BY <1>1, <1>3, <2>3 DEF RowsPlaced
<1>5. TripleInOrder'
  <2> SUFFICES ASSUME NEW a \in Account, <<"number", a>> \notin raced', NEW i \in DOMAIN triplecycle[a]
               PROVE  /\ triplecycle[a][i].number = i
                      /\ i > Earlier[a] => triplecycle[a][i].amount
                            = AwardX[franchiseorder'[triplecycle[a][i].order].targettype]
                                 * AwardMod[((i - 1) % 3) + 1]
    BY DEF TripleInOrder
  <2>1. i \in Nat /\ Earlier[a] \in Nat
    BY <1>1, CycleRows, FranchiseAssumption
  <2>2. i > Earlier[a] => triplecycle[a][i].order # 0
    BY <1>1, <2>1 DEF RowsPlaced
  <2> QED
    BY <1>1, <1>3, <2>2 DEF TripleInOrder
<1> QED
  BY <1>4, <1>5

LEMMA AwardsKept ==
    ASSUME IInv, TypeOK', Grown, Unapproved, triplecycle' = triplecycle, raced \subseteq raced'
    PROVE  AwardedOnce'
<1>1. TypeOK /\ Placed /\ RowsPlaced /\ AwardedOnce
  BY DEF IInv, TreeInv
<1> SUFFICES ASSUME NEW f \in Order', <<"order", f>> \notin raced', NEW a \in Account
             PROVE  Cardinality({i \in DOMAIN triplecycle[a] : triplecycle[a][i].order = f})
                      = IF franchiseorder'[f].status = "settled" /\ Upstream(f)' = a THEN 1 ELSE 0
  BY DEF AwardedOnce
<1>2. CASE f \in Order
  BY <1>1, <1>2, UpstreamStays DEF AwardedOnce, Unapproved
<1>3. CASE f \notin Order
  <2>1. f \in Nat /\ f # 0 /\ ~ (f <= Len(franchiseorder))
    <3>1. f \in Nat /\ f # 0
      <4>1. franchiseorder' \in Seq(OrderRow)
        BY DEF TypeOK
      <4> QED
        BY <4>1 DEF Order
    <3>2. Order = 1 .. Len(franchiseorder) /\ Len(franchiseorder) \in Nat
      BY <1>1, OrderRows
    <3> QED
      BY <1>3, <3>1, <3>2
  <2>2. {i \in DOMAIN triplecycle[a] : triplecycle[a][i].order = f} = {}
    BY <1>1, <2>1 DEF RowsPlaced
  <2>3. franchiseorder'[f].status = "pending"
    BY <1>3 DEF Unapproved
  <2> QED
    BY <2>2, <2>3, FS_EmptySet
<1> QED
  BY <1>2, <1>3

LEMMA SideStays ==
    ASSUME TypeOK, Rooted, Placed, Grown, NEW f \in Order, NEW p \in Account \X Accountpartition,
           OnSideOf(f, p)
    PROVE  OnSideOf(f, p)'
<1> DEFINE a == franchiseorder[f].accountid
<1>1. a \in Registered /\ franchiseorder'[f].accountid = a
  BY DEF Placed, Grown
<1>2. Chain(a)' = Chain(a) /\ AgentRows(a)' = AgentRows(a)
  BY <1>1, ChainStays
<1>3. PICK n \in AgentRows(a) :
        /\ n \in 3 .. ExtensionLevel + 2 /\ Chain(a)[n] = p[1]
        /\ account[Chain(a)[n - 1]].partition = p[2]
  BY DEF OnSideOf
<1>4. Chain(a)[n - 1] \in Registered
  BY <1>1, AboveSound
<1>5. p[2] # NULL
  BY FranchiseAssumption DEF Accountpartition
<1>6. account'[Chain(a)[n - 1]].partition = p[2]
  BY <1>3, <1>4, <1>5 DEF Grown
<1>7. (Chain(franchiseorder[f].accountid))' = Chain(a) /\ AgentRows(franchiseorder[f].accountid)' = AgentRows(a)
  <2>1. PICK b : b = a
    OBVIOUS
  <2>2. Chain(b)' = Chain(b) /\ AgentRows(b)' = AgentRows(b)
    BY <1>1, <2>1, ChainStays
  <2>3. franchiseorder'[f].accountid = b
    BY <1>1, <2>1
  <2> QED
    BY <2>1, <2>2, <2>3
<1> QED
  BY <1>3, <1>6, <1>7 DEF OnSideOf

LEMMA ExtensionsKept ==
    ASSUME IInv, TypeOK', Grown, Unapproved, extended' = extended, raced \subseteq raced'
    PROVE  ExtendedBySide'
<1>1. TypeOK /\ Rooted /\ Placed /\ ExtendedBySide
  BY DEF IInv, TreeInv
<1>2. Order' \subseteq 1 .. MaxOrders
  <2>1. franchiseorder' \in Seq(OrderRow) /\ Len(franchiseorder') <= MaxOrders /\ MaxOrders \in Nat
    BY FranchiseAssumption DEF TypeOK
  <2> QED
    BY <2>1 DEF Order
<1>3. ASSUME NEW f \in Order', NEW p \in Account \X Accountpartition
      PROVE  /\ extended[f][p] > 0 => OnSideOf(f, p)'
             /\ <<"order", f>> \notin raced' =>
                   extended[f][p] \in {0, Extension[franchiseorder'[f].targettype]}
             /\ <<"order", f>> \notin raced' /\ franchiseorder'[f].status = "pending" => extended[f][p] = 0
  <2>1. CASE f \in Order
    BY <1>1, <2>1, SideStays DEF ExtendedBySide, Unapproved, Grown
  <2>2. CASE f \notin Order
    <3>1. extended[f][p] = 0
      BY <1>1, <1>2, <2>2 DEF ExtendedBySide
    <3> QED
      BY <3>1
  <2> QED
    BY <2>1, <2>2
<1>4. \A f \in (1..MaxOrders) \ Order', p \in Account \X Accountpartition : extended[f][p] = 0
  BY <1>1 DEF ExtendedBySide, Grown
<1> QED
  BY <1>3, <1>4 DEF ExtendedBySide

\* A call's reads stay what they are while no order is approved and none is placed for the
\* account of an upgrade.
LEMMA AwardReadStays ==
    ASSUME IInv, Grown, Unapproved, triplecycle' = triplecycle, NEW c, AwardRead(c)
    PROVE  AwardRead(c)'
<1>1. TypeOK /\ Rooted /\ Placed
  BY DEF IInv, TreeInv
<1>2. /\ c.order \in Order
      /\ "order" \notin c.stale => franchiseorder[c.order].status = "pending"
      /\ "number" \notin c.stale => c.number = LastNumber(Upstream(c.order))
      /\ \A n \in 2 .. Height : LET chain == Chain(franchiseorder[c.order].accountid) IN
            chain[n] \in Account => c.types[chain[n]] \in AgentType
  BY DEF AwardRead
<1>3. PICK u : u = Upstream(c.order)
  OBVIOUS
<1>4. Upstream(c.order)' = u
  BY <1>1, <1>2, <1>3, UpstreamStays
<1>5. LastNumber(u)' = LastNumber(u)
  BY DEF LastNumber
<1>6. PICK b : b = franchiseorder[c.order].accountid
  OBVIOUS
<1>7. b \in Registered /\ franchiseorder'[c.order].accountid = b
  BY <1>1, <1>2, <1>6 DEF Placed, Grown
<1>8. Chain(b)' = Chain(b)
  BY <1>1, <1>7, ChainStays
<1>9. (LastNumber(Upstream(c.order)))' = LastNumber(u)
  BY <1>4, <1>5 DEF LastNumber
<1>10. (Chain(franchiseorder[c.order].accountid))' = Chain(b)
  BY <1>7, <1>8
<1>11. Height' = Height
  BY DEF Height
<1> QED
  BY <1>2, <1>3, <1>6, <1>9, <1>10, <1>11 DEF AwardRead, Unapproved, Grown

LEMMA BooksKept ==
    ASSUME IInv, TypeOK', Grown, Unapproved, UNCHANGED <<triplecycle, extended>>, raced \subseteq raced'
    PROVE  RowsPlaced' /\ TripleInOrder' /\ AwardedOnce' /\ ExtendedBySide'
BY CyclesKept, AwardsKept, ExtensionsKept

LEMMA UpgradeReadStays ==
    ASSUME IInv, Grown, NEW c, UpgradeRead(c), byhand \subseteq byhand',
           "pending" \notin c.stale => Pending(c.account)' = {},
           \/ <<"status", c.account>> \in byhand'
           \/ account'[c.account].status = account[c.account].status
    PROVE  UpgradeRead(c)'
BY DEF UpgradeRead, Grown

\* What PlaceOrder adds.
LEMMA OrderPlaced ==
    ASSUME TypeOK, NEW a \in Account, NEW original \in AgentType \cup {NULL}, NEW target \in AgentType,
           PlaceOrder(a, original, target)
    PROVE  \E g \in 1 .. MaxOrders :
             /\ g \notin Order /\ Order' = Order \cup {g} /\ g > Len(franchiseorder)
             /\ franchiseorder' \in Seq(OrderRow) /\ Len(franchiseorder') <= MaxOrders
             /\ \A f \in Order : franchiseorder'[f] = franchiseorder[f] /\ f < g
             /\ franchiseorder'[g].accountid = a /\ franchiseorder'[g].originaltype = original
             /\ franchiseorder'[g].targettype = target /\ franchiseorder'[g].status = "pending"
             /\ Unapproved
<1> DEFINE g == Len(franchiseorder) + 1
           row == [accountid |-> a, originaltype |-> original, targettype |-> target, status |-> "pending"]
<1>1. /\ franchiseorder \in Seq(OrderRow) /\ Len(franchiseorder) \in Nat /\ MaxOrders \in Nat
      /\ Order = 1 .. Len(franchiseorder)
  <2>1. franchiseorder \in Seq(OrderRow) /\ MaxOrders \in Nat
    BY FranchiseAssumption DEF TypeOK
  <2> QED
    BY <2>1, OrderRows
<1>2. row \in OrderRow /\ row.accountid = a /\ row.originaltype = original /\ row.targettype = target
        /\ row.status = "pending"
  BY DEF OrderRow
<1>3. Len(franchiseorder) < MaxOrders /\ franchiseorder' = Append(franchiseorder, row)
  BY DEF PlaceOrder
<1> HIDE DEF row
<1>4. /\ franchiseorder' \in Seq(OrderRow) /\ Len(franchiseorder') = g
      /\ \A f \in 1 .. Len(franchiseorder) : franchiseorder'[f] = franchiseorder[f]
      /\ franchiseorder'[g] = row
  BY <1>1, <1>2, <1>3
<1>5. Order' = 1 .. g
  BY <1>4 DEF Order
<1>6. g \in 1 .. MaxOrders /\ Order' = Order \cup {g} /\ g \notin Order /\ Len(franchiseorder') <= MaxOrders
  BY <1>1, <1>3, <1>4, <1>5
<1>7. \A f \in Order : franchiseorder'[f] = franchiseorder[f] /\ f < g
  BY <1>1, <1>4
<1>8. g > Len(franchiseorder)
  BY <1>1
<1> HIDE DEF g
<1>9. Unapproved
  BY <1>2, <1>4, <1>6, <1>7 DEF Unapproved
<1> QED
  BY <1>2, <1>4, <1>6, <1>7, <1>8, <1>9

LEMMA RegisterIInv ==
    ASSUME IInv, NEW a \in Account, NEW u \in Account \cup {HeadQuarter}, NEW type \in Invited,
           Register(a, u, type)
    PROVE  IInv'
<1>1. /\ account[a] = NULL /\ MayRegister(u) /\ PlaceOrder(a, NULL, type)
      /\ UNCHANGED <<triplecycle, awarded, extended, session, editor, edits, byhand, raced>>
  BY DEF Register
<1>2. TypeOK /\ TreeInv /\ type \in AgentType
  BY FranchiseAssumption DEF IInv, TreeInv
<1>3. PICK row \in AccountRow :
        /\ account' = [account EXCEPT ![a] = row]
        /\ row.type = type /\ row.status = "INIT" /\ row.partition = NULL /\ row.upstream = u
  <2> DEFINE row == [type |-> type, status |-> "INIT", partition |-> NULL, upstream |-> u]
  <2>1. row \in AccountRow
    BY <1>2 DEF AccountRow, Accountstatus
  <2>2. account' = [account EXCEPT ![a] = row]
    BY DEF Register
  <2>3. row.type = type /\ row.status = "INIT" /\ row.partition = NULL /\ row.upstream = u
    OBVIOUS
  <2> QED
    BY <2>1, <2>2, <2>3
<1>4. PICK g \in 1 .. MaxOrders :
        /\ g \notin Order /\ Order' = Order \cup {g} /\ g > Len(franchiseorder)
        /\ franchiseorder' \in Seq(OrderRow) /\ Len(franchiseorder') <= MaxOrders
        /\ \A f \in Order : franchiseorder'[f] = franchiseorder[f] /\ f < g
        /\ franchiseorder'[g].accountid = a /\ franchiseorder'[g].originaltype = NULL
        /\ franchiseorder'[g].targettype = type /\ franchiseorder'[g].status = "pending"
        /\ Unapproved
  BY <1>1, <1>2, OrderPlaced
<1>5. /\ account' \in [Account -> AccountRow \cup {NULL}] /\ account'[a] = row
      /\ \A x \in Account \ {a} : account'[x] = account[x]
  BY <1>2, <1>3 DEF TypeOK
<1>6. a \notin Registered /\ Registered' = Registered \cup {a}
  <2>1. row # NULL
    BY FranchiseAssumption
  <2> QED
    BY <1>1, <1>5, <2>1 DEF Registered
<1>7. TypeOK'
  BY <1>1, <1>2, <1>4, <1>5 DEF TypeOK
<1>8. Grown
  BY <1>4, <1>5, <1>6 DEF Grown, Registered
<1>9. \A f \in Order : franchiseorder[f].accountid \in Registered
  BY <1>2 DEF TreeInv, Placed
<1>10. /\ OrdersOf(a)' = {g} /\ Pending(a)' = {g} /\ OrdersOf(a) = {}
       /\ \A x \in Account \ {a} : OrdersOf(x)' = OrdersOf(x) /\ Pending(x)' = Pending(x)
  BY <1>4, <1>6, <1>9 DEF OrdersOf, Pending
<1>11. Rooted'
  <2>1. u # HeadQuarter => u \in Registered /\ u # a /\ account[u].status = "ACTIVE" /\ Partitioned(u)
    BY <1>1, <1>6 DEF MayRegister, Registered
  <2>2. \A x \in Registered : account[x].upstream # a
    BY <1>2, <1>6, FranchiseAssumption DEF TreeInv, Rooted
  <2> QED
    BY <1>2, <1>3, <1>5, <1>6, <2>1, <2>2, RegisteredRows DEF TreeInv, Rooted, Partitioned, Registered
<1>12. Placed'
  BY <1>2, <1>4, <1>6, <1>9 DEF TreeInv, Placed
<1>13. OnePending'
  <2>1. Cardinality({g}) = 1
    BY FS_Singleton
  <2> QED
    BY <1>1, <1>2, <1>10, <2>1 DEF TreeInv, OnePending
<1>14. StatusByOrders'
  <2> SUFFICES ASSUME NEW x \in Registered', <<"status", x>> \notin byhand
               PROVE  /\ \A f \in OrdersOf(x)' : account'[x].status =
                           IF franchiseorder'[f].status = "pending" /\ franchiseorder'[f].originaltype = NULL
                           THEN "INIT" ELSE "ACTIVE"
                      /\ account'[x].status = "INIT" => Pending(x)' # {}
                      /\ account'[x].status # "CLOSED"
    BY <1>1 DEF StatusByOrders
  <2>1. CASE x = a
    BY <1>3, <1>4, <1>5, <1>10, <2>1
  <2>2. CASE x # a
    <3>1. x \in Registered /\ x \in Account \ {a} /\ account'[x] = account[x]
      BY <1>5, <1>6, <2>2 DEF Registered
    <3>2. \A f \in OrdersOf(x) : franchiseorder'[f] = franchiseorder[f]
      BY <1>4 DEF OrdersOf
    <3> QED
      BY <1>2, <1>10, <3>1, <3>2 DEF TreeInv, StatusByOrders
  <2> QED
    BY <2>1, <2>2
<1>15. PendingLast'
  <2>1. g <= g
    OBVIOUS
  <2> QED
    BY <1>1, <1>2, <1>10, <2>1 DEF TreeInv, PendingLast
<1>16. TypeAtFirst'
  <2>1. \A x \in Registered' : x # a => x \in Registered /\ x \in Account \ {a} /\ account'[x] = account[x]
    BY <1>5, <1>6 DEF Registered
  <2>2. \A x : \A f \in OrdersOf(x) : franchiseorder'[f] = franchiseorder[f]
    BY <1>4 DEF OrdersOf
  <2>3. \A x : Pending(x) \subseteq OrdersOf(x)
    BY DEF Pending, OrdersOf
  <2> SUFFICES ASSUME NEW x \in Registered', <<"type", x>> \notin byhand, <<"pending", x>> \notin raced,
                      \A f \in OrdersOf(x)' : <<"order", f>> \notin raced,
                      NEW f \in Pending(x)', franchiseorder'[f].originaltype = NULL
               PROVE  account'[x].type = franchiseorder'[f].targettype
    BY <1>1 DEF TypeAtFirst
  <2>4. CASE x = a
    BY <1>3, <1>4, <1>5, <1>10, <2>4
  <2>5. CASE x # a
    BY <1>2, <1>10, <2>1, <2>2, <2>3, <2>5 DEF TreeInv, TypeAtFirst
  <2> QED
    BY <2>4, <2>5
<1>17. TypeByOrders'
  <2> SUFFICES ASSUME NEW x \in Account, <<"type", x>> \notin byhand, <<"pending", x>> \notin raced,
                      \A f \in OrdersOf(x)' : <<"order", f>> \notin raced,
                      NEW m \in Paid(x)', \A f \in Paid(x)' : f <= m
               PROVE  account'[x].type = franchiseorder'[m].targettype
    BY <1>1 DEF TypeByOrders
  <2>1. x # a
    BY <1>4, <1>10 DEF Paid
  <2>2. OrdersOf(x)' = OrdersOf(x) /\ \A f \in OrdersOf(x) : franchiseorder'[f] = franchiseorder[f]
    BY <1>4, <1>10, <2>1 DEF OrdersOf
  <2>3. Paid(x)' = Paid(x) /\ m \in OrdersOf(x)
    BY <2>2 DEF Paid
  <2> QED
    BY <1>2, <1>5, <2>1, <2>2, <2>3 DEF TreeInv, TypeByOrders
<1>18. CallsRead'
  <2> SUFFICES ASSUME NEW s \in Session
               PROVE  /\ InFlight(s, "award") => AwardRead(session[s])'
                      /\ InFlight(s, "upgrade") => UpgradeRead(session[s])'
    BY <1>1 DEF CallsRead, InFlight
  <2>1. PICK c : c = session[s]
    OBVIOUS
  <2>2. ASSUME InFlight(s, "award") PROVE AwardRead(c)'
    BY <1>1, <1>4, <1>8, <2>1, <2>2, AwardReadStays DEF IInv, CallsRead
  <2>3. ASSUME InFlight(s, "upgrade") PROVE UpgradeRead(c)'
    <3>1. UpgradeRead(c)
      BY <2>1, <2>3 DEF IInv, CallsRead
    <3>2. c.account \in Registered /\ c.account # a /\ c.account \in Account \ {a}
      BY <1>6, <3>1 DEF UpgradeRead, Registered
    <3> QED
      BY <1>1, <1>5, <1>8, <1>10, <3>1, <3>2, UpgradeReadStays DEF UpgradeRead
  <2>4. session'[s] = c
    BY <1>1, <2>1
  <2> QED
    BY <1>1, <2>1, <2>2, <2>3
<1>19. EditorLoaded'
  BY <1>1, <1>6 DEF IInv, EditorLoaded
<1>20. RowsPlaced' /\ TripleInOrder' /\ AwardedOnce' /\ ExtendedBySide'
  BY <1>1, <1>4, <1>7, <1>8, BooksKept
<1> QED
  BY <1>7, <1>11, <1>12, <1>13, <1>14, <1>15, <1>16, <1>17, <1>18, <1>20, <1>19 DEF IInv, TreeInv

\* Rows of account may get a side, or by hand a type or a status.
AccountsChange ==
    /\ Grown /\ Registered' = Registered
    /\ UNCHANGED <<franchiseorder, triplecycle, extended, raced>> /\ byhand \subseteq byhand'
    /\ \A x \in Registered :
          /\ <<"status", x>> \in byhand' \/ account'[x].status = account[x].status
          /\ <<"type", x>> \in byhand' \/ account'[x].type = account[x].type
          /\ account[x].status # "INIT" => account'[x].status # "INIT"

LEMMA TreeOnAccounts ==
    ASSUME IInv, TypeOK', AccountsChange
    PROVE  TreeInv'
<1>1. /\ Grown /\ Registered' = Registered /\ byhand \subseteq byhand'
      /\ UNCHANGED <<franchiseorder, triplecycle, extended, raced>>
  BY DEF AccountsChange
<1>2. Order' = Order /\ \A x : OrdersOf(x)' = OrdersOf(x) /\ Pending(x)' = Pending(x) /\ Paid(x)' = Paid(x)
  BY <1>1 DEF Order, OrdersOf, Pending, Paid
<1>3. TypeOK /\ TreeInv
  BY DEF IInv, TreeInv
<1>4. Rooted'
  <2>1. ASSUME NEW x \in Registered, NEW u, u = account[x].upstream, u # HeadQuarter
        PROVE  /\ account'[x].upstream = u /\ u \in Registered /\ account'[u].status # "INIT"
               /\ account'[u].partition # NULL \/ account'[u].upstream = HeadQuarter
    <3>1. account'[x].upstream = u
      BY <1>1, <2>1 DEF Grown
    <3>2. u \in Registered /\ account[u].status # "INIT" /\ Partitioned(u)
      BY <1>3, <2>1 DEF TreeInv, Rooted
    <3>3. account'[u].status # "INIT" /\ account'[u].upstream = account[u].upstream
      BY <3>2 DEF AccountsChange, Grown
    <3>4. account[u].partition # NULL => account'[u].partition # NULL
      BY <1>1, <3>2 DEF Grown
    <3> QED
      BY <3>1, <3>2, <3>3, <3>4 DEF Partitioned
  <2>2. \A x \in Registered : account'[x].upstream = account[x].upstream
    BY <1>1 DEF Grown
  <2>3. ASSUME NEW x \in Registered', account'[x].upstream # HeadQuarter
        PROVE  LET u == account'[x].upstream IN
               /\ u \in Registered' /\ account'[u].status # "INIT"
               /\ account'[u].partition # NULL \/ account'[u].upstream = HeadQuarter
    <3>1. x \in Registered
      BY <1>1, <2>3
    <3>2. PICK u : u = account[x].upstream
      OBVIOUS
    <3>3. u # HeadQuarter /\ account'[x].upstream = u
      BY <2>2, <2>3, <3>1, <3>2
    <3>4. /\ u \in Registered /\ account'[u].status # "INIT"
          /\ account'[u].partition # NULL \/ account'[u].upstream = HeadQuarter
      BY <2>1, <3>1, <3>2, <3>3
    <3> QED
      BY <1>1, <3>3, <3>4
  <2> QED
    BY <2>3 DEF Rooted, Partitioned
<1>5. Placed' /\ OnePending' /\ PendingLast'
  BY <1>1, <1>2, <1>3 DEF TreeInv, Placed, OnePending, PendingLast
<1>6. StatusByOrders'
  BY <1>1, <1>2, <1>3 DEF TreeInv, StatusByOrders, AccountsChange
<1>7. TypeAtFirst'
  BY <1>1, <1>2, <1>3 DEF TreeInv, TypeAtFirst, AccountsChange
<1>8. TypeByOrders'
  <2>1. \A x \in Account : \A f \in OrdersOf(x) : x \in Registered
    BY <1>3 DEF TreeInv, Placed, OrdersOf
  <2>2. \A x : Paid(x) \subseteq OrdersOf(x)
    BY DEF Paid
  <2> QED
    BY <1>1, <1>2, <1>3, <2>1, <2>2 DEF TreeInv, TypeByOrders, AccountsChange
<1> QED
  BY <1>4, <1>5, <1>6, <1>7, <1>8 DEF TreeInv

LEMMA BooksOnAccounts ==
    ASSUME IInv, TypeOK', AccountsChange
    PROVE  /\ RowsPlaced' /\ TripleInOrder' /\ AwardedOnce' /\ ExtendedBySide'
           /\ \A c : (AwardRead(c) => AwardRead(c)') /\ (UpgradeRead(c) => UpgradeRead(c)')
<1>1. Grown /\ UNCHANGED <<franchiseorder, triplecycle, extended, raced>> /\ byhand \subseteq byhand'
  BY DEF AccountsChange
<1>2. Unapproved /\ \A x : Pending(x)' = Pending(x)
  BY <1>1 DEF Unapproved, Order, Pending
<1>3. RowsPlaced' /\ TripleInOrder' /\ AwardedOnce' /\ ExtendedBySide'
  BY <1>1, <1>2, BooksKept
<1>4. ASSUME NEW c, AwardRead(c) PROVE AwardRead(c)'
  BY <1>1, <1>2, <1>4, AwardReadStays
<1>5. ASSUME NEW c, UpgradeRead(c) PROVE UpgradeRead(c)'
  <2>1. c.account \in Registered /\ ("pending" \notin c.stale => Pending(c.account) = {})
    BY <1>5 DEF UpgradeRead
  <2>2. "pending" \notin c.stale => Pending(c.account)' = {}
    BY <1>2, <2>1
  <2>3. <<"status", c.account>> \in byhand' \/ account'[c.account].status = account[c.account].status
    BY <2>1 DEF AccountsChange
  <2> QED
    BY <1>1, <1>5, <2>2, <2>3, UpgradeReadStays
<1> QED
  BY <1>3, <1>4, <1>5

\* Steps that change nothing but what somebody has read or loaded.
LEMMA OnlyRead ==
    ASSUME IInv, UNCHANGED <<account, franchiseorder, triplecycle, extended, byhand, raced>>
    PROVE  AccountsChange
<1>1. TypeOK
  BY DEF IInv, TreeInv
<1> QED
  BY <1>1 DEF AccountsChange, Grown, Registered, TypeOK, Order

LEMMA UpdateAgentPartitionIInv ==
    ASSUME IInv, NEW a \in Account, NEW partition \in Accountpartition, UpdateAgentPartition(a, partition)
    PROVE  IInv'
<1>1. /\ account[a] # NULL /\ account[a].partition = NULL
      /\ account' = [account EXCEPT ![a].partition = partition]
      /\ UNCHANGED <<franchiseorder, triplecycle, awarded, extended, session, editor, edits, byhand, raced>>
  BY DEF UpdateAgentPartition
<1>2. TypeOK /\ a \in Registered /\ account[a] \in AccountRow
  BY <1>1 DEF IInv, TreeInv, TypeOK, Registered
<1>3. PICK row : row = [account[a] EXCEPT !.partition = partition]
  OBVIOUS
<1>4. /\ row \in AccountRow /\ row.type = account[a].type /\ row.status = account[a].status
      /\ row.upstream = account[a].upstream
  BY <1>2, <1>3 DEF AccountRow
<1>5. /\ account' \in [Account -> AccountRow \cup {NULL}] /\ account'[a] = row
      /\ \A x \in Account \ {a} : account'[x] = account[x]
  BY <1>1, <1>2, <1>3, <1>4 DEF TypeOK
<1>6. TypeOK'
  BY <1>1, <1>2, <1>5 DEF TypeOK
<1>7. Registered' = Registered
  <2>1. row # NULL
    BY <1>4, FranchiseAssumption
  <2> QED
    BY <1>2, <1>5, <2>1 DEF Registered
<1>8. AccountsChange
  <2>1. Order' = Order
    BY <1>1 DEF Order
  <2>2. \A x \in Registered : x \in Account
    BY DEF Registered
  <2> QED
    BY <1>1, <1>4, <1>5, <1>7, <2>1, <2>2 DEF AccountsChange, Grown
<1>9. CallsRead' /\ EditorLoaded'
  BY <1>1, <1>6, <1>7, <1>8, BooksOnAccounts DEF IInv, CallsRead, InFlight, EditorLoaded
<1> QED
  BY <1>6, <1>8, <1>9, TreeOnAccounts, BooksOnAccounts DEF IInv

LEMMA OpenEditorIInv ==
    ASSUME IInv, NEW a \in Account, OpenEditor(a)
    PROVE  IInv'
<1>1. /\ account[a] # NULL /\ edits < MaxEdits /\ editor' = [accountid |-> a, row |-> account[a]]
      /\ UNCHANGED <<account, franchiseorder, triplecycle, awarded, extended, session, edits, byhand, raced>>
  BY DEF OpenEditor
<1>2. TypeOK /\ account[a] \in AccountRow
  BY <1>1 DEF IInv, TreeInv, TypeOK
<1>3. TypeOK'
  BY <1>1, <1>2 DEF TypeOK
<1>4. AccountsChange
  BY <1>1, OnlyRead
<1>5. CallsRead' /\ EditorLoaded'
  <2>1. editor'.accountid = a
    BY <1>1
  <2>2. a \in Registered'
    BY <1>1 DEF Registered
  <2>3. EditorLoaded'
    BY <1>1, <2>1, <2>2 DEF EditorLoaded
  <2>4. CallsRead'
    BY <1>1, <1>3, <1>4, BooksOnAccounts DEF IInv, CallsRead, InFlight
  <2> QED
    BY <2>3, <2>4
<1> QED
  BY <1>3, <1>4, <1>5, TreeOnAccounts, BooksOnAccounts DEF IInv

LEMMA UpdateAgentByHQIInv ==
    ASSUME IInv, editor # NULL, NEW type \in Offered \cup {editor.row.type},
           NEW status \in {"ACTIVE", "CLOSED", editor.row.status}, UpdateAgentByHQ(type, status)
    PROVE  IInv'
<1>1. TypeOK /\ editor \in [accountid : Account, row : AccountRow]
  BY DEF IInv, TreeInv, TypeOK
<1>2. PICK a \in Account : a = editor.accountid
  BY <1>1
<1>3. type \in AgentType /\ status \in Accountstatus
  BY <1>1, FranchiseAssumption DEF AccountRow, Accountstatus
<1>4. /\ status = "INIT" => account[a].status = "INIT"
      /\ account' = [account EXCEPT ![a].type = type, ![a].status = status]
      /\ byhand' = byhand \cup (IF type # account[a].type THEN {<<"type", a>>} ELSE {})
                          \cup (IF status # account[a].status THEN {<<"status", a>>} ELSE {})
      /\ editor' = NULL /\ edits' = edits + 1
      /\ UNCHANGED <<franchiseorder, triplecycle, awarded, extended, session, raced>>
  BY <1>2 DEF UpdateAgentByHQ
<1>5. a \in Registered /\ account[a] \in AccountRow
  BY <1>1, <1>2, RegisteredRows DEF IInv, EditorLoaded
<1>6. PICK row : row = [account[a] EXCEPT !.type = type, !.status = status]
  OBVIOUS
<1>7. /\ row \in AccountRow /\ row.type = type /\ row.status = status
      /\ row.upstream = account[a].upstream /\ row.partition = account[a].partition
  BY <1>3, <1>5, <1>6 DEF AccountRow
<1>8. /\ account' \in [Account -> AccountRow \cup {NULL}] /\ account'[a] = row
      /\ \A x \in Account \ {a} : account'[x] = account[x]
  <2>1. account' = [account EXCEPT ![a] = row]
    BY <1>4, <1>6
  <2> QED
    BY <1>1, <1>7, <2>1 DEF TypeOK
<1>9. TypeOK'
  <2>1. byhand' \subseteq {"type", "status"} \X Account
    BY <1>1, <1>4 DEF TypeOK
  <2>2. edits' \in 0 .. MaxEdits
    BY <1>1, <1>4, FranchiseAssumption DEF IInv, EditorLoaded, TypeOK
  <2> QED
    BY <1>1, <1>4, <1>8, <2>1, <2>2 DEF TypeOK
<1>10. Registered' = Registered
  <2>1. row # NULL
    BY <1>7, FranchiseAssumption
  <2> QED
    BY <1>5, <1>8, <2>1 DEF Registered
<1>11. AccountsChange
  <2>1. Order' = Order
    BY <1>4 DEF Order
  <2>2. \A x \in Registered : x \in Account
    BY DEF Registered
  <2>3. Grown
    BY <1>4, <1>7, <1>8, <1>10, <2>1, <2>2 DEF Grown
  <2>4. ASSUME NEW x \in Registered
        PROVE  /\ <<"status", x>> \in byhand' \/ account'[x].status = account[x].status
               /\ <<"type", x>> \in byhand' \/ account'[x].type = account[x].type
               /\ account[x].status # "INIT" => account'[x].status # "INIT"
    BY <1>4, <1>7, <1>8, <2>2
  <2> QED
    BY <1>4, <1>10, <2>3, <2>4 DEF AccountsChange
<1>12. CallsRead' /\ EditorLoaded'
  BY <1>4, <1>9, <1>11, BooksOnAccounts DEF IInv, CallsRead, InFlight, EditorLoaded
<1> QED
  BY <1>9, <1>11, <1>12, TreeOnAccounts, BooksOnAccounts DEF IInv

LEMMA UpdateAgentTargettypeIInv ==
    ASSUME IInv, NEW s \in Session, NEW a \in Account, NEW target \in Offered,
           UpdateAgentTargettype(s, a, target)
    PROVE  IInv'
<1>1. /\ session[s] = NULL /\ account[a] # NULL /\ Pending(a) = {}
      /\ UNCHANGED <<account, franchiseorder, triplecycle, awarded, extended, editor, edits, byhand, raced>>
  BY DEF UpdateAgentTargettype, MayUpgrade
<1>2. TypeOK /\ TreeInv /\ target \in AgentType
  BY FranchiseAssumption DEF IInv, TreeInv
<1>3. PICK c : /\ c \in Call /\ session' = [session EXCEPT ![s] = c]
               /\ c.kind = "upgrade" /\ c.account = a /\ c.target = target /\ c.stale = {}
  <2> DEFINE c == [kind |-> "upgrade", account |-> a, target |-> target, stale |-> {}]
  <2>1. c \in Call
    BY <1>2 DEF Call
  <2>2. session' = [session EXCEPT ![s] = c]
    BY DEF UpdateAgentTargettype
  <2>3. c.kind = "upgrade" /\ c.account = a /\ c.target = target /\ c.stale = {}
    OBVIOUS
  <2> HIDE DEF c
  <2> QED
    BY <2>1, <2>2, <2>3
<1>4. /\ session' \in [Session -> Call \cup {NULL}] /\ session'[s] = c
      /\ \A t \in Session \ {s} : session'[t] = session[t]
  BY <1>2, <1>3 DEF TypeOK
<1>5. TypeOK'
  BY <1>1, <1>2, <1>4 DEF TypeOK
<1>6. AccountsChange
  BY <1>1, OnlyRead
<1>7. UpgradeRead(c)
  <2>1. a \in Registered
    BY <1>1 DEF Registered
  <2>2. <<"status", a>> \notin byhand => account[a].status \notin {"INIT", "CLOSED"}
    BY <1>1, <1>2, <2>1 DEF TreeInv, StatusByOrders
  <2>3. account[a].status \in {"INIT", "ACTIVE", "CLOSED"}
    BY <1>2, <2>1, RegisteredRows DEF Accountstatus
  <2> QED
    BY <1>1, <1>3, <2>1, <2>2, <2>3 DEF UpgradeRead
<1>8. \A d : (AwardRead(d) => AwardRead(d)') /\ (UpgradeRead(d) => UpgradeRead(d)')
  BY <1>5, <1>6, BooksOnAccounts
<1>9. CallsRead'
  <2> SUFFICES ASSUME NEW t \in Session
               PROVE  /\ InFlight(t, "award")' => AwardRead(session[t])'
                      /\ InFlight(t, "upgrade")' => UpgradeRead(session[t])'
    BY DEF CallsRead
  <2>1. PICK d : d = session[t]
    OBVIOUS
  <2>2. CASE t = s
    <3>1. session'[t] = c
      BY <1>4, <2>2
    <3>2. UpgradeRead(c)' /\ ~ InFlight(t, "award")'
      BY <1>3, <1>7, <1>8, <3>1 DEF InFlight
    <3> QED
      BY <3>1, <3>2 DEF UpgradeRead
  <2>3. CASE t # s
    <3>1. session'[t] = d
      BY <1>4, <2>1, <2>3
    <3> QED
      BY <1>8, <2>1, <3>1 DEF IInv, CallsRead, InFlight, AwardRead, UpgradeRead
  <2> QED
    BY <2>2, <2>3
<1>10. EditorLoaded'
  BY <1>1 DEF IInv, EditorLoaded, Registered
<1> QED
  BY <1>5, <1>6, <1>9, <1>10, TreeOnAccounts, BooksOnAccounts DEF IInv


LEMMA InsertUpgradeIInv ==
    ASSUME IInv, NEW s \in Session, InsertUpgrade(s)
    PROVE  IInv'
<1>1. TypeOK /\ TreeInv /\ CallsRead
  BY DEF IInv, TreeInv
<1>2. PICK c : c = session[s]
  OBVIOUS
<1>3. PICK a : a = c.account
  OBVIOUS
<1>4. /\ InFlight(s, "upgrade") /\ PlaceOrder(a, account[a].type, c.target)
      /\ session' = [t \in Session |->
            IF t = s THEN NULL
            ELSE IF InFlight(t, "upgrade") /\ session[t].account = a
                 THEN [session[t] EXCEPT !.stale = @ \cup {"pending"}]
            ELSE session[t]]
      /\ raced' = raced \cup {<<x, a>> : x \in c.stale}
      /\ UNCHANGED <<account, triplecycle, awarded, extended, editor, edits, byhand>>
  BY <1>2, <1>3 DEF InsertUpgrade, End
<1>5. /\ c \in [kind : {"upgrade"}, account : Account, target : AgentType, stale : SUBSET {"pending"}]
      /\ c.target \in AgentType /\ c.stale \in SUBSET {"pending"} /\ UpgradeRead(c)
  <2>1. c \in Call /\ c.kind = "upgrade"
    BY <1>1, <1>2, <1>4 DEF TypeOK, InFlight
  <2>2. UpgradeRead(c)
    BY <1>1, <1>2, <1>4 DEF CallsRead
  <2> QED
    BY <2>1, <2>2 DEF Call
<1>6. /\ a \in Registered /\ a \in Account /\ ("pending" \notin c.stale => Pending(a) = {})
      /\ <<"status", a>> \notin byhand => account[a].status = "ACTIVE"
  BY <1>3, <1>5 DEF UpgradeRead, Registered
<1>7. account[a].type \in AgentType
  BY <1>1, <1>6, RegisteredRows
<1>8. PICK g \in 1 .. MaxOrders :
        /\ g \notin Order /\ Order' = Order \cup {g} /\ g > Len(franchiseorder)
        /\ franchiseorder' \in Seq(OrderRow) /\ Len(franchiseorder') <= MaxOrders
        /\ \A f \in Order : franchiseorder'[f] = franchiseorder[f] /\ f < g
        /\ franchiseorder'[g].accountid = a /\ franchiseorder'[g].originaltype = account[a].type
        /\ franchiseorder'[g].targettype = c.target /\ franchiseorder'[g].status = "pending"
        /\ Unapproved
  BY <1>1, <1>4, <1>5, <1>6, <1>7, OrderPlaced
<1>9. franchiseorder'[g].originaltype # NULL
  BY <1>7, <1>8, FranchiseAssumption
<1>10. /\ raced \subseteq raced' /\ \A x : <<"order", x>> \in raced' => <<"order", x>> \in raced
       /\ \A x : <<"number", x>> \in raced' => <<"number", x>> \in raced
       /\ <<"pending", a>> \notin raced' => <<"pending", a>> \notin raced /\ Pending(a) = {}
       /\ \A x : <<"pending", x>> \notin raced' => <<"pending", x>> \notin raced
  BY <1>4, <1>5, <1>6
<1>11. /\ OrdersOf(a)' = OrdersOf(a) \cup {g} /\ Pending(a)' = Pending(a) \cup {g}
       /\ \A x : x # a => OrdersOf(x)' = OrdersOf(x) /\ Pending(x)' = Pending(x)
       /\ \A x : Paid(x)' = Paid(x)
  BY <1>8 DEF OrdersOf, Pending, Paid
<1>12. \A t \in Session :
         session'[t] = IF t = s THEN NULL
                       ELSE IF InFlight(t, "upgrade") /\ session[t].account = a
                            THEN [session[t] EXCEPT !.stale = @ \cup {"pending"}]
                       ELSE session[t]
  BY <1>4
<1>13. ASSUME NEW t \in Session, t # s, InFlight(t, "upgrade"), session[t].account = a
       PROVE  /\ session'[t] \in Call /\ session'[t].kind = "upgrade" /\ session'[t].account = a
              /\ "pending" \in session'[t].stale
  <2>1. PICK d : d = session[t]
    OBVIOUS
  <2>2. d \in [kind : {"upgrade"}, account : Account, target : AgentType, stale : SUBSET {"pending"}]
    BY <1>1, <1>13, <2>1 DEF TypeOK, InFlight, Call
  <2>3. session'[t] = [d EXCEPT !.stale = d.stale \cup {"pending"}]
    BY <1>12, <1>13, <2>1
  <2>4. /\ [d EXCEPT !.stale = d.stale \cup {"pending"}]
             \in [kind : {"upgrade"}, account : Account, target : AgentType, stale : SUBSET {"pending"}]
        /\ [d EXCEPT !.stale = d.stale \cup {"pending"}].account = d.account
        /\ [d EXCEPT !.stale = d.stale \cup {"pending"}].stale = d.stale \cup {"pending"}
    BY <2>2
  <2> QED
    BY <1>13, <2>1, <2>3, <2>4 DEF Call
<1>14. TypeOK'
  <2>1. session' \in [Session -> Call \cup {NULL}]
    <3>1. \A t \in Session : session'[t] \in Call \cup {NULL}
      BY <1>1, <1>12, <1>13 DEF TypeOK
    <3> QED
      BY <1>4, <3>1
  <2>2. raced' \subseteq {"order", "number", "pending"} \X (1..MaxOrders \cup Account \cup {HeadQuarter})
    BY <1>1, <1>4, <1>5, <1>6 DEF TypeOK
  <2> QED
    BY <1>1, <1>4, <1>8, <2>1, <2>2 DEF TypeOK
<1>15. Grown
  BY <1>1, <1>4, <1>8 DEF Grown, Registered, TypeOK
<1>16. Registered' = Registered
  BY <1>4 DEF Registered
<1>17. Rooted'
  BY <1>1, <1>4, <1>16 DEF TreeInv, Rooted, Partitioned
<1>18. Placed'
  BY <1>1, <1>6, <1>8, <1>9, <1>16 DEF TreeInv, Placed
<1>19. OnePending'
  <2> SUFFICES ASSUME NEW x \in Account, <<"pending", x>> \notin raced'
               PROVE  Cardinality(Pending(x)') <= 1
    BY DEF OnePending
  <2>1. CASE x = a
    <3>1. Pending(x)' = {g}
      BY <1>10, <1>11, <2>1
    <3>2. Cardinality({g}) = 1
      BY FS_Singleton
    <3> QED
      BY <3>1, <3>2
  <2>2. CASE x # a
    BY <1>1, <1>10, <1>11, <2>2 DEF TreeInv, OnePending
  <2> QED
    BY <2>1, <2>2
<1>20. StatusByOrders'
  <2> SUFFICES ASSUME NEW x \in Registered, <<"status", x>> \notin byhand
               PROVE  /\ \A f \in OrdersOf(x)' : account[x].status =
                           IF franchiseorder'[f].status = "pending" /\ franchiseorder'[f].originaltype = NULL
                           THEN "INIT" ELSE "ACTIVE"
                      /\ account[x].status = "INIT" => Pending(x)' # {}
                      /\ account[x].status # "CLOSED"
    BY <1>4, <1>16 DEF StatusByOrders
  <2>1. /\ \A f \in OrdersOf(x) : account[x].status =
             IF franchiseorder[f].status = "pending" /\ franchiseorder[f].originaltype = NULL
             THEN "INIT" ELSE "ACTIVE"
        /\ account[x].status = "INIT" => Pending(x) # {}
        /\ account[x].status # "CLOSED"
    BY <1>1 DEF TreeInv, StatusByOrders
  <2>2. \A f \in OrdersOf(x) : franchiseorder'[f] = franchiseorder[f]
    BY <1>8 DEF OrdersOf
  <2>3. CASE x = a
    BY <1>6, <1>9, <1>11, <2>1, <2>2, <2>3
  <2>4. CASE x # a
    BY <1>11, <2>1, <2>2, <2>4
  <2> QED
    BY <2>3, <2>4
<1>21. PendingLast'
  <2> SUFFICES ASSUME NEW x \in Account, <<"pending", x>> \notin raced',
                      NEW f \in Pending(x)', NEW h \in OrdersOf(x)'
               PROVE  h <= f
    BY DEF PendingLast
  <2>1. CASE x = a
    <3>1. f = g
      BY <1>10, <1>11, <2>1
    <3>2. h \in Order \/ h = g
      BY <1>8, <1>11, <2>1 DEF OrdersOf
    <3>3. h \in Order => h \in Nat
      BY <1>1, OrderRows
    <3> QED
      BY <1>8, <3>1, <3>2, <3>3
  <2>2. CASE x # a
    BY <1>1, <1>10, <1>11, <2>2 DEF TreeInv, PendingLast
  <2> QED
    BY <2>1, <2>2
<1>22. TypeAtFirst'
  <2> SUFFICES ASSUME NEW x \in Registered, <<"type", x>> \notin byhand, <<"pending", x>> \notin raced',
                      \A f \in OrdersOf(x)' : <<"order", f>> \notin raced',
                      NEW f \in Pending(x)', franchiseorder'[f].originaltype = NULL
               PROVE  account[x].type = franchiseorder'[f].targettype
    BY <1>4, <1>16 DEF TypeAtFirst
  <2>1. f \in Pending(x) /\ \A h \in OrdersOf(x) : h \in OrdersOf(x)'
    BY <1>9, <1>11
  <2>2. franchiseorder'[f] = franchiseorder[f]
    BY <1>8, <2>1 DEF Pending
  <2>3. \A h \in OrdersOf(x) : <<"order", h>> \notin raced
    BY <1>10, <2>1
  <2> QED
    BY <1>1, <1>10, <2>1, <2>2, <2>3 DEF TreeInv, TypeAtFirst
<1>23. TypeByOrders'
  <2> SUFFICES ASSUME NEW x \in Account, <<"type", x>> \notin byhand, <<"pending", x>> \notin raced',
                      \A f \in OrdersOf(x)' : <<"order", f>> \notin raced',
                      NEW m \in Paid(x), \A f \in Paid(x) : f <= m
               PROVE  account[x].type = franchiseorder'[m].targettype
    BY <1>4, <1>11 DEF TypeByOrders
  <2>1. \A h \in OrdersOf(x) : h \in OrdersOf(x)'
    BY <1>11
  <2>2. franchiseorder'[m] = franchiseorder[m]
    BY <1>8 DEF Paid, OrdersOf
  <2>3. \A h \in OrdersOf(x) : <<"order", h>> \notin raced
    BY <1>10, <2>1
  <2> QED
    BY <1>1, <1>10, <2>2, <2>3 DEF TreeInv, TypeByOrders
<1>24. CallsRead'
  <2> SUFFICES ASSUME NEW t \in Session
               PROVE  /\ InFlight(t, "award")' => AwardRead(session[t])'
                      /\ InFlight(t, "upgrade")' => UpgradeRead(session[t])'
    BY DEF CallsRead
  <2>1. PICK d : d = session'[t]
    OBVIOUS
  <2>2. ASSUME InFlight(t, "award")' PROVE AwardRead(d)'
    <3>1. t # s /\ d # NULL /\ d.kind = "award"
      BY <1>12, <2>1, <2>2 DEF InFlight
    <3>2. session[t] = d
      BY <1>12, <1>13, <2>1, <3>1
    <3>3. AwardRead(d)
      BY <1>1, <3>1, <3>2 DEF CallsRead, InFlight
    <3> QED
      BY <1>4, <1>8, <1>15, <3>3, AwardReadStays
  <2>3. ASSUME InFlight(t, "upgrade")' PROVE UpgradeRead(d)'
    <3>1. t # s /\ d # NULL /\ d.kind = "upgrade"
      BY <1>12, <2>1, <2>3 DEF InFlight
    <3>2. CASE InFlight(t, "upgrade") /\ session[t].account = a
      <4>1. d.account = a /\ "pending" \in d.stale
        BY <1>13, <2>1, <3>1, <3>2
      <4> QED
        BY <1>4, <1>6, <1>16, <4>1 DEF UpgradeRead
    <3>3. CASE ~ (InFlight(t, "upgrade") /\ session[t].account = a)
      <4>1. session[t] = d
        BY <1>12, <2>1, <3>1, <3>3
      <4>2. UpgradeRead(d) /\ d.account # a
        BY <1>1, <3>1, <3>3, <4>1 DEF CallsRead, InFlight
      <4>3. Pending(d.account)' = Pending(d.account)
        BY <1>11, <4>2
      <4> QED
        BY <1>4, <1>15, <4>2, <4>3, UpgradeReadStays DEF UpgradeRead
    <3> QED
      BY <3>2, <3>3
  <2> QED
    BY <2>1, <2>2, <2>3 DEF AwardRead, UpgradeRead
<1>25. EditorLoaded'
  BY <1>4, <1>16 DEF IInv, EditorLoaded
<1>26. RowsPlaced' /\ TripleInOrder' /\ AwardedOnce' /\ ExtendedBySide'
  BY <1>4, <1>8, <1>10, <1>14, <1>15, BooksKept
<1> QED
  BY <1>14, <1>17, <1>18, <1>19, <1>20, <1>21, <1>22, <1>23, <1>24, <1>25, <1>26 DEF IInv, TreeInv

------------------------------------------------------------------------------
(* The last number of a triple cycle.                                      *)

LEMMA MaxOfBounded ==
    ASSUME NEW S \in SUBSET Nat, S # {}, NEW bound \in Nat, \A x \in S : x <= bound
    PROVE  Max(S) \in S /\ \A x \in S : x <= Max(S)
<1> DEFINE above == {k \in Nat : \A x \in S : x <= k}
<1>1. above \in SUBSET Nat /\ above # {}
  OBVIOUS
<1>2. PICK k \in above : \A j \in above : k <= j
  <2> HIDE DEF above
  <2> QED
    BY <1>1, LeastOf
<1>3. k \in S
  <2>1. SUFFICES ASSUME k \notin S PROVE FALSE
    OBVIOUS
  <2>2. PICK x \in S : TRUE
    OBVIOUS
  <2>3. k \in Nat /\ x \in Nat /\ x <= k /\ x # k
    BY <1>2, <2>1, <2>2
  <2>4. k - 1 \in Nat
    BY <2>3
  <2>5. \A y \in S : y <= k - 1
    BY <1>2, <2>1
  <2>6. k - 1 \in above
    BY <2>4, <2>5
  <2>7. k <= k - 1
    <3> HIDE DEF above
    <3> QED
      BY <1>2, <2>6
  <2> QED
    BY <2>3, <2>7
<1>4. \A y \in S : k >= y
  BY <1>2
<1>5. \E x \in S : \A y \in S : x >= y
  BY <1>3, <1>4
<1>6. Max(S) \in S /\ \A y \in S : Max(S) >= y
  BY <1>5 DEF Max
<1> QED
  BY <1>6

LEMMA NumbersBounded ==
    ASSUME NEW M \in Nat, NEW g, \A i \in 1 .. M : g[i] \in Nat
    PROVE  \E bound \in Nat : \A i \in 1 .. M : g[i] <= bound
<1> DEFINE T == {m \in 1 .. M : \E bound \in Nat : \A i \in 1 .. m : g[i] <= bound}
<1>1. CASE M = 0
  BY <1>1
<1>2. CASE M # 0
  <2>1. 1 \in T
    <3>1. 1 \in 1 .. M /\ g[1] \in Nat
      BY <1>2
    <3>2. \A i \in 1 .. 1 : g[i] <= g[1]
      BY <3>1
    <3> QED
      BY <3>1, <3>2
  <2>2. ASSUME NEW m \in 1 .. M - 1, m \in T PROVE m + 1 \in T
    <3>1. PICK bound \in Nat : \A i \in 1 .. m : g[i] <= bound
      BY <2>2
    <3>2. m + 1 \in 1 .. M /\ g[m + 1] \in Nat
      OBVIOUS
    <3>3. bound + g[m + 1] \in Nat /\ \A i \in 1 .. m + 1 : g[i] <= bound + g[m + 1]
      BY <3>1, <3>2
    <3> QED
      BY <3>2, <3>3
  <2>3. 1 .. M \subseteq T
    <3> HIDE DEF T
    <3> QED
      BY <2>1, <2>2, RowInduction
  <2>4. M \in T
    <3> HIDE DEF T
    <3> QED
      BY <1>2, <2>3
  <2> QED
    BY <2>4
<1> QED
  BY <1>1, <1>2

\* The last number is one of the account's rows, and no row has a greater one.
LEMMA LastNumberIs ==
    ASSUME TypeOK, NEW a \in Account
    PROVE  /\ LastNumber(a) \in Nat
           /\ \A i \in DOMAIN triplecycle[a] : triplecycle[a][i].number <= LastNumber(a)
           /\ \/ LastNumber(a) = 0
              \/ \E i \in DOMAIN triplecycle[a] : triplecycle[a][i].number = LastNumber(a)
<1> DEFINE M == Len(triplecycle[a])
           g == [i \in 1 .. M |-> triplecycle[a][i].number]
           S == {0} \cup {triplecycle[a][i].number : i \in DOMAIN triplecycle[a]}
<1>1. M \in Nat /\ DOMAIN triplecycle[a] = 1 .. M /\ \A i \in 1 .. M : triplecycle[a][i].number \in Nat
  BY CycleRows
<1>2. \A i \in 1 .. M : g[i] \in Nat /\ g[i] = triplecycle[a][i].number
  BY <1>1
<1>3. PICK bound \in Nat : \A i \in 1 .. M : g[i] <= bound
  <2> HIDE DEF g, M
  <2> QED
    BY <1>1, <1>2, NumbersBounded
<1>4. S \in SUBSET Nat /\ S # {} /\ \A x \in S : x <= bound
  <2>1. \A i \in 1 .. M : triplecycle[a][i].number <= bound
    BY <1>2, <1>3
  <2> HIDE DEF g, M
  <2> QED
    BY <1>1, <2>1
<1>5. Max(S) \in S /\ \A x \in S : x <= Max(S)
  <2> HIDE DEF S
  <2> QED
    BY <1>4, MaxOfBounded
<1>6. LastNumber(a) = Max(S)
  BY DEF LastNumber
<1> QED
  BY <1>4, <1>5, <1>6

LEMMA LastNumberNat ==
    ASSUME TypeOK, NEW a
    PROVE  LastNumber(a) \in Nat
BY LastNumberIs DEF LastNumber

\* A triple cycle in order has as many rows as its last number.
LEMMA LastIsLength ==
    ASSUME TypeOK, NEW a \in Account, \A i \in DOMAIN triplecycle[a] : triplecycle[a][i].number = i
    PROVE  LastNumber(a) = Len(triplecycle[a])
<1>1. Len(triplecycle[a]) \in Nat /\ DOMAIN triplecycle[a] = 1 .. Len(triplecycle[a])
  BY CycleRows
<1>2. CASE Len(triplecycle[a]) = 0
  BY <1>1, <1>2, LastNumberIs
<1>3. CASE Len(triplecycle[a]) # 0
  <2>1. Len(triplecycle[a]) \in DOMAIN triplecycle[a]
    BY <1>1, <1>3
  <2>2. Len(triplecycle[a]) <= LastNumber(a) /\ LastNumber(a) \in Nat
    BY <2>1, LastNumberIs
  <2>3. LastNumber(a) = 0 \/ LastNumber(a) \in 1 .. Len(triplecycle[a])
    BY <1>1, LastNumberIs
  <2> QED
    BY <1>1, <1>3, <2>2, <2>3
<1> QED
  BY <1>2, <1>3

LEMMA AssignAgentAwardIInv ==
    ASSUME IInv, NEW s \in Session, NEW f \in Order, AssignAgentAward(s, f)
    PROVE  IInv'
<1>1. /\ session[s] = NULL /\ MayAssign(f)
      /\ UNCHANGED <<account, franchiseorder, triplecycle, awarded, extended, editor, edits, byhand, raced>>
  BY DEF AssignAgentAward
<1>2. TypeOK /\ TreeInv /\ f \in 1 .. MaxOrders
  BY OrderRows DEF IInv, TreeInv
<1>3. PICK types : types = [a \in Account |-> IF account[a] = NULL THEN NULL ELSE account[a].type]
  OBVIOUS
<1>4. types \in [Account -> AgentType \cup {NULL}] /\ \A a \in Registered : types[a] \in AgentType
  BY <1>2, <1>3, RegisteredRows DEF Registered
<1>5. PICK number : number = LastNumber(Upstream(f))
  OBVIOUS
<1>6. number \in Nat
  BY <1>2, <1>5, LastNumberNat
<1>7. PICK c : /\ c \in Call /\ session' = [session EXCEPT ![s] = c] /\ c.kind = "award"
               /\ c.order = f /\ c.types = types /\ c.number = number /\ c.stale = {}
  <2> DEFINE c == [kind |-> "award", order |-> f, number |-> number, stale |-> {}, types |-> types]
  <2>1. c \in Call
    BY <1>2, <1>4, <1>6 DEF Call
  <2>2. session' = [session EXCEPT ![s] = c]
    BY <1>3, <1>5 DEF AssignAgentAward
  <2>3. c.kind = "award" /\ c.order = f /\ c.types = types /\ c.number = number /\ c.stale = {}
    OBVIOUS
  <2> HIDE DEF c
  <2> QED
    BY <2>1, <2>2, <2>3
<1>8. /\ session' \in [Session -> Call \cup {NULL}] /\ session'[s] = c
      /\ \A t \in Session \ {s} : session'[t] = session[t]
  BY <1>2, <1>7 DEF TypeOK
<1>9. TypeOK'
  BY <1>1, <1>2, <1>8 DEF TypeOK
<1>10. AccountsChange
  BY <1>1, OnlyRead
<1>11. AwardRead(c)
  <2>1. franchiseorder[f].accountid \in Registered /\ franchiseorder[f].status = "pending"
    BY <1>1, <1>2 DEF TreeInv, Placed, MayAssign
  <2>2. PICK chain : chain = Chain(franchiseorder[f].accountid)
    OBVIOUS
  <2>3. ASSUME NEW n \in 2 .. Height, chain[n] \in Account PROVE types[chain[n]] \in AgentType
    <3>1. chain \in [1 .. Height -> Registered \cup {HeadQuarter, NULL}]
      BY <1>2, <2>1, <2>2, ChainOf DEF TreeInv
    <3>2. n \in 1 .. Height
      BY HeightNat
    <3>3. chain[n] \in Registered \cup {HeadQuarter, NULL}
      BY <3>1, <3>2
    <3>4. chain[n] \in Registered
      BY <2>3, <3>3, FranchiseAssumption
    <3> QED
      BY <1>4, <3>4
  <2> QED
    BY <1>5, <1>7, <2>1, <2>2, <2>3 DEF AwardRead
<1>12. \A d : (AwardRead(d) => AwardRead(d)') /\ (UpgradeRead(d) => UpgradeRead(d)')
  BY <1>9, <1>10, BooksOnAccounts
<1>13. CallsRead'
  <2> SUFFICES ASSUME NEW t \in Session
               PROVE  /\ InFlight(t, "award")' => AwardRead(session[t])'
                      /\ InFlight(t, "upgrade")' => UpgradeRead(session[t])'
    BY DEF CallsRead
  <2>1. PICK d : d = session[t]
    OBVIOUS
  <2>2. CASE t = s
    <3>1. session'[t] = c
      BY <1>8, <2>2
    <3>2. AwardRead(c)' /\ ~ InFlight(t, "upgrade")'
      BY <1>7, <1>11, <1>12, <3>1 DEF InFlight
    <3> QED
      BY <3>1, <3>2 DEF AwardRead
  <2>3. CASE t # s
    <3>1. session'[t] = d
      BY <1>8, <2>1, <2>3
    <3> QED
      BY <1>12, <2>1, <3>1 DEF IInv, CallsRead, InFlight, AwardRead, UpgradeRead
  <2> QED
    BY <2>2, <2>3
<1>14. EditorLoaded'
  BY <1>1 DEF IInv, EditorLoaded, Registered
<1> QED
  BY <1>9, <1>10, <1>13, <1>14, TreeOnAccounts, BooksOnAccounts DEF IInv

------------------------------------------------------------------------------
(* The direct awards.                                                      *)

LoopRow == [layer : 0 .. 3, paid : Nat, award : Int]

\* What the loop over the chain holds after row n, from what it held before.
LoopStep(f, types, chain) ==
    [p \in (2 .. Height) \X LoopRow |->
        LET a == chain[p[1]]
            before == p[2]
        IN IF a \in Account /\ (p[1] = 2 \/ Layer(types[a]) > before.layer)
           THEN LET due == DirectAward[<<types[a], franchiseorder[f].targettype>>]
                IN [layer |-> Layer(types[a]), paid |-> due, award |-> due - before.paid]
           ELSE [before EXCEPT !.award = 0]]

NoneYet == [layer |-> 0, paid |-> 0, award |-> 0]

AwardsOf(loop, chain, rows) ==
    [a \in Account |-> IF \E n \in rows : chain[n] = a
                       THEN loop[CHOOSE n \in rows : chain[n] = a].award ELSE 0]

LEMMA LayerIs == \A t \in AgentType : Layer(t) \in 1 .. 3
BY DEF AgentType, Layer

LEMMA LoopTyped ==
    ASSUME TypeOK, NEW f \in Order, NEW types, NEW chain,
           \A n \in 2 .. Height : chain[n] \in Account => types[chain[n]] \in AgentType
    PROVE  \A n \in 2 .. Height, x \in LoopRow : LoopStep(f, types, chain)[<<n, x>>] \in LoopRow
<1> SUFFICES ASSUME NEW n \in 2 .. Height, NEW x \in LoopRow
             PROVE  LoopStep(f, types, chain)[<<n, x>>] \in LoopRow
  OBVIOUS
<1> DEFINE due == DirectAward[<<types[chain[n]], franchiseorder[f].targettype>>]
<1>1. LoopStep(f, types, chain)[<<n, x>>] =
        IF chain[n] \in Account /\ (n = 2 \/ Layer(types[chain[n]]) > x.layer)
        THEN [layer |-> Layer(types[chain[n]]), paid |-> due, award |-> due - x.paid]
        ELSE [x EXCEPT !.award = 0]
  BY DEF LoopStep
<1>2. x.layer \in 0 .. 3 /\ x.paid \in Nat /\ [x EXCEPT !.award = 0] \in LoopRow
  BY DEF LoopRow
<1>3. ASSUME chain[n] \in Account
      PROVE  [layer |-> Layer(types[chain[n]]), paid |-> due, award |-> due - x.paid] \in LoopRow
  <2>1. types[chain[n]] \in AgentType /\ franchiseorder[f].targettype \in AgentType
    BY <1>3, OrderRows
  <2>2. due \in Nat
    BY <2>1, FranchiseAssumption
  <2>3. Layer(types[chain[n]]) \in 0 .. 3
    BY <2>1, LayerIs
  <2> HIDE DEF due
  <2>4. due - x.paid \in Int
    BY <1>2, <2>2
  <2> QED
    BY <2>2, <2>3, <2>4 DEF LoopRow
<1> QED
  BY <1>1, <1>2, <1>3

\* The loop is defined, and the direct awards are what it holds in the rows of agents.
LEMMA LoopRuns ==
    ASSUME TypeOK, NEW f \in Order, NEW types, NEW chain, chain = Chain(franchiseorder[f].accountid),
           DOMAIN chain = 1 .. Height,
           \A n \in 2 .. Height : chain[n] \in Account => types[chain[n]] \in AgentType
    PROVE  \E loop : /\ Follows(loop, Height, LoopRow, NoneYet, LoopStep(f, types, chain))
                     /\ DirectAwards(f, types)
                          = AwardsOf(loop, chain, AgentRows(franchiseorder[f].accountid))
<1> DEFINE none == [layer |-> 0, paid |-> 0, award |-> 0]
           at(g, n) ==
             IF n = 1 THEN none
             ELSE LET a == chain[n]
                      before == g[n - 1]
                  IN IF a \in Account /\ (n = 2 \/ Layer(types[a]) > before.layer)
                     THEN LET due == DirectAward[<<types[a], franchiseorder[f].targettype>>]
                          IN [layer |-> Layer(types[a]), paid |-> due, award |-> due - before.paid]
                     ELSE [before EXCEPT !.award = 0]
           Rows(g) == g = [n \in DOMAIN chain |-> at(g, n)]
           step == LoopStep(f, types, chain)
           result(g) == [a \in Account |->
                           IF \E n \in AgentRows(franchiseorder[f].accountid) : chain[n] = a
                           THEN g[CHOOSE n \in AgentRows(franchiseorder[f].accountid) : chain[n] = a].award
                           ELSE 0]
<1>1. Height \in Nat /\ Height > 1
  BY HeightNat
<1>2. \A n \in 2 .. Height, x \in LoopRow : step[<<n, x>>] \in LoopRow
  BY LoopTyped
<1>3. NoneYet \in LoopRow /\ NoneYet = none
  BY DEF LoopRow, NoneYet
<1>4. PICK g : Follows(g, Height, LoopRow, NoneYet, step)
  <2> HIDE DEF step
  <2> QED
    BY <1>1, <1>2, <1>3, RowsExist
<1>5. /\ g \in [1 .. Height -> LoopRow] /\ g[1] = NoneYet
      /\ \A n \in 2 .. Height : g[n] = step[<<n, g[n - 1]>>]
  BY <1>4 DEF Follows
<1>6. ASSUME NEW n \in 1 .. Height PROVE g[n] = at(g, n)
  <2>1. CASE n = 1
    BY <1>3, <1>5, <2>1
  <2>2. CASE n # 1
    <3>1. n \in 2 .. Height /\ n - 1 \in 1 .. Height
      BY <1>1, <2>2
    <3>2. g[n - 1] \in LoopRow
      BY <1>5, <3>1
    <3>3. PICK x \in LoopRow : x = g[n - 1]
      BY <3>2
    <3>4. g[n] = step[<<n, x>>]
      BY <1>5, <3>1, <3>3
    <3>5. step[<<n, x>>] =
            IF chain[n] \in Account /\ (n = 2 \/ Layer(types[chain[n]]) > x.layer)
            THEN [layer |-> Layer(types[chain[n]]),
                  paid |-> DirectAward[<<types[chain[n]], franchiseorder[f].targettype>>],
                  award |-> DirectAward[<<types[chain[n]], franchiseorder[f].targettype>>] - x.paid]
            ELSE [x EXCEPT !.award = 0]
      BY <3>1 DEF LoopStep
    <3> QED
      BY <2>2, <3>3, <3>4, <3>5
  <2> QED
    BY <2>1, <2>2
<1>7. Rows(g)
  <2> HIDE DEF at
  <2> QED
    BY <1>5, <1>6
<1>8. DirectAwards(f, types) = result(CHOOSE h : Rows(h))
  BY DEF DirectAwards
<1>9. PICK h : Rows(h) /\ DirectAwards(f, types) = result(h)
  <2> HIDE DEF Rows, result
  <2> QED
    BY <1>7, <1>8
<1>10. \A n \in 1 .. Height : h[n] = at(h, n)
  <2> HIDE DEF at
  <2> QED
    BY <1>9
<1>11. h = g
  <2> DEFINE S == {n \in 1 .. Height : h[n] = g[n]}
  <2>1. 1 \in S
    <3>1. 1 \in 1 .. Height
      BY <1>1
    <3>2. h[1] = at(h, 1) /\ g[1] = at(g, 1)
      <4> HIDE DEF at
      <4> QED
        BY <1>6, <1>10, <3>1
    <3>3. at(h, 1) = none /\ at(g, 1) = none
      OBVIOUS
    <3> HIDE DEF at
    <3> QED
      BY <3>1, <3>2, <3>3
  <2>2. ASSUME NEW n \in 1 .. Height - 1, n \in S PROVE n + 1 \in S
    <3>1. n + 1 \in 1 .. Height /\ n + 1 # 1 /\ (n + 1) - 1 = n
      BY <1>1
    <3>2. h[n + 1] = at(h, n + 1) /\ g[n + 1] = at(g, n + 1)
      <4> HIDE DEF at
      <4> QED
        BY <1>6, <1>10, <3>1
    <3>3. h[n] = g[n]
      BY <2>2
    <3>4. at(h, n + 1) = at(g, n + 1)
      BY <3>1, <3>3, Zenon
    <3> QED
      BY <3>1, <3>2, <3>4
  <2>3. 1 .. Height \subseteq S
    <3> HIDE DEF S, at
    <3> QED
      BY <1>1, <2>1, <2>2, RowInduction
  <2>4. \A n \in 1 .. Height : h[n] = g[n]
    BY <2>3
  <2>5. h = [n \in 1 .. Height |-> h[n]]
    <3> HIDE DEF at
    <3> QED
      BY <1>9, <1>10
  <2>6. g = [n \in 1 .. Height |-> g[n]]
    BY <1>5
  <2> QED
    BY <2>4, <2>5, <2>6, Zenon
<1>12. DirectAwards(f, types) = result(g)
  BY <1>9, <1>11
<1>13. result(g) = AwardsOf(g, chain, AgentRows(franchiseorder[f].accountid))
  BY Zenon DEF AwardsOf
<1> HIDE DEF result
<1> QED
  BY <1>4, <1>12, <1>13

\* An award is a number.
LEMMA DirectTyped ==
    ASSUME TypeOK, NEW f \in Order, NEW types, NEW chain, chain = Chain(franchiseorder[f].accountid),
           DOMAIN chain = 1 .. Height,
           \A n \in 2 .. Height : chain[n] \in Account => types[chain[n]] \in AgentType
    PROVE  DirectAwards(f, types) \in [Account -> Int]
<1> DEFINE rows == AgentRows(franchiseorder[f].accountid)
<1>1. PICK loop : /\ Follows(loop, Height, LoopRow, NoneYet, LoopStep(f, types, chain))
                  /\ DirectAwards(f, types) = AwardsOf(loop, chain, AgentRows(franchiseorder[f].accountid))
  BY LoopRuns
<1>2. rows \subseteq 1 .. Height
  <2>1. Cardinality(Account) \in Nat
    BY FranchiseAssumption, FS_CardinalityType
  <2> QED
    BY <2>1 DEF AgentRows, Height
<1>3. loop \in [1 .. Height -> LoopRow]
  BY <1>1 DEF Follows
<1> HIDE DEF rows
<1>4. ASSUME NEW a \in Account, \E n \in rows : chain[n] = a
      PROVE  loop[CHOOSE n \in rows : chain[n] = a].award \in Int
  <2>1. PICK m : m = CHOOSE n \in rows : chain[n] = a
    OBVIOUS
  <2>2. m \in rows
    BY <1>4, <2>1
  <2>3. loop[m] \in LoopRow
    BY <1>2, <1>3, <2>2
  <2>4. loop[m].award \in Int
    BY <2>3 DEF LoopRow
  <2> QED
    BY <2>1, <2>4
<1>5. DirectAwards(f, types) = [a \in Account |->
         IF \E n \in rows : chain[n] = a THEN loop[CHOOSE n \in rows : chain[n] = a].award ELSE 0]
  BY <1>1, Zenon DEF rows, AwardsOf
<1>6. \A a \in Account :
         (IF \E n \in rows : chain[n] = a THEN loop[CHOOSE n \in rows : chain[n] = a].award ELSE 0) \in Int
  BY <1>4
<1> QED
  BY <1>5, <1>6

------------------------------------------------------------------------------
(* An approval.                                                            *)

\* Call c of session s approves order f of account a, below u.
Approves(s, c, f, a, u) ==
    /\ s \in Session /\ c = session[s] /\ c.kind = "award" /\ AwardRead(c)
    /\ c.number \in Nat /\ c.stale \in SUBSET {"order", "number"}
    /\ f = c.order /\ f \in Order /\ a = franchiseorder[f].accountid /\ a \in Registered
    /\ u = account[a].upstream /\ u \in Account \cup {HeadQuarter}

\* What it writes.
OrderSettled(f) ==
    /\ franchiseorder' \in Seq(OrderRow) /\ Len(franchiseorder') = Len(franchiseorder) /\ Order' = Order
    /\ \A g \in Order :
          /\ franchiseorder'[g].accountid = franchiseorder[g].accountid
          /\ franchiseorder'[g].originaltype = franchiseorder[g].originaltype
          /\ franchiseorder'[g].targettype = franchiseorder[g].targettype
          /\ franchiseorder'[g].status = IF g = f THEN "settled" ELSE franchiseorder[g].status

AccountServed(f, a) ==
    /\ account' \in [Account -> AccountRow \cup {NULL}] /\ Registered' = Registered
    /\ \A x \in Registered :
          /\ account'[x].upstream = account[x].upstream /\ account'[x].partition = account[x].partition
          /\ account'[x].status = IF x = a /\ franchiseorder[f].originaltype = NULL
                                  THEN "ACTIVE" ELSE account[x].status
          /\ account'[x].type = IF x = a /\ franchiseorder[f].originaltype # NULL
                                THEN franchiseorder[f].targettype ELSE account[x].type

CycleGoesOn(c, f, u) ==
    LET row == TripleAward(f, franchiseorder[f].targettype, c.number) IN
    /\ row \in TripleRow /\ row.order = f /\ row.number = c.number + 1
    /\ row.amount = AwardX[franchiseorder[f].targettype] * AwardMod[(c.number % 3) + 1]
    /\ triplecycle' \in [Account -> Seq(TripleRow)]
    /\ \A x \in Account : triplecycle'[x] = IF x = u THEN Append(triplecycle[x], row) ELSE triplecycle[x]

RacedBy(c, f, u) ==
    /\ raced \subseteq raced'
    /\ raced' \subseteq {"order", "number", "pending"} \X (1..MaxOrders \cup Account \cup {HeadQuarter})
    /\ \A x : <<"pending", x>> \in raced' => <<"pending", x>> \in raced
    /\ "order" \in c.stale => <<"order", f>> \in raced'
    /\ "number" \in c.stale => <<"number", u>> \in raced'

LEMMA WhoApproves ==
    ASSUME IInv, NEW s \in Session, InFlight(s, "award")
    PROVE  \E c, f, a, u : Approves(s, c, f, a, u)
<1>1. TypeOK /\ TreeInv /\ CallsRead
  BY DEF IInv, TreeInv
<1>2. PICK c : c = session[s]
  OBVIOUS
<1>3. c \in Call /\ c.kind = "award" /\ AwardRead(c)
  BY <1>1, <1>2 DEF TypeOK, InFlight, CallsRead
<1>4. c.number \in Nat /\ c.stale \in SUBSET {"order", "number"}
  BY <1>3 DEF Call
<1>5. PICK f : f = c.order
  OBVIOUS
<1>6. f \in Order
  BY <1>3, <1>5 DEF AwardRead
<1>7. PICK a : a = franchiseorder[f].accountid
  OBVIOUS
<1>8. a \in Registered
  BY <1>1, <1>6, <1>7 DEF TreeInv, Placed
<1>9. account[a].upstream \in Account \cup {HeadQuarter}
  BY <1>1, <1>8, RegisteredRows
<1> QED
  BY <1>2, <1>3, <1>4, <1>5, <1>6, <1>7, <1>8, <1>9 DEF Approves

LEMMA OrderSettles ==
    ASSUME TypeOK, NEW f \in Order, franchiseorder' = [franchiseorder EXCEPT ![f].status = "settled"]
    PROVE  OrderSettled(f)
<1>1. franchiseorder \in Seq(OrderRow) /\ Len(franchiseorder) \in Nat /\ Order = 1 .. Len(franchiseorder)
  <2>1. franchiseorder \in Seq(OrderRow)
    BY DEF TypeOK
  <2> QED
    BY <2>1, OrderRows
<1>2. PICK row : row = [franchiseorder[f] EXCEPT !.status = "settled"]
  OBVIOUS
<1>3. franchiseorder[f] \in OrderRow
  BY OrderRows
<1>4. /\ row \in OrderRow /\ row.status = "settled"
      /\ row.accountid = franchiseorder[f].accountid
      /\ row.originaltype = franchiseorder[f].originaltype
      /\ row.targettype = franchiseorder[f].targettype
  BY <1>2, <1>3 DEF OrderRow
<1>5. franchiseorder' = [franchiseorder EXCEPT ![f] = row]
  BY <1>2
<1>6. /\ franchiseorder' \in Seq(OrderRow) /\ Len(franchiseorder') = Len(franchiseorder)
      /\ franchiseorder'[f] = row /\ \A g \in Order : g # f => franchiseorder'[g] = franchiseorder[g]
  BY <1>1, <1>4, <1>5
<1>7. Order' = Order
  BY <1>1, <1>6 DEF Order
<1> QED
  BY <1>4, <1>6, <1>7 DEF OrderSettled

LEMMA AccountServes ==
    ASSUME TypeOK, NEW f \in Order, NEW a \in Registered, a = franchiseorder[f].accountid,
           account' = Activated(f)
    PROVE  AccountServed(f, a)
<1>1. account \in [Account -> AccountRow \cup {NULL}] /\ account[a] \in AccountRow /\ a \in Account
  BY RegisteredRows DEF TypeOK
<1>2. franchiseorder[f].targettype \in AgentType
  BY OrderRows
<1>3. PICK row :
        row = IF franchiseorder[f].originaltype = NULL THEN [account[a] EXCEPT !.status = "ACTIVE"]
              ELSE [account[a] EXCEPT !.type = franchiseorder[f].targettype]
  OBVIOUS
<1>4. /\ row \in AccountRow /\ row.upstream = account[a].upstream /\ row.partition = account[a].partition
      /\ row.status = IF franchiseorder[f].originaltype = NULL THEN "ACTIVE" ELSE account[a].status
      /\ row.type = IF franchiseorder[f].originaltype # NULL THEN franchiseorder[f].targettype ELSE account[a].type
  <2>1. CASE franchiseorder[f].originaltype = NULL
    BY <1>1, <1>3, <2>1 DEF AccountRow, Accountstatus
  <2>2. CASE franchiseorder[f].originaltype # NULL
    BY <1>1, <1>2, <1>3, <2>2 DEF AccountRow
  <2> QED
    BY <2>1, <2>2
<1>5. account' = [account EXCEPT ![a] = row]
  BY <1>3 DEF Activated
<1>6. /\ account' \in [Account -> AccountRow \cup {NULL}] /\ account'[a] = row
      /\ \A x \in Account : x # a => account'[x] = account[x]
  BY <1>1, <1>4, <1>5
<1>7. Registered' = Registered
  <2>1. row # NULL /\ account[a] # NULL
    BY <1>1, <1>4, FranchiseAssumption
  <2> QED
    BY <1>1, <1>6, <2>1 DEF Registered
<1>8. \A x \in Registered : x \in Account
  BY DEF Registered
<1> QED
  BY <1>4, <1>6, <1>7, <1>8 DEF AccountServed

LEMMA CycleGrows ==
    ASSUME TypeOK, NEW c, c.number \in Nat, NEW f \in Order, NEW u \in Account \cup {HeadQuarter},
           triplecycle' = IF u \in Account
                          THEN [triplecycle EXCEPT ![u] =
                                   Append(@, TripleAward(f, franchiseorder[f].targettype, c.number))]
                          ELSE triplecycle
    PROVE  CycleGoesOn(c, f, u)
<1> DEFINE row == TripleAward(f, franchiseorder[f].targettype, c.number)
           amount == AwardX[franchiseorder[f].targettype] * AwardMod[(c.number % 3) + 1]
<1>1. triplecycle \in [Account -> Seq(TripleRow)]
  BY DEF TypeOK
<1>2. f \in 0 .. MaxOrders /\ c.number + 1 \in Nat
  BY OrderRows, FranchiseAssumption
<1>3. amount \in Nat
  <2>1. (c.number % 3) + 1 \in 1 .. 3 /\ franchiseorder[f].targettype \in AgentType
    BY OrderRows
  <2>2. AwardX[franchiseorder[f].targettype] \in Nat /\ AwardMod[(c.number % 3) + 1] \in Nat
    BY <2>1, FranchiseAssumption
  <2>3. PICK m \in Nat, n \in Nat : m = AwardX[franchiseorder[f].targettype] /\ n = AwardMod[(c.number % 3) + 1]
    BY <2>2
  <2>4. m * n \in Nat
    OBVIOUS
  <2> QED
    BY <2>3, <2>4
<1>4. row = [number |-> c.number + 1, order |-> f, amount |-> amount]
  BY DEF TripleAward
<1> HIDE DEF amount
<1>5. row \in TripleRow /\ row.order = f /\ row.number = c.number + 1 /\ row.amount = amount
  BY <1>2, <1>3, <1>4 DEF TripleRow
<1> HIDE DEF row
<1>6. \A x \in Account : Append(triplecycle[x], row) \in Seq(TripleRow)
  BY <1>1, <1>5
<1>7. triplecycle' = IF u \in Account THEN [triplecycle EXCEPT ![u] = Append(@, row)] ELSE triplecycle
  BY DEF row
<1>8. triplecycle' \in [Account -> Seq(TripleRow)]
  BY <1>1, <1>6, <1>7
<1>9. \A x \in Account : triplecycle'[x] = IF x = u THEN Append(triplecycle[x], row) ELSE triplecycle[x]
  BY <1>1, <1>7, FranchiseAssumption
<1> QED
  BY <1>5, <1>8, <1>9 DEF CycleGoesOn, row, amount

LEMMA ApprovalGrows ==
    ASSUME NEW f, NEW a, OrderSettled(f), AccountServed(f, a)
    PROVE  Grown
BY DEF OrderSettled, AccountServed, Grown

\* The tree after an approval.
LEMMA TreeAfterApproval ==
    ASSUME TreeInv, TypeOK', NEW s, NEW c, NEW f, NEW a, NEW u, Approves(s, c, f, a, u),
           OrderSettled(f), AccountServed(f, a), RacedBy(c, f, u), byhand' = byhand
    PROVE  TreeInv'
<1>1. TypeOK /\ Rooted /\ Placed /\ OnePending /\ StatusByOrders /\ PendingLast /\ TypeAtFirst /\ TypeByOrders
  BY DEF TreeInv
<1>2. /\ f \in Order /\ a = franchiseorder[f].accountid /\ a \in Registered
      /\ AwardRead(c) /\ f = c.order
  BY DEF Approves
<1>3. /\ Order' = Order
      /\ \A g \in Order :
            /\ franchiseorder'[g].accountid = franchiseorder[g].accountid
            /\ franchiseorder'[g].originaltype = franchiseorder[g].originaltype
            /\ franchiseorder'[g].targettype = franchiseorder[g].targettype
            /\ franchiseorder'[g].status = IF g = f THEN "settled" ELSE franchiseorder[g].status
  BY DEF OrderSettled
<1>4. /\ Registered' = Registered
      /\ \A x \in Registered :
            /\ account'[x].upstream = account[x].upstream /\ account'[x].partition = account[x].partition
            /\ account'[x].status = IF x = a /\ franchiseorder[f].originaltype = NULL
                                    THEN "ACTIVE" ELSE account[x].status
            /\ account'[x].type = IF x = a /\ franchiseorder[f].originaltype # NULL
                                  THEN franchiseorder[f].targettype ELSE account[x].type
  BY DEF AccountServed
<1>5. /\ \A x : <<"pending", x>> \notin raced' => <<"pending", x>> \notin raced
      /\ \A x : <<"order", x>> \notin raced' => <<"order", x>> \notin raced
      /\ <<"order", f>> \notin raced' => franchiseorder[f].status = "pending"
  BY <1>2 DEF RacedBy, AwardRead
<1>6. /\ \A x : OrdersOf(x)' = OrdersOf(x) /\ Pending(x)' = Pending(x) \ {f}
      /\ \A x : Paid(x)' = IF x = a THEN Paid(x) \cup {f} ELSE Paid(x)
      /\ f \in OrdersOf(a)
      /\ franchiseorder[f].status = "pending" => f \in Pending(a)
  <2>1. \A x : OrdersOf(x)' = OrdersOf(x)
    BY <1>3 DEF OrdersOf
  <2>2. \A x : Pending(x)' = Pending(x) \ {f}
    BY <1>3 DEF Pending
  <2>3. ASSUME NEW x PROVE Paid(x)' = IF x = a THEN Paid(x) \cup {f} ELSE Paid(x)
    BY <1>2, <1>3 DEF Paid, OrdersOf
  <2> QED
    BY <1>2, <2>1, <2>2, <2>3 DEF OrdersOf, Pending
<1>7. Rooted'
  <2>1. ASSUME NEW x \in Registered, account[x].upstream # HeadQuarter
        PROVE  LET v == account[x].upstream IN
               /\ v \in Registered /\ account'[v].status # "INIT"
               /\ account'[v].partition # NULL \/ account'[v].upstream = HeadQuarter
    <3>1. PICK v : v = account[x].upstream
      OBVIOUS
    <3>2. v \in Registered /\ account[v].status # "INIT" /\ Partitioned(v)
      BY <1>1, <2>1, <3>1 DEF Rooted
    <3> QED
      BY <1>4, <3>1, <3>2 DEF Partitioned
  <2>2. \A x \in Registered : account'[x].upstream = account[x].upstream
    BY <1>4
  <2>3. ASSUME NEW x \in Registered', account'[x].upstream # HeadQuarter
        PROVE  LET v == account'[x].upstream IN
               /\ v \in Registered' /\ account'[v].status # "INIT"
               /\ account'[v].partition # NULL \/ account'[v].upstream = HeadQuarter
    <3>1. x \in Registered
      BY <1>4, <2>3
    <3>2. PICK v : v = account[x].upstream
      OBVIOUS
    <3>3. account'[x].upstream = v /\ v # HeadQuarter
      BY <2>2, <2>3, <3>1, <3>2
    <3>4. /\ v \in Registered /\ account'[v].status # "INIT"
          /\ account'[v].partition # NULL \/ account'[v].upstream = HeadQuarter
      BY <2>1, <3>1, <3>2, <3>3
    <3> QED
      BY <1>4, <3>3, <3>4
  <2> QED
    BY <2>3 DEF Rooted, Partitioned
<1>8. Placed'
  BY <1>1, <1>3, <1>4 DEF Placed
<1>9. OnePending'
  <2> SUFFICES ASSUME NEW x \in Account, <<"pending", x>> \notin raced' PROVE Cardinality(Pending(x)') <= 1
    BY DEF OnePending
  <2>1. Cardinality(Pending(x)) <= 1
    BY <1>1, <1>5 DEF OnePending
  <2>2. IsFiniteSet(Pending(x))
    <3>1. Order = 1 .. Len(franchiseorder) /\ Len(franchiseorder) \in Int /\ 1 \in Int
      BY <1>1, OrderRows
    <3>2. IsFiniteSet(Order)
      BY <3>1, FS_Interval
    <3>3. Pending(x) \subseteq Order
      BY DEF Pending
    <3> QED
      BY <3>2, <3>3, FS_Subset
  <2>3. Cardinality(Pending(x) \ {f}) <= Cardinality(Pending(x)) /\ IsFiniteSet(Pending(x) \ {f})
    BY <2>2, FS_Subset
  <2>4. Cardinality(Pending(x)) \in Nat /\ Cardinality(Pending(x) \ {f}) \in Nat
    BY <2>2, <2>3, FS_CardinalityType
  <2> QED
    BY <1>6, <2>1, <2>3, <2>4
<1>10. StatusByOrders'
  <2> SUFFICES ASSUME NEW x \in Registered, <<"status", x>> \notin byhand
               PROVE  /\ \A g \in OrdersOf(x) : account'[x].status =
                           IF franchiseorder'[g].status = "pending" /\ franchiseorder'[g].originaltype = NULL
                           THEN "INIT" ELSE "ACTIVE"
                      /\ account'[x].status = "INIT" => Pending(x)' # {}
                      /\ account'[x].status # "CLOSED"
    BY <1>4, <1>6 DEF StatusByOrders
  <2>1. /\ \A g \in OrdersOf(x) : account[x].status =
             IF franchiseorder[g].status = "pending" /\ franchiseorder[g].originaltype = NULL
             THEN "INIT" ELSE "ACTIVE"
        /\ account[x].status = "INIT" => Pending(x) # {}
        /\ account[x].status # "CLOSED"
    BY <1>1 DEF StatusByOrders
  <2>2. \A g \in OrdersOf(x) : g \in Order /\ franchiseorder[g].accountid = x
    BY DEF OrdersOf
  <2>3. CASE x = a
    <3>1. account'[x].status = "ACTIVE"
      <4>1. CASE franchiseorder[f].originaltype = NULL
        BY <1>4, <2>3, <4>1
      <4>2. CASE franchiseorder[f].originaltype # NULL
        BY <1>4, <1>6, <2>1, <2>3, <4>2
      <4> QED
        BY <4>1, <4>2
    <3>2. ASSUME NEW g \in OrdersOf(x), franchiseorder'[g].originaltype = NULL
          PROVE  franchiseorder'[g].status # "pending"
      <4>1. g \in Order /\ franchiseorder[g].accountid = x /\ franchiseorder[g].originaltype = NULL
        BY <1>3, <2>2, <3>2
      <4>2. CASE franchiseorder[f].originaltype = NULL
        <5>1. g = f
          BY <1>1, <1>2, <2>3, <4>1, <4>2 DEF Placed
        <5> QED
          BY <1>3, <4>1, <5>1
      <4>3. CASE franchiseorder[f].originaltype # NULL
        <5>1. account[x].status = "ACTIVE"
          BY <1>6, <2>1, <2>3, <4>3
        <5>2. franchiseorder[g].status # "pending"
          BY <2>1, <4>1, <5>1
        <5> QED
          BY <1>3, <4>1, <5>2
      <4> QED
        BY <4>2, <4>3
    <3> QED
      BY <3>1, <3>2
  <2>4. CASE x # a
    <3>1. account'[x].status = account[x].status
      BY <1>4, <2>4
    <3>2. \A g \in OrdersOf(x) : /\ franchiseorder'[g].status = franchiseorder[g].status
                                 /\ franchiseorder'[g].originaltype = franchiseorder[g].originaltype
      BY <1>2, <1>3, <2>2, <2>4
    <3>3. Pending(x)' = Pending(x)
      BY <1>2, <1>6, <2>4 DEF Pending
    <3> QED
      BY <2>1, <3>1, <3>2, <3>3
  <2> QED
    BY <2>3, <2>4
<1>11. PendingLast'
  <2> SUFFICES ASSUME NEW x \in Account, <<"pending", x>> \notin raced', NEW g \in Pending(x)', NEW h \in OrdersOf(x)'
               PROVE  h <= g
    BY DEF PendingLast
  <2>1. g \in Pending(x) /\ h \in OrdersOf(x)
    BY <1>6
  <2> QED
    BY <1>1, <1>5, <2>1 DEF PendingLast
<1>12. ASSUME NEW g \in Pending(a), g # f, <<"pending", a>> \notin raced', <<"order", f>> \notin raced'
       PROVE  FALSE
  <2>1. f \in Pending(a) /\ g \in Order /\ g \in OrdersOf(a)
    BY <1>5, <1>6, <1>12 DEF Pending, OrdersOf
  <2>2. a \in Account
    BY <1>2 DEF Registered
  <2>3. g <= f /\ f <= g
    BY <1>1, <1>5, <1>6, <1>12, <2>1, <2>2 DEF PendingLast
  <2>4. f \in Nat /\ g \in Nat
    BY <1>1, <1>2, <2>1, OrderRows
  <2> QED
    BY <1>12, <2>3, <2>4
<1>13. TypeAtFirst'
  <2> SUFFICES ASSUME NEW x \in Registered, <<"type", x>> \notin byhand, <<"pending", x>> \notin raced',
                      \A g \in OrdersOf(x) : <<"order", g>> \notin raced',
                      NEW g \in Pending(x)', franchiseorder'[g].originaltype = NULL
               PROVE  account'[x].type = franchiseorder'[g].targettype
    BY <1>4, <1>6 DEF TypeAtFirst
  <2>1. g \in Pending(x) /\ g # f /\ g \in Order
    BY <1>6 DEF Pending
  <2>2. x # a
    BY <1>6, <1>12, <2>1
  <2>3. account'[x].type = account[x].type
    BY <1>4, <2>2
  <2> QED
    BY <1>1, <1>3, <1>5, <2>1, <2>3 DEF TypeAtFirst
<1>14. TypeByOrders'
  <2> SUFFICES ASSUME NEW x \in Account, <<"type", x>> \notin byhand, <<"pending", x>> \notin raced',
                      \A g \in OrdersOf(x) : <<"order", g>> \notin raced',
                      NEW m \in Paid(x)', \A g \in Paid(x)' : g <= m
               PROVE  account'[x].type = franchiseorder'[m].targettype
    BY <1>6 DEF TypeByOrders
  <2>1. CASE x = a
    <3>1. f \in Pending(a) /\ m \in OrdersOf(a)
      BY <1>5, <1>6, <2>1 DEF Paid
    <3>2. m <= f
      BY <1>1, <1>5, <2>1, <3>1 DEF PendingLast
    <3>3. f <= m
      BY <1>6, <2>1
    <3>4. f \in Nat /\ m \in Nat
      BY <1>1, <1>2, <3>1, OrderRows DEF OrdersOf
    <3>5. m = f
      BY <3>2, <3>3, <3>4
    <3>6. franchiseorder'[m].targettype = franchiseorder[f].targettype
      BY <1>2, <1>3, <3>5
    <3>7. franchiseorder[f].originaltype = NULL => account[a].type = franchiseorder[f].targettype
      BY <1>1, <1>2, <1>5, <2>1, <3>1 DEF TypeAtFirst
    <3> QED
      BY <1>2, <1>4, <2>1, <3>6, <3>7
  <2>2. CASE x # a
    <3>1. m \in Paid(x) /\ m \in Order /\ m # f /\ franchiseorder[m].accountid = x
      BY <1>2, <1>6, <2>2 DEF Paid, OrdersOf
    <3>2. account[x].type = franchiseorder[m].targettype
      BY <1>1, <1>5, <1>6, <2>2, <3>1 DEF TypeByOrders
    <3>3. x \in Registered
      BY <1>1, <3>1 DEF Placed
    <3> QED
      BY <1>3, <1>4, <2>2, <3>1, <3>2, <3>3
  <2> QED
    BY <2>1, <2>2
<1> QED
  BY <1>7, <1>8, <1>9, <1>10, <1>11, <1>13, <1>14 DEF TreeInv

\* The rows of the cycle that goes on.
LEMMA CycleAfter ==
    ASSUME TypeOK, NEW c, NEW f, NEW u \in Account, CycleGoesOn(c, f, u)
    PROVE  LET last == Len(triplecycle[u]) + 1 IN
           /\ Len(triplecycle[u]) \in Nat /\ Len(triplecycle'[u]) = last
           /\ DOMAIN triplecycle[u] = 1 .. Len(triplecycle[u]) /\ DOMAIN triplecycle'[u] = 1 .. last
           /\ \A i \in 1 .. Len(triplecycle[u]) : triplecycle'[u][i] = triplecycle[u][i]
           /\ triplecycle'[u][last].order = f /\ triplecycle'[u][last].number = c.number + 1
           /\ triplecycle'[u][last].amount
                = AwardX[franchiseorder[f].targettype] * AwardMod[(c.number % 3) + 1]
<1>1. PICK row \in TripleRow :
        /\ row.order = f /\ row.number = c.number + 1
        /\ row.amount = AwardX[franchiseorder[f].targettype] * AwardMod[(c.number % 3) + 1]
        /\ triplecycle'[u] = Append(triplecycle[u], row)
  BY DEF CycleGoesOn
<1>2. triplecycle[u] \in Seq(TripleRow)
  BY DEF TypeOK
<1>3. /\ Len(triplecycle[u]) \in Nat /\ DOMAIN triplecycle[u] = 1 .. Len(triplecycle[u])
      /\ triplecycle'[u] \in Seq(TripleRow) /\ Len(triplecycle'[u]) = Len(triplecycle[u]) + 1
      /\ \A i \in 1 .. Len(triplecycle[u]) : triplecycle'[u][i] = triplecycle[u][i]
      /\ triplecycle'[u][Len(triplecycle[u]) + 1] = row
  BY <1>1, <1>2
<1>4. DOMAIN triplecycle'[u] = 1 .. Len(triplecycle[u]) + 1
  BY <1>3
<1> QED
  BY <1>1, <1>3, <1>4

LEMMA RowsAfterApproval ==
    ASSUME IInv, NEW s, NEW c, NEW f, NEW a, NEW u, Approves(s, c, f, a, u),
           OrderSettled(f), CycleGoesOn(c, f, u), RacedBy(c, f, u)
    PROVE  RowsPlaced' /\ TripleInOrder'
<1>1. TypeOK /\ Placed /\ RowsPlaced /\ TripleInOrder
  BY DEF IInv, TreeInv
<1>2. /\ f \in Order /\ c.number \in Nat /\ AwardRead(c) /\ f = c.order
      /\ u \in Account \cup {HeadQuarter} /\ u = Upstream(f)
  BY DEF Approves, Upstream
<1>3. /\ Len(franchiseorder') = Len(franchiseorder) /\ Len(franchiseorder) \in Nat
      /\ Order = 1 .. Len(franchiseorder)
      /\ \A g \in Order : franchiseorder'[g].targettype = franchiseorder[g].targettype
  BY <1>1, OrderRows DEF OrderSettled
<1>4. \A x \in Account : x # u => triplecycle'[x] = triplecycle[x]
  BY DEF CycleGoesOn
<1>5. ASSUME NEW x \in Account, NEW i \in DOMAIN triplecycle[x]
      PROVE  LET row == triplecycle[x][i] IN
             /\ i \in Nat /\ Earlier[x] \in Nat /\ row.order \in Nat /\ row.order <= Len(franchiseorder)
             /\ row.order = 0 <=> i <= Earlier[x]
             /\ row.order # 0 => /\ row.number > 0
                                 /\ row.amount = AwardX[franchiseorder'[row.order].targettype]
                                                    * AwardMod[((row.number - 1) % 3) + 1]
  <2>1. /\ i \in Nat /\ triplecycle[x][i].order \in Nat /\ Earlier[x] \in Nat
        /\ triplecycle[x][i].order <= Len(franchiseorder)
    BY <1>1, CycleRows, FranchiseAssumption DEF RowsPlaced
  <2>2. triplecycle[x][i].order # 0 => triplecycle[x][i].order \in Order
    BY <1>3, <2>1
  <2> QED
    BY <1>1, <1>3, <2>1, <2>2 DEF RowsPlaced
<1>6. ASSUME NEW x \in Account PROVE Earlier[x] \in Nat /\ Earlier[x] <= Len(triplecycle[x])
  BY <1>1, FranchiseAssumption DEF RowsPlaced
<1>7. ASSUME u \in Account
      PROVE  LET last == Len(triplecycle[u]) + 1
                 row == triplecycle'[u][last] IN
             /\ last \in Nat /\ last > Earlier[u] /\ row.order = f /\ f # 0 /\ f <= Len(franchiseorder)
             /\ row.number = c.number + 1 /\ c.number + 1 > 0 /\ (c.number + 1) - 1 = c.number
             /\ row.amount = AwardX[franchiseorder'[f].targettype] * AwardMod[(c.number % 3) + 1]
  <2>1. /\ triplecycle'[u][Len(triplecycle[u]) + 1].order = f
        /\ triplecycle'[u][Len(triplecycle[u]) + 1].number = c.number + 1
        /\ triplecycle'[u][Len(triplecycle[u]) + 1].amount
             = AwardX[franchiseorder[f].targettype] * AwardMod[(c.number % 3) + 1]
        /\ Len(triplecycle[u]) \in Nat
    BY <1>1, <1>7, CycleAfter
  <2>2. f # 0 /\ f <= Len(franchiseorder) /\ franchiseorder'[f].targettype = franchiseorder[f].targettype
    BY <1>2, <1>3
  <2> QED
    BY <1>2, <1>6, <1>7, <2>1, <2>2
<1>8. RowsPlaced'
  <2>1. ASSUME NEW x \in Account PROVE Earlier[x] <= Len(triplecycle'[x])
    <3>1. CASE x = u
      BY <1>1, <1>6, <3>1, CycleAfter
    <3>2. CASE x # u
      BY <1>4, <1>6, <3>2
    <3> QED
      BY <3>1, <3>2
  <2>2. ASSUME NEW x \in Account, NEW i \in DOMAIN triplecycle'[x]
        PROVE  LET row == triplecycle'[x][i] IN
               /\ row.order <= Len(franchiseorder')
               /\ row.order = 0 <=> i <= Earlier[x]
               /\ row.order # 0 => /\ row.number > 0
                                   /\ row.amount = AwardX[franchiseorder'[row.order].targettype]
                                                      * AwardMod[((row.number - 1) % 3) + 1]
    <3>1. CASE i \in DOMAIN triplecycle[x] /\ triplecycle'[x][i] = triplecycle[x][i]
      BY <1>3, <1>5, <3>1
    <3>2. CASE x = u /\ i = Len(triplecycle[u]) + 1
      <4>1. PICK row : row = triplecycle'[x][i]
        OBVIOUS
      <4>2. /\ i \in Nat /\ i > Earlier[x] /\ row.order = f /\ f # 0 /\ f <= Len(franchiseorder)
            /\ row.number = c.number + 1 /\ row.number > 0 /\ row.number - 1 = c.number
            /\ row.amount = AwardX[franchiseorder'[f].targettype] * AwardMod[(c.number % 3) + 1]
        BY <1>7, <3>2, <4>1
      <4>3. row.amount = AwardX[franchiseorder'[row.order].targettype]
                            * AwardMod[((row.number - 1) % 3) + 1]
        BY <4>2
      <4>4. ~ (i <= Earlier[x])
        BY <1>6, <4>2
      <4> QED
        BY <1>3, <4>1, <4>2, <4>3, <4>4
    <3> QED
      BY <1>1, <1>4, <3>1, <3>2, CycleAfter
  <2> QED
    BY <2>1, <2>2 DEF RowsPlaced
<1>9. TripleInOrder'
  <2> SUFFICES ASSUME NEW x \in Account, <<"number", x>> \notin raced', NEW i \in DOMAIN triplecycle'[x]
               PROVE  /\ triplecycle'[x][i].number = i
                      /\ i > Earlier[x] => triplecycle'[x][i].amount
                            = AwardX[franchiseorder'[triplecycle'[x][i].order].targettype]
                                 * AwardMod[((i - 1) % 3) + 1]
    BY DEF TripleInOrder
  <2>1. \A j \in DOMAIN triplecycle[x] : triplecycle[x][j].number = j
    BY <1>1 DEF TripleInOrder, RacedBy
  <2>2. CASE i \in DOMAIN triplecycle[x] /\ triplecycle'[x][i] = triplecycle[x][i]
    <3>1. i > Earlier[x] => triplecycle[x][i].order # 0
      BY <1>5, <2>2
    <3>2. triplecycle[x][i].number = i
      BY <2>1, <2>2
    <3> QED
      BY <1>5, <2>2, <3>1, <3>2
  <2>3. CASE x = u /\ i = Len(triplecycle[u]) + 1
    <3>1. "number" \notin c.stale
      BY <2>3 DEF RacedBy
    <3>2. c.number = LastNumber(u)
      BY <1>2, <3>1 DEF AwardRead
    <3>3. c.number = Len(triplecycle[u])
      BY <1>1, <2>1, <2>3, <3>2, LastIsLength
    <3>4. PICK row : row = triplecycle'[x][i]
      OBVIOUS
    <3>5. /\ row.order = f /\ row.number = i /\ i - 1 = c.number
          /\ row.amount = AwardX[franchiseorder'[f].targettype] * AwardMod[(c.number % 3) + 1]
      BY <1>2, <1>7, <2>3, <3>3, <3>4
    <3> QED
      BY <3>4, <3>5
  <2>4. \/ i \in DOMAIN triplecycle[x] /\ triplecycle'[x][i] = triplecycle[x][i]
        \/ x = u /\ i = Len(triplecycle[u]) + 1
    <3>1. CASE x = u
      <4>1. /\ Len(triplecycle[u]) \in Nat /\ i \in 1 .. Len(triplecycle[u]) + 1
            /\ DOMAIN triplecycle[u] = 1 .. Len(triplecycle[u])
            /\ \A j \in 1 .. Len(triplecycle[u]) : triplecycle'[u][j] = triplecycle[u][j]
        BY <1>1, <3>1, CycleAfter
      <4> QED
        BY <3>1, <4>1
    <3>2. CASE x # u
      BY <1>4, <3>2
    <3> QED
      BY <3>1, <3>2
  <2> QED
    BY <2>2, <2>3, <2>4
<1> QED
  BY <1>8, <1>9

LEMMA AwardsAfterApproval ==
    ASSUME IInv, NEW s, NEW c, NEW f, NEW a, NEW u, Approves(s, c, f, a, u),
           OrderSettled(f), AccountServed(f, a), CycleGoesOn(c, f, u), RacedBy(c, f, u)
    PROVE  AwardedOnce'
<1>1. TypeOK /\ Placed /\ AwardedOnce /\ Grown
  BY ApprovalGrows DEF IInv, TreeInv
<1>2. f \in Order /\ AwardRead(c) /\ f = c.order /\ u \in Account \cup {HeadQuarter} /\ u = Upstream(f)
  BY DEF Approves, Upstream
<1>3. /\ Order' = Order
      /\ \A g \in Order : franchiseorder'[g].status = IF g = f THEN "settled" ELSE franchiseorder[g].status
  BY DEF OrderSettled
<1>4. \A g \in Order : Upstream(g)' = Upstream(g)
  BY <1>1, UpstreamStays
<1> SUFFICES ASSUME NEW g \in Order, <<"order", g>> \notin raced', NEW x \in Account
             PROVE  Cardinality({i \in DOMAIN triplecycle'[x] : triplecycle'[x][i].order = g})
                      = IF franchiseorder'[g].status = "settled" /\ Upstream(g)' = x THEN 1 ELSE 0
  BY <1>3 DEF AwardedOnce
<1> DEFINE before == {i \in DOMAIN triplecycle[x] : triplecycle[x][i].order = g}
           after == {i \in DOMAIN triplecycle'[x] : triplecycle'[x][i].order = g}
<1>5. Cardinality(before) = IF franchiseorder[g].status = "settled" /\ Upstream(g) = x THEN 1 ELSE 0
  BY <1>1 DEF AwardedOnce, RacedBy
<1>6. CASE x # u
  <2>1. triplecycle'[x] = triplecycle[x]
    BY <1>6 DEF CycleGoesOn
  <2>2. g = f => Upstream(g) # x
    BY <1>2, <1>6
  <2> QED
    BY <1>3, <1>4, <1>5, <2>1, <2>2
<1>7. CASE x = u /\ g # f
  <2>1. after = before
    <3>1. DOMAIN triplecycle'[u] = DOMAIN triplecycle[u] \cup {Len(triplecycle[u]) + 1}
      BY <1>1, <1>7, CycleAfter
    <3>2. /\ \A i \in 1 .. Len(triplecycle[u]) : triplecycle'[u][i] = triplecycle[u][i]
          /\ triplecycle'[u][Len(triplecycle[u]) + 1].order = f
          /\ DOMAIN triplecycle[u] = 1 .. Len(triplecycle[u])
      BY <1>1, <1>7, CycleAfter
    <3> QED
      BY <1>7, <3>1, <3>2
  <2> HIDE DEF after, before
  <2> QED
    BY <1>3, <1>4, <1>5, <1>7, <2>1 DEF after
<1>8. CASE x = u /\ g = f
  <2>1. franchiseorder[f].status = "pending"
    BY <1>2, <1>8 DEF RacedBy, AwardRead
  <2>2. before = {}
    <3>1. Cardinality(before) = 0
      BY <1>5, <1>8, <2>1
    <3>2. IsFiniteSet(before)
      <4>1. DOMAIN triplecycle[x] = 1 .. Len(triplecycle[x]) /\ Len(triplecycle[x]) \in Int /\ 1 \in Int
        BY <1>1, CycleRows
      <4>2. IsFiniteSet(DOMAIN triplecycle[x])
        BY <4>1, FS_Interval
      <4> QED
        BY <4>2, FS_Subset
    <3> HIDE DEF before
    <3> QED
      BY <3>1, <3>2, FS_EmptySet
  <2>3. after = {Len(triplecycle[u]) + 1}
    <3>1. DOMAIN triplecycle'[u] = DOMAIN triplecycle[u] \cup {Len(triplecycle[u]) + 1}
      BY <1>1, <1>8, CycleAfter
    <3>2. /\ \A i \in DOMAIN triplecycle[u] : triplecycle'[u][i] = triplecycle[u][i]
          /\ triplecycle'[u][Len(triplecycle[u]) + 1].order = f
      BY <1>1, <1>8, CycleAfter
    <3> QED
      BY <1>8, <2>2, <3>1, <3>2
  <2>4. Cardinality(after) = 1
    BY <2>3, FS_Singleton
  <2> HIDE DEF after
  <2> QED
    BY <1>2, <1>3, <1>4, <1>8, <2>4 DEF after
<1> QED
  BY <1>6, <1>7, <1>8

LEMMA ExtensionsAfterApproval ==
    ASSUME IInv, NEW s, NEW c, NEW f, NEW a, NEW u, Approves(s, c, f, a, u),
           OrderSettled(f), AccountServed(f, a), RacedBy(c, f, u),
           extended' = [extended EXCEPT ![f] =
               [p \in Account \X Accountpartition |-> extended[f][p] + ExtensionAwards(f)[p]]]
    PROVE  ExtendedBySide' /\ extended' \in [1..MaxOrders -> [Account \X Accountpartition -> Nat]]
<1>1. TypeOK /\ Rooted /\ Placed /\ ExtendedBySide /\ Grown
  BY ApprovalGrows DEF IInv, TreeInv
<1>2. /\ f \in Order /\ f \in 1 .. MaxOrders /\ Order \subseteq 1 .. MaxOrders
      /\ AwardRead(c) /\ f = c.order /\ a = franchiseorder[f].accountid
      /\ franchiseorder[f].targettype \in AgentType
  BY <1>1, OrderRows DEF Approves
<1>3. /\ Order' = Order
      /\ \A g \in Order : /\ franchiseorder'[g].status = IF g = f THEN "settled" ELSE franchiseorder[g].status
                          /\ franchiseorder'[g].targettype = franchiseorder[g].targettype
  BY DEF OrderSettled
<1>4. extended \in [1..MaxOrders -> [Account \X Accountpartition -> Nat]]
  BY <1>1 DEF TypeOK
<1>5. Extension[franchiseorder[f].targettype] \in Nat
  BY <1>2, FranchiseAssumption
<1>6. ASSUME NEW p \in Account \X Accountpartition
      PROVE  /\ ExtensionAwards(f)[p] \in {0, Extension[franchiseorder[f].targettype]}
             /\ ExtensionAwards(f)[p] # 0 => OnSideOf(f, p)
  <2> DEFINE due == \E n \in AgentRows(a) :
                  /\ n \in 3 .. ExtensionLevel + 2 /\ Chain(a)[n] = p[1]
                  /\ account[Chain(a)[n - 1]].partition = p[2]
  <2>1. ExtensionAwards(f)[p] = IF due THEN Extension[franchiseorder[f].targettype] ELSE 0
    BY <1>2 DEF ExtensionAwards
  <2>2. due => OnSideOf(f, p)
    BY <1>2 DEF OnSideOf
  <2> QED
    BY <2>1, <2>2
<1>7. /\ \A p \in Account \X Accountpartition : extended'[f][p] = extended[f][p] + ExtensionAwards(f)[p]
      /\ \A g \in 1 .. MaxOrders : g # f => extended'[g] = extended[g]
  BY <1>2, <1>4
<1>8. \A p \in Account \X Accountpartition : extended[f][p] \in Nat /\ ExtensionAwards(f)[p] \in Nat
  BY <1>2, <1>4, <1>5, <1>6
<1>9. extended' \in [1..MaxOrders -> [Account \X Accountpartition -> Nat]]
  <2>1. [p \in Account \X Accountpartition |-> extended[f][p] + ExtensionAwards(f)[p]]
          \in [Account \X Accountpartition -> Nat]
    BY <1>8
  <2> QED
    BY <1>4, <2>1
<1>10. ASSUME NEW g \in Order, NEW p \in Account \X Accountpartition
       PROVE  /\ extended'[g][p] > 0 => OnSideOf(g, p)'
              /\ <<"order", g>> \notin raced' =>
                    extended'[g][p] \in {0, Extension[franchiseorder'[g].targettype]}
              /\ <<"order", g>> \notin raced' /\ franchiseorder'[g].status = "pending" => extended'[g][p] = 0
  <2>1. <<"order", g>> \notin raced' => <<"order", g>> \notin raced
    BY DEF RacedBy
  <2>2. /\ extended[g][p] > 0 => OnSideOf(g, p)
        /\ <<"order", g>> \notin raced => extended[g][p] \in {0, Extension[franchiseorder[g].targettype]}
        /\ <<"order", g>> \notin raced /\ franchiseorder[g].status = "pending" => extended[g][p] = 0
    BY <1>1 DEF ExtendedBySide
  <2>3. OnSideOf(g, p) => OnSideOf(g, p)'
    BY <1>1, SideStays
  <2>4. CASE g # f
    <3>1. extended'[g][p] = extended[g][p]
      BY <1>2, <1>7, <2>4
    <3> QED
      BY <1>3, <2>1, <2>2, <2>3, <2>4, <3>1
  <2>5. CASE g = f
    <3>1. extended'[g][p] = extended[g][p] + ExtensionAwards(f)[p] /\ extended[g][p] \in Nat
          /\ ExtensionAwards(f)[p] \in Nat
      BY <1>7, <1>8, <2>5
    <3>2. extended'[g][p] > 0 => OnSideOf(g, p)
      BY <1>6, <2>2, <2>5, <3>1
    <3>3. <<"order", g>> \notin raced' => extended[g][p] = 0
      <4>1. <<"order", g>> \notin raced' => franchiseorder[g].status = "pending"
        BY <1>2, <2>5 DEF RacedBy, AwardRead
      <4> QED
        BY <2>1, <2>2, <4>1
    <3>4. <<"order", g>> \notin raced' => extended'[g][p] \in {0, Extension[franchiseorder'[g].targettype]}
      BY <1>3, <1>6, <2>5, <3>1, <3>3
    <3>5. franchiseorder'[g].status # "pending"
      BY <1>3, <2>5
    <3> QED
      BY <2>3, <3>2, <3>4, <3>5
  <2> QED
    BY <2>4, <2>5
<1>11. \A g \in (1..MaxOrders) \ Order, p \in Account \X Accountpartition : extended'[g][p] = 0
  BY <1>1, <1>2, <1>7 DEF ExtendedBySide
<1>12. ExtendedBySide'
  BY <1>3, <1>10, <1>11 DEF ExtendedBySide
<1> QED
  BY <1>9, <1>12

\* What the others have read of what an approval writes is marked as out of date.
LEMMA CallsAfterApproval ==
    ASSUME IInv, NEW s, NEW c, NEW f, NEW a, NEW u, Approves(s, c, f, a, u), OrderSettled(f),
           AccountServed(f, a), CycleGoesOn(c, f, u), byhand' = byhand, NEW d, NEW e
    PROVE  /\ UpgradeRead(d) => UpgradeRead(d)'
           /\ (/\ e.order = d.order /\ e.number = d.number /\ e.types = d.types
               /\ e.stale = d.stale \cup (IF d.order = f THEN {"order"} ELSE {})
                                    \cup (IF Upstream(d.order) = u THEN {"number"} ELSE {})
               /\ AwardRead(d))
              => AwardRead(e)'
<1>1. TypeOK /\ Rooted /\ Placed /\ Grown
  BY ApprovalGrows DEF IInv, TreeInv
<1>2. /\ Order' = Order
      /\ \A g \in Order :
            /\ franchiseorder'[g].accountid = franchiseorder[g].accountid
            /\ franchiseorder'[g].status = IF g = f THEN "settled" ELSE franchiseorder[g].status
  BY DEF OrderSettled
<1>3. ASSUME UpgradeRead(d) PROVE UpgradeRead(d)'
  <2>1. d.account \in Registered /\ Registered' = Registered
    BY <1>3 DEF UpgradeRead, AccountServed
  <2>2. Pending(d.account)' \subseteq Pending(d.account)
    BY <1>2 DEF Pending
  <2>3. account'[d.account].status \in {account[d.account].status, "ACTIVE"}
    BY <2>1 DEF AccountServed
  <2> QED
    BY <1>3, <2>1, <2>2, <2>3 DEF UpgradeRead
<1>4. ASSUME e.order = d.order, e.number = d.number, e.types = d.types,
             e.stale = d.stale \cup (IF d.order = f THEN {"order"} ELSE {})
                               \cup (IF Upstream(d.order) = u THEN {"number"} ELSE {}),
             AwardRead(d)
      PROVE  AwardRead(e)'
  <2>1. /\ d.order \in Order
        /\ "order" \notin d.stale => franchiseorder[d.order].status = "pending"
        /\ "number" \notin d.stale => d.number = LastNumber(Upstream(d.order))
        /\ \A n \in 2 .. Height : LET chain == Chain(franchiseorder[d.order].accountid) IN
              chain[n] \in Account => d.types[chain[n]] \in AgentType
    BY <1>4 DEF AwardRead
  <2>2. PICK v : v = Upstream(d.order)
    OBVIOUS
  <2>3. Upstream(d.order)' = v /\ v \in Account \cup {HeadQuarter}
    BY <1>1, <2>1, <2>2, UpstreamStays
  <2>4. v # u => LastNumber(v)' = LastNumber(v)
    BY <2>3 DEF LastNumber, CycleGoesOn
  <2>5. PICK b : b = franchiseorder[d.order].accountid
    OBVIOUS
  <2>6. b \in Registered /\ franchiseorder'[d.order].accountid = b
    BY <1>1, <1>2, <2>1, <2>5 DEF Placed
  <2>7. Chain(b)' = Chain(b)
    BY <1>1, <2>6, ChainStays
  <2>8. e.order \in Order' /\ e.order = d.order
    BY <1>2, <1>4, <2>1
  <2>9. "order" \notin e.stale => franchiseorder'[e.order].status = "pending"
    BY <1>2, <1>4, <2>1
  <2>10. "number" \notin e.stale => e.number = (LastNumber(Upstream(e.order)))'
    <3>1. ASSUME "number" \notin e.stale PROVE v # u /\ "number" \notin d.stale
      BY <1>4, <2>2, <3>1
    <3>2. (LastNumber(Upstream(e.order)))' = LastNumber(v)'
      BY <2>3, <2>8 DEF LastNumber
    <3>3. LastNumber(Upstream(d.order)) = LastNumber(v)
      BY <2>2
    <3> QED
      BY <1>4, <2>1, <2>4, <3>1, <3>2, <3>3
  <2>11. (Chain(franchiseorder[e.order].accountid))' = Chain(b)
    BY <2>6, <2>7, <2>8
  <2>12. Height' = Height
    BY DEF Height
  <2> QED
    BY <1>4, <2>1, <2>5, <2>8, <2>9, <2>10, <2>11, <2>12 DEF AwardRead
<1> QED
  BY <1>3, <1>4

LEMMA DistributeIInv ==
    ASSUME IInv, NEW s \in Session, Distribute(s)
    PROVE  IInv'
<1>1. TypeOK /\ TreeInv /\ CallsRead /\ InFlight(s, "award")
  BY DEF IInv, TreeInv, Distribute
<1>2. PICK c, f, a, u : Approves(s, c, f, a, u)
  BY <1>1, WhoApproves
<1>3. /\ c = session[s] /\ c.kind = "award" /\ AwardRead(c)
      /\ c.number \in Nat /\ c.stale \in SUBSET {"order", "number"}
      /\ f = c.order /\ f \in Order /\ a = franchiseorder[f].accountid /\ a \in Registered
      /\ u = account[a].upstream /\ u \in Account \cup {HeadQuarter} /\ u = Upstream(f)
      /\ f \in 1 .. MaxOrders
  BY <1>1, <1>2, OrderRows DEF Approves, Upstream
<1>4. /\ triplecycle' = IF u \in Account
                        THEN [triplecycle EXCEPT ![u] =
                                 Append(@, TripleAward(f, franchiseorder[f].targettype, c.number))]
                        ELSE triplecycle
      /\ awarded' = [awarded EXCEPT ![f] = [x \in Account |-> @[x] + DirectAwards(f, c.types)[x]]]
      /\ extended' = [extended EXCEPT ![f] =
             [p \in Account \X Accountpartition |-> @[p] + ExtensionAwards(f)[p]]]
      /\ account' = Activated(f)
      /\ franchiseorder' = [franchiseorder EXCEPT ![f].status = "settled"]
      /\ session' = [t \in Session |->
             IF t = s THEN NULL
             ELSE IF ~ InFlight(t, "award") THEN session[t]
             ELSE [session[t] EXCEPT !.stale =
                      @ \cup (IF session[t].order = f THEN {"order"} ELSE {})
                        \cup (IF Upstream(session[t].order) = u THEN {"number"} ELSE {})]]
      /\ raced' = raced \cup {<<x, IF x = "order" THEN f ELSE u>> : x \in c.stale}
      /\ UNCHANGED <<editor, edits, byhand>>
  BY <1>3 DEF Distribute
<1>5. OrderSettled(f)
  BY <1>1, <1>3, <1>4, OrderSettles
<1>6. AccountServed(f, a)
  BY <1>1, <1>3, <1>4, AccountServes
<1>7. CycleGoesOn(c, f, u)
  BY <1>1, <1>3, <1>4, CycleGrows
<1>8. RacedBy(c, f, u)
  <2>1. raced \subseteq {"order", "number", "pending"} \X (1..MaxOrders \cup Account \cup {HeadQuarter})
    BY <1>1 DEF TypeOK
  <2> QED
    BY <1>3, <1>4, <2>1 DEF RacedBy
<1>9. ExtendedBySide' /\ extended' \in [1..MaxOrders -> [Account \X Accountpartition -> Nat]]
  <2>1. extended \in [1..MaxOrders -> [Account \X Accountpartition -> Nat]]
    BY <1>1 DEF TypeOK
  <2>2. extended' = [extended EXCEPT ![f] =
            [p \in Account \X Accountpartition |-> extended[f][p] + ExtensionAwards(f)[p]]]
    BY <1>3, <1>4, <2>1
  <2> QED
    BY <1>2, <1>5, <1>6, <1>8, <2>2, ExtensionsAfterApproval
<1>10. awarded' \in [1..MaxOrders -> [Account -> Int]]
  <2>1. awarded \in [1..MaxOrders -> [Account -> Int]]
    BY <1>1 DEF TypeOK
  <2>2. PICK chain : chain = Chain(franchiseorder[f].accountid)
    OBVIOUS
  <2>3. DOMAIN chain = 1 .. Height
    <3>1. chain \in [1 .. Height -> Registered \cup {HeadQuarter, NULL}]
      BY <1>1, <1>3, <2>2, ChainOf DEF TreeInv
    <3> QED
      BY <3>1
  <2>4. \A n \in 2 .. Height : chain[n] \in Account => c.types[chain[n]] \in AgentType
    BY <1>3, <2>2 DEF AwardRead
  <2>5. DirectAwards(f, c.types) \in [Account -> Int]
    BY <1>1, <1>3, <2>2, <2>3, <2>4, DirectTyped
  <2>6. [x \in Account |-> awarded[f][x] + DirectAwards(f, c.types)[x]] \in [Account -> Int]
    <3>1. \A x \in Account : awarded[f][x] \in Int /\ DirectAwards(f, c.types)[x] \in Int
      BY <1>3, <2>1, <2>5
    <3> QED
      BY <3>1
  <2> QED
    BY <1>3, <1>4, <2>1, <2>6
<1>11. \A t \in Session :
         session'[t] = IF t = s THEN NULL
                       ELSE IF ~ InFlight(t, "award") THEN session[t]
                       ELSE [session[t] EXCEPT !.stale =
                                session[t].stale \cup (IF session[t].order = f THEN {"order"} ELSE {})
                                  \cup (IF Upstream(session[t].order) = u THEN {"number"} ELSE {})]
  BY <1>4
<1>12. ASSUME NEW t \in Session, t # s, InFlight(t, "award")
       PROVE  LET d == session[t]
                  e == session'[t]
              IN /\ e \in Call /\ e.kind = "award" /\ e.order = d.order /\ e.number = d.number
                 /\ e.types = d.types
                 /\ e.stale = d.stale \cup (IF d.order = f THEN {"order"} ELSE {})
                                      \cup (IF Upstream(d.order) = u THEN {"number"} ELSE {})
  <2>1. PICK d : d = session[t]
    OBVIOUS
  <2>2. d \in [kind : {"award"}, order : 1..MaxOrders, types : [Account -> AgentType \cup {NULL}],
               number : Nat, stale : SUBSET {"order", "number"}]
    BY <1>1, <1>12, <2>1 DEF TypeOK, InFlight, Call
  <2>3. PICK stale : stale = d.stale \cup (IF d.order = f THEN {"order"} ELSE {})
                                \cup (IF Upstream(d.order) = u THEN {"number"} ELSE {})
    OBVIOUS
  <2>4. stale \in SUBSET {"order", "number"}
    BY <2>2, <2>3
  <2>5. session'[t] = [d EXCEPT !.stale = stale]
    BY <1>11, <1>12, <2>1, <2>3
  <2>6. /\ [d EXCEPT !.stale = stale]
             \in [kind : {"award"}, order : 1..MaxOrders, types : [Account -> AgentType \cup {NULL}],
                  number : Nat, stale : SUBSET {"order", "number"}]
        /\ [d EXCEPT !.stale = stale].stale = stale /\ [d EXCEPT !.stale = stale].order = d.order
        /\ [d EXCEPT !.stale = stale].number = d.number /\ [d EXCEPT !.stale = stale].types = d.types
        /\ [d EXCEPT !.stale = stale].kind = "award"
    BY <2>2, <2>4
  <2>7. session'[t] \in Call
    BY <2>5, <2>6 DEF Call
  <2> QED
    BY <2>1, <2>3, <2>5, <2>6, <2>7
<1>13. TypeOK'
  <2>1. session' \in [Session -> Call \cup {NULL}]
    <3>1. \A t \in Session : session'[t] \in Call \cup {NULL}
      BY <1>1, <1>11, <1>12 DEF TypeOK
    <3> QED
      BY <1>4, <3>1
  <2>2. account' \in [Account -> AccountRow \cup {NULL}]
    BY <1>6 DEF AccountServed
  <2>3. franchiseorder' \in Seq(OrderRow) /\ Len(franchiseorder') <= MaxOrders
    BY <1>1, <1>5 DEF OrderSettled, TypeOK
  <2>4. triplecycle' \in [Account -> Seq(TripleRow)]
    BY <1>7 DEF CycleGoesOn
  <2>5. raced' \subseteq {"order", "number", "pending"} \X (1..MaxOrders \cup Account \cup {HeadQuarter})
    BY <1>8 DEF RacedBy
  <2> QED
    BY <1>1, <1>4, <1>9, <1>10, <2>1, <2>2, <2>3, <2>4, <2>5 DEF TypeOK
<1>14. TreeInv'
  BY <1>1, <1>2, <1>4, <1>5, <1>6, <1>8, <1>13, TreeAfterApproval
<1>15. CallsRead'
  <2> SUFFICES ASSUME NEW t \in Session
               PROVE  /\ InFlight(t, "award")' => AwardRead(session[t])'
                      /\ InFlight(t, "upgrade")' => UpgradeRead(session[t])'
    BY DEF CallsRead
  <2>1. PICK d : d = session[t]
    OBVIOUS
  <2>2. PICK e : e = session'[t]
    OBVIOUS
  <2>3. ASSUME InFlight(t, "award")' PROVE AwardRead(e)'
    <3>1. t # s /\ e # NULL /\ e.kind = "award"
      BY <1>11, <2>2, <2>3 DEF InFlight
    <3>2. InFlight(t, "award")
      BY <1>11, <2>2, <3>1 DEF InFlight
    <3>3. AwardRead(d)
      BY <1>1, <2>1, <3>2 DEF CallsRead
    <3>4. /\ e.order = d.order /\ e.number = d.number /\ e.types = d.types
          /\ e.stale = d.stale \cup (IF d.order = f THEN {"order"} ELSE {})
                               \cup (IF Upstream(d.order) = u THEN {"number"} ELSE {})
      BY <1>12, <2>1, <2>2, <3>1, <3>2
    <3> QED
      BY <1>2, <1>4, <1>5, <1>6, <1>7, <3>3, <3>4, CallsAfterApproval
  <2>4. ASSUME InFlight(t, "upgrade")' PROVE UpgradeRead(e)'
    <3>1. t # s /\ e # NULL /\ e.kind = "upgrade"
      BY <1>11, <2>2, <2>4 DEF InFlight
    <3>2. ~ InFlight(t, "award")
      BY <1>12, <2>2, <3>1
    <3>3. e = d /\ InFlight(t, "upgrade")
      BY <1>11, <2>1, <2>2, <3>1, <3>2 DEF InFlight
    <3>4. UpgradeRead(d)
      BY <1>1, <2>1, <3>3 DEF CallsRead
    <3> QED
      BY <1>2, <1>4, <1>5, <1>6, <1>7, <3>3, <3>4, CallsAfterApproval
  <2> QED
    BY <2>2, <2>3, <2>4 DEF AwardRead, UpgradeRead
<1>16. EditorLoaded'
  BY <1>4, <1>6 DEF IInv, EditorLoaded, AccountServed
<1>17. RowsPlaced' /\ TripleInOrder'
  BY <1>2, <1>5, <1>7, <1>8, RowsAfterApproval
<1>18. AwardedOnce'
  BY <1>2, <1>5, <1>6, <1>7, <1>8, AwardsAfterApproval
<1> QED
  BY <1>9, <1>14, <1>15, <1>16, <1>17, <1>18 DEF IInv

------------------------------------------------------------------------------
(* Theorems.                                                               *)

LEMMA StutterIInv == ASSUME IInv, UNCHANGED vars PROVE IInv'
<1>1. /\ UNCHANGED <<account, franchiseorder, triplecycle, extended, byhand, raced>>
      /\ UNCHANGED <<awarded, session, editor, edits>>
  BY DEF vars
<1>2. TypeOK'
  BY <1>1 DEF IInv, TreeInv, TypeOK
<1>3. AccountsChange
  BY <1>1, OnlyRead
<1>4. EditorLoaded'
  BY <1>1 DEF IInv, EditorLoaded, Registered
<1>5. CallsRead'
  BY <1>1, <1>2, <1>3, BooksOnAccounts DEF IInv, CallsRead, InFlight
<1> QED
  BY <1>2, <1>3, <1>4, <1>5, TreeOnAccounts, BooksOnAccounts DEF IInv

LEMMA StepIInv == ASSUME IInv, [Next]_vars PROVE IInv'
<1>1. CASE UNCHANGED vars
  BY <1>1, StutterIInv
<1>2. ASSUME NEW a \in Account, NEW u \in Account \cup {HeadQuarter}, NEW type \in Invited, Register(a, u, type)
      PROVE  IInv'
  BY <1>2, RegisterIInv
<1>3. ASSUME NEW a \in Account, NEW partition \in Accountpartition, UpdateAgentPartition(a, partition)
      PROVE  IInv'
  BY <1>3, UpdateAgentPartitionIInv
<1>4. ASSUME NEW a \in Account, NEW s \in Session, NEW target \in Offered, UpdateAgentTargettype(s, a, target)
      PROVE  IInv'
  BY <1>4, UpdateAgentTargettypeIInv
<1>5. ASSUME NEW a \in Account, OpenEditor(a) PROVE IInv'
  BY <1>5, OpenEditorIInv
<1>6. ASSUME NEW s \in Session, InsertUpgrade(s) PROVE IInv'
  BY <1>6, InsertUpgradeIInv
<1>7. ASSUME NEW s \in Session, Distribute(s) PROVE IInv'
  BY <1>7, DistributeIInv
<1>8. ASSUME NEW s \in Session, NEW f \in Order, AssignAgentAward(s, f) PROVE IInv'
  BY <1>8, AssignAgentAwardIInv
<1>9. ASSUME editor # NULL, NEW type \in Offered \cup {editor.row.type},
             NEW status \in {"ACTIVE", "CLOSED", editor.row.status}, UpdateAgentByHQ(type, status)
      PROVE  IInv'
  BY <1>9, UpdateAgentByHQIInv
<1> QED
  BY <1>1, <1>2, <1>3, <1>4, <1>5, <1>6, <1>7, <1>8, <1>9 DEF Next

\* The inductive invariant holds in every state: what a call of assign_award or of
\* check_pending_status has read without locks is still so when it writes, or the overlap
\* that made it untrue is noted in raced.
THEOREM GrowthInvariant == Spec => []IInv
<1>1. Init => IInv
  BY InitIInv
<1>2. IInv /\ [Next]_vars => IInv'
  BY StepIInv
<1> QED
  BY <1>1, <1>2, PTL DEF Spec

\* An approval books the triple cycle and the extension awards of its order once, under the
\* next number and on the side the order lies on, however assign_award's reads and writes
\* interleave, unless two approvals of the order or below the same agent overlapped.
THEOREM AwardsStaySound == Spec => []AwardsSound
<1>1. ASSUME IInv PROVE ExtensionSides
  <2>1. TypeOK /\ ExtendedBySide
    BY <1>1 DEF IInv, TreeInv
  <2> SUFFICES ASSUME NEW f \in Order, NEW p \in Account \X Accountpartition, extended[f][p] > 0
               PROVE  /\ \E n \in 3 .. ExtensionLevel + 2 :
                            /\ Chain(franchiseorder[f].accountid)[n] = p[1]
                            /\ account[Chain(franchiseorder[f].accountid)[n - 1]].partition = p[2]
                      /\ <<"order", f>> \notin raced => extended[f][p] = Extension[franchiseorder[f].targettype]
    BY DEF ExtensionSides
  <2>2. OnSideOf(f, p)
    BY <2>1 DEF ExtendedBySide
  <2>3. <<"order", f>> \notin raced => extended[f][p] = Extension[franchiseorder[f].targettype]
    BY <2>1 DEF ExtendedBySide
  <2> QED
    BY <2>2, <2>3 DEF OnSideOf
<1>2. IInv => AwardsSound
  BY <1>1 DEF IInv, AwardsSound
<1> QED
  BY <1>2, GrowthInvariant, PTL

\* Whatever registrations, approvals, upgrades, choices of sides and saves of the editor are
\* taken in whatever order, assign_award finds an activated agent with a side at every step of
\* the chain, and an agent that nobody edited has the status and the type of its orders.
THEOREM TreeStaysConsistent == Spec => []Consistent
<1>1. ASSUME IInv PROVE NoInitAbove /\ PartitionedAbove
  <2>1. TypeOK /\ Rooted
    BY <1>1 DEF IInv, TreeInv
  <2>2. ASSUME NEW a \in Account, account[a] # NULL, NEW u \in Above(a)
        PROVE  account[u].status # "INIT" /\ Partitioned(u)
    <3>1. a \in Registered
      BY <2>2 DEF Registered
    <3>2. PICK n \in AgentRows(a) : u = Chain(a)[n]
      BY <2>2 DEF Above
    <3> QED
      BY <2>1, <3>1, <3>2, AboveSound
  <2> QED
    BY <2>2 DEF NoInitAbove, PartitionedAbove
<1>2. ASSUME IInv PROVE PendingSettleable
  <2>1. StatusByOrders /\ Placed
    BY <1>2 DEF IInv, TreeInv
  <2>2. ASSUME NEW a \in Account, NEW f \in Pending(a)
        PROVE  a \in Registered /\ f \in OrdersOf(a) /\ franchiseorder[f].status = "pending"
    BY <2>1 DEF Placed, Pending, OrdersOf
  <2> QED
    BY <2>1, <2>2 DEF PendingSettleable, StatusByOrders
<1>3. ASSUME IInv PROVE TypeFollowsOrders
  <2>1. TypeOK /\ TypeByOrders
    BY <1>3 DEF IInv, TreeInv
  <2> SUFFICES ASSUME NEW a \in Account, Paid(a) # {}, <<"type", a>> \notin byhand, <<"pending", a>> \notin raced,
                      \A f \in OrdersOf(a) : <<"order", f>> \notin raced
               PROVE  account[a].type = franchiseorder[Max(Paid(a))].targettype
    BY DEF TypeFollowsOrders, Paid, OrdersOf
  <2>2. Len(franchiseorder) \in Nat /\ Paid(a) \in SUBSET Nat /\ \A f \in Paid(a) : f <= Len(franchiseorder)
    BY <2>1, OrderRows DEF Paid, OrdersOf
  <2>3. Max(Paid(a)) \in Paid(a) /\ \A f \in Paid(a) : f <= Max(Paid(a))
    BY <2>2, MaxOfBounded
  <2> QED
    BY <2>1, <2>3 DEF TypeByOrders
<1>4. IInv => Consistent
  BY <1>1, <1>2, <1>3 DEF IInv, TreeInv, Consistent
<1> QED
  BY <1>4, GrowthInvariant, PTL

------------------------------------------------------------------------------
(* Nobody is above itself.                                                 *)

Acyclic ==
    \E depth \in [Account -> Nat] : \A a \in Registered :
        account[a].upstream # HeadQuarter => depth[account[a].upstream] < depth[a]

\* A step moves nobody in the tree, and registers one account at most.
LEMMA NobodyMoves ==
    ASSUME IInv, [Next]_vars
    PROVE  \/ \E a \in Account, u \in Account \cup {HeadQuarter}, type \in Invited : Register(a, u, type)
           \/ Registered' = Registered /\ \A a \in Registered : account'[a].upstream = account[a].upstream
<1> DEFINE Stay == Registered' = Registered /\ \A a \in Registered : account'[a].upstream = account[a].upstream
<1>1. TypeOK
  BY DEF IInv, TreeInv
<1>2. ASSUME UNCHANGED account PROVE Stay
  BY <1>2 DEF Registered
<1>3. ASSUME NEW a \in Registered, NEW row \in AccountRow, row.upstream = account[a].upstream,
             account' = [account EXCEPT ![a] = row]
      PROVE  Stay
  <2>1. a \in Account /\ account[a] # NULL /\ row # NULL /\ account \in [Account -> AccountRow \cup {NULL}]
    BY <1>1, FranchiseAssumption DEF Registered, TypeOK
  <2>2. account'[a] = row /\ \A x \in Account : x # a => account'[x] = account[x]
    BY <1>3, <2>1
  <2> QED
    BY <1>3, <2>1, <2>2 DEF Registered
<1>4. ASSUME NEW a \in Account, NEW partition \in Accountpartition, UpdateAgentPartition(a, partition)
      PROVE  Stay
  <2>1. a \in Registered /\ account[a] \in AccountRow /\ account' = [account EXCEPT ![a].partition = partition]
    BY <1>1, <1>4 DEF UpdateAgentPartition, Registered, TypeOK
  <2>2. PICK row : row = [account[a] EXCEPT !.partition = partition]
    OBVIOUS
  <2>3. row \in AccountRow /\ row.upstream = account[a].upstream /\ account' = [account EXCEPT ![a] = row]
    BY <2>1, <2>2 DEF AccountRow
  <2> QED
    BY <1>3, <2>1, <2>3
<1>5. ASSUME NEW s \in Session, Distribute(s) PROVE Stay
  <2>1. InFlight(s, "award")
    BY <1>5 DEF Distribute
  <2>2. PICK c, f, a, u : Approves(s, c, f, a, u)
    BY <2>1, WhoApproves
  <2>3. account' = Activated(f) /\ f \in Order /\ a \in Registered /\ a = franchiseorder[f].accountid
    BY <1>5, <2>2 DEF Distribute, Approves
  <2>4. AccountServed(f, a)
    BY <1>1, <2>3, AccountServes
  <2> QED
    BY <2>4 DEF AccountServed
<1>6. ASSUME editor # NULL, NEW type \in Offered \cup {editor.row.type},
             NEW status \in {"ACTIVE", "CLOSED", editor.row.status}, UpdateAgentByHQ(type, status)
      PROVE  Stay
  <2>1. PICK a : a = editor.accountid
    OBVIOUS
  <2>2. a \in Registered /\ account[a] \in AccountRow
    BY <1>1, <1>6, <2>1, RegisteredRows DEF IInv, EditorLoaded
  <2>3. type \in AgentType /\ status \in Accountstatus
    <3>1. editor.row \in AccountRow
      BY <1>1, <1>6 DEF TypeOK
    <3> QED
      BY <3>1, FranchiseAssumption DEF AccountRow, Accountstatus
  <2>4. PICK row : row = [account[a] EXCEPT !.type = type, !.status = status]
    OBVIOUS
  <2>5. row \in AccountRow /\ row.upstream = account[a].upstream
    BY <2>2, <2>3, <2>4 DEF AccountRow
  <2>6. account' = [account EXCEPT ![a] = row]
    BY <1>6, <2>1, <2>4 DEF UpdateAgentByHQ
  <2> QED
    BY <1>3, <2>2, <2>5, <2>6
<1> HIDE DEF Stay
<1>7. ASSUME NEW a \in Account, NEW s \in Session, NEW target \in Offered, UpdateAgentTargettype(s, a, target)
      PROVE  Stay
  BY <1>2, <1>7 DEF UpdateAgentTargettype
<1>8. ASSUME NEW a \in Account, OpenEditor(a) PROVE Stay
  BY <1>2, <1>8 DEF OpenEditor
<1>9. ASSUME NEW s \in Session, InsertUpgrade(s) PROVE Stay
  BY <1>2, <1>9 DEF InsertUpgrade
<1>10. ASSUME NEW s \in Session, NEW f \in Order, AssignAgentAward(s, f) PROVE Stay
  BY <1>2, <1>10 DEF AssignAgentAward
<1>11. ASSUME UNCHANGED vars PROVE Stay
  BY <1>2, <1>11 DEF vars
<1> QED
  BY <1>4, <1>5, <1>6, <1>7, <1>8, <1>9, <1>10, <1>11 DEF Next, Stay

LEMMA AcyclicKept == ASSUME IInv, Acyclic, [Next]_vars PROVE Acyclic'
<1>1. TypeOK /\ Rooted
  BY DEF IInv, TreeInv
<1>2. PICK depth \in [Account -> Nat] : \A a \in Registered :
         account[a].upstream # HeadQuarter => depth[account[a].upstream] < depth[a]
  BY DEF Acyclic
<1>3. CASE Registered' = Registered /\ \A a \in Registered : account'[a].upstream = account[a].upstream
  BY <1>2, <1>3 DEF Acyclic
<1>4. ASSUME NEW a \in Account, NEW u \in Account \cup {HeadQuarter}, NEW type \in Invited, Register(a, u, type)
      PROVE  Acyclic'
  <2>1. /\ a \notin Registered /\ (u # HeadQuarter => u \in Registered)
        /\ account' = [account EXCEPT ![a] =
               [type |-> type, status |-> "INIT", partition |-> NULL, upstream |-> u]]
    BY <1>4 DEF Register, MayRegister, Registered
  <2>2. /\ account'[a].upstream = u /\ \A x \in Account : x # a => account'[x] = account[x]
    BY <1>1, <2>1 DEF TypeOK
  <2>3. PICK top \in Nat : u # HeadQuarter => depth[u] < top
    <3>1. CASE u = HeadQuarter
      BY <3>1
    <3>2. CASE u # HeadQuarter
      <4>1. depth[u] \in Nat
        BY <1>2, <3>2
      <4>2. depth[u] + 1 \in Nat /\ depth[u] < depth[u] + 1
        BY <4>1
      <4> QED
        BY <4>2
    <3> QED
      BY <3>1, <3>2
  <2>4. PICK deeper : deeper = [depth EXCEPT ![a] = top]
    OBVIOUS
  <2>5. deeper \in [Account -> Nat] /\ deeper[a] = top /\ \A x \in Account : x # a => deeper[x] = depth[x]
    BY <1>2, <2>3, <2>4
  <2>6. ASSUME NEW x \in Registered', account'[x].upstream # HeadQuarter
        PROVE  deeper[account'[x].upstream] < deeper[x]
    <3>1. CASE x = a
      <4>1. u # HeadQuarter /\ u \in Account /\ u # a
        BY <2>1, <2>2, <2>6, <3>1 DEF Registered
      <4> QED
        BY <2>2, <2>3, <2>5, <3>1, <4>1
    <3>2. CASE x # a
      <4>1. x \in Account /\ x \in Registered /\ account'[x] = account[x]
        BY <2>2, <3>2 DEF Registered
      <4>2. account[x].upstream \in Registered /\ account[x].upstream # a /\ account[x].upstream \in Account
        BY <1>1, <2>1, <2>6, <4>1 DEF Rooted, Registered
      <4> QED
        BY <1>2, <2>5, <2>6, <3>2, <4>1, <4>2
    <3> QED
      BY <3>1, <3>2
  <2> QED
    BY <2>5, <2>6 DEF Acyclic
<1> QED
  BY <1>3, <1>4, NobodyMoves

LEMMA AcyclicInit == Init => Acyclic
<1> SUFFICES ASSUME Init PROVE Acyclic
  OBVIOUS
<1>1. PICK depth \in [Account -> 0 .. Cardinality(Account)] :
        \A a \in Account : (Opening[a] # NULL /\ Opening[a].upstream # HeadQuarter)
            => depth[Opening[a].upstream] < depth[a]
  BY OpeningAssumption
<1>2. depth \in [Account -> Nat]
  <2>1. Cardinality(Account) \in Nat
    BY FranchiseAssumption, FS_CardinalityType
  <2> QED
    BY <1>1, <2>1
<1> QED
  BY <1>1, <1>2 DEF Init, Acyclic, Registered

\* No account is in a chain twice.
LEMMA ChainInjective ==
    ASSUME TypeOK, Rooted, Acyclic, NEW a \in Registered, NEW m \in 1 .. Height, NEW n \in 1 .. Height, m < n,
           Chain(a)[n] \in Account
    PROVE  Chain(a)[m] # Chain(a)[n]
<1>1. PICK depth \in [Account -> Nat] : \A x \in Registered :
         account[x].upstream # HeadQuarter => depth[account[x].upstream] < depth[x]
  BY DEF Acyclic
<1>2. PICK row : row = Chain(a)
  OBVIOUS
<1>3. /\ row \in [1 .. Height -> Registered \cup {HeadQuarter, NULL}]
      /\ \A k \in 2 .. Height : row[k] = IF row[k - 1] \in Account THEN account[row[k - 1]].upstream ELSE NULL
  BY <1>2, ChainOf
<1>4. Height \in Nat /\ Height > 1 /\ Registered \subseteq Account
  BY HeightNat DEF Registered
<1> DEFINE S == {k \in 1 .. Height : k <= m \/ row[k] \notin Account
                                      \/ (row[m] \in Account /\ depth[row[k]] < depth[row[m]])}
<1>5. 1 \in S
  BY <1>4
<1>6. ASSUME NEW k \in 1 .. Height - 1, k \in S PROVE k + 1 \in S
  <2>1. k + 1 \in 2 .. Height /\ k + 1 \in 1 .. Height /\ (k + 1) - 1 = k /\ k \in 1 .. Height
    BY <1>4
  <2>2. SUFFICES ASSUME ~ (k + 1 <= m), row[k + 1] \in Account
               PROVE  row[m] \in Account /\ depth[row[k + 1]] < depth[row[m]]
    BY <2>1
  <2>3. row[k + 1] = IF row[k] \in Account THEN account[row[k]].upstream ELSE NULL
    BY <1>3, <2>1
  <2>4. row[k] \in Account /\ row[k + 1] = account[row[k]].upstream
    BY <2>2, <2>3, FranchiseAssumption
  <2>5. row[k] \in Registered /\ row[k + 1] # HeadQuarter
    <3>1. row[k] \in Registered \cup {HeadQuarter, NULL}
      BY <1>3, <2>1
    <3> QED
      BY <2>2, <2>4, <3>1, FranchiseAssumption
  <2>6. depth[row[k + 1]] < depth[row[k]] /\ depth[row[k + 1]] \in Nat /\ depth[row[k]] \in Nat
    BY <1>1, <2>2, <2>4, <2>5
  <2>7. CASE k <= m
    <3>1. k = m
      BY <2>2, <2>7
    <3> QED
      BY <2>4, <2>6, <3>1
  <2>8. CASE ~ (k <= m)
    <3>1. row[m] \in Account /\ depth[row[k]] < depth[row[m]]
      BY <1>6, <2>4, <2>8
    <3>2. depth[row[m]] \in Nat
      BY <1>1, <3>1
    <3> QED
      BY <2>6, <3>1, <3>2
  <2> QED
    BY <2>7, <2>8
<1>7. n \in S
  <2>1. 1 .. Height \subseteq S
    <3> HIDE DEF S
    <3> QED
      BY <1>4, <1>5, <1>6, RowInduction
  <2> QED
    BY <2>1
<1>8. depth[row[n]] < depth[row[m]] /\ depth[row[n]] \in Nat
  BY <1>1, <1>2, <1>7
<1> QED
  BY <1>2, <1>8

------------------------------------------------------------------------------
(* What an approval pays (AwardsTelescope).                                *)

LEMMA LayerInjective == \A t, v \in AgentType : Layer(t) = Layer(v) => t = v
BY DEF AgentType, Layer

\* The rows of agents up to row m, and the highest layer and the award of it among them.
RowsTo(rows, m) == {n \in rows : n <= m}

PaidTo(f, types, chain, rows, loop, m) ==
    /\ SumFunctionOnSet(AwardsOf(loop, chain, rows), {chain[n] : n \in RowsTo(rows, m)}) = loop[m].paid
    /\ \A n \in RowsTo(rows, m) : Layer(types[chain[n]]) <= loop[m].layer
    /\ \/ RowsTo(rows, m) = {} /\ loop[m].layer = 0 /\ loop[m].paid = 0
       \/ \E n \in RowsTo(rows, m) :
             /\ loop[m].layer = Layer(types[chain[n]])
             /\ loop[m].paid = DirectAward[<<types[chain[n]], franchiseorder[f].targettype>>]

LEMMA PaidOneMore ==
    ASSUME TypeOK, NEW f \in Order, NEW types, NEW chain, NEW loop, NEW rows,
           Follows(loop, Height, LoopRow, NoneYet, LoopStep(f, types, chain)),
           \A n \in 2 .. Height : chain[n] \in Account => types[chain[n]] \in AgentType,
           rows = {n \in 2 .. Height - 1 : chain[n] \in Account},
           \A m, n \in rows : chain[m] = chain[n] => m = n,
           NEW m \in 1 .. Height - 2, PaidTo(f, types, chain, rows, loop, m)
    PROVE  PaidTo(f, types, chain, rows, loop, m + 1)
<1> DEFINE x == loop[m]
           y == loop[m + 1]
           b == chain[m + 1]
           due == DirectAward[<<types[b], franchiseorder[f].targettype>>]
           award == AwardsOf(loop, chain, rows)
           T == {chain[n] : n \in RowsTo(rows, m)}
           U == {chain[n] : n \in RowsTo(rows, m + 1)}
<1>1. /\ Height \in Nat /\ m + 1 \in 2 .. Height /\ m + 1 \in 2 .. Height - 1 /\ (m + 1) - 1 = m
      /\ m \in 1 .. Height /\ m + 1 \in 1 .. Height
  BY HeightNat
<1>2. /\ loop \in [1 .. Height -> LoopRow] /\ loop[1] = NoneYet
      /\ y = LoopStep(f, types, chain)[<<m + 1, x>>]
  BY <1>1 DEF Follows
<1>3. x \in LoopRow /\ y \in LoopRow
  BY <1>1, <1>2
<1>4. /\ x.layer \in 0 .. 3 /\ x.paid \in Nat /\ y.paid \in Nat /\ y.award \in Int
  BY <1>3 DEF LoopRow
<1>5. y = IF b \in Account /\ (m + 1 = 2 \/ Layer(types[b]) > x.layer)
          THEN [layer |-> Layer(types[b]), paid |-> due, award |-> due - x.paid]
          ELSE [x EXCEPT !.award = 0]
  BY <1>1, <1>2, <1>3 DEF LoopStep
<1>6. b \in Account => types[b] \in AgentType /\ Layer(types[b]) \in 1 .. 3
  BY <1>1, LayerIs
<1>7. /\ SumFunctionOnSet(award, T) = x.paid
      /\ \A n \in RowsTo(rows, m) : Layer(types[chain[n]]) <= x.layer
      /\ \/ RowsTo(rows, m) = {} /\ x.layer = 0 /\ x.paid = 0
         \/ \E n \in RowsTo(rows, m) :
               /\ x.layer = Layer(types[chain[n]])
               /\ x.paid = DirectAward[<<types[chain[n]], franchiseorder[f].targettype>>]
  BY DEF PaidTo
<1>8. RowsTo(rows, m + 1) = RowsTo(rows, m) \cup (IF b \in Account THEN {m + 1} ELSE {})
  <2>1. rows \subseteq Int
    OBVIOUS
  <2>2. m + 1 \in rows <=> b \in Account
    BY <1>1
  <2>3. \A n \in rows : n <= m + 1 <=> n <= m \/ n = m + 1
    BY <1>1, <2>1
  <2> QED
    BY <1>1, <2>2, <2>3 DEF RowsTo
<1>9. \A n \in RowsTo(rows, m) : n \in rows /\ n # m + 1
  BY <1>1 DEF RowsTo
<1> HIDE DEF x, y, b, due
<1>10. CASE b \notin Account
  <2>1. y.layer = x.layer /\ y.paid = x.paid
    BY <1>3, <1>5, <1>10 DEF LoopRow
  <2>2. RowsTo(rows, m + 1) = RowsTo(rows, m)
    BY <1>8, <1>10
  <2> HIDE DEF award
  <2> QED
    BY <1>7, <2>1, <2>2 DEF PaidTo, y, award
<1>11. CASE b \in Account
  <2>1. m + 1 \in RowsTo(rows, m + 1) /\ m + 1 \in rows
    BY <1>8, <1>11 DEF RowsTo
  <2>2. U = T \cup {b} /\ b \notin T
    <3>1. U = T \cup {b}
      BY <1>8, <1>11 DEF b
    <3>2. b \notin T
      BY <1>9, <2>1 DEF b
    <3> QED
      BY <3>1, <3>2
  <2>3. award[b] = y.award
    <3>1. b = chain[m + 1]
      BY DEF b
    <3>2. (CHOOSE n \in rows : chain[n] = b) = m + 1
      BY <2>1, <3>1
    <3>3. award[b] = loop[CHOOSE n \in rows : chain[n] = b].award
      BY <1>11, <2>1, <3>1 DEF AwardsOf
    <3> QED
      BY <3>2, <3>3 DEF y
  <2>4. SumFunctionOnSet(award, U) = y.award + x.paid
    <3>1. IsFiniteSet(T) /\ \A z \in T : award[z] \in Int
      <4>1. IsFiniteSet(RowsTo(rows, m))
        <5>1. IsFiniteSet(2 .. Height - 1)
          BY <1>1, FS_Interval
        <5>2. RowsTo(rows, m) \subseteq 2 .. Height - 1
          BY DEF RowsTo
        <5> QED
          BY <5>1, <5>2, FS_Subset
      <4>2. IsFiniteSet(T)
        <5>1. PICK R : R = RowsTo(rows, m)
          OBVIOUS
        <5>2. IsFiniteSet(R)
          BY <4>1, <5>1
        <5>3. IsFiniteSet({chain[n] : n \in R})
          <6> HIDE DEF award, T, U
          <6> QED
            BY ONLY <5>2, ImageFinite
        <5>4. T = {chain[n] : n \in R}
          BY <5>1
        <5> QED
          BY <5>3, <5>4
      <4>3. ASSUME NEW n \in RowsTo(rows, m) PROVE award[chain[n]] \in Int
        <5>1. n \in rows /\ chain[n] \in Account /\ n \in 1 .. Height
          BY <1>1, <1>9
        <5>2. (CHOOSE k \in rows : chain[k] = chain[n]) = n
          BY <5>1
        <5>3. award[chain[n]] = loop[n].award
          BY <5>1, <5>2 DEF AwardsOf
        <5>4. loop[n] \in LoopRow
          BY <1>2, <5>1
        <5> QED
          BY <5>3, <5>4 DEF LoopRow
      <4> QED
        BY <4>2, <4>3
    <3>2. award[b] \in Int
      BY <1>4, <2>3
    <3> HIDE DEF award, T, U
    <3>3. SumFunctionOnSet(award, T \cup {b}) = award[b] + SumFunctionOnSet(award, T)
      BY <2>2, <3>1, <3>2, SumInsert
    <3> QED
      BY <1>7, <2>2, <2>3, <3>3
  <2>5. CASE m + 1 = 2 \/ Layer(types[b]) > x.layer
    <3>1. y.layer = Layer(types[b]) /\ y.paid = due /\ y.award = due - x.paid
      BY <1>5, <1>11, <2>5
    <3>2. y.award + x.paid = y.paid
      BY <1>4, <3>1
    <3>3. \A n \in RowsTo(rows, m + 1) : Layer(types[chain[n]]) <= y.layer
      <4>1. ASSUME NEW n \in RowsTo(rows, m) PROVE Layer(types[chain[n]]) <= y.layer
        <5>1. n \in 2 .. Height /\ chain[n] \in Account /\ n <= m /\ n \in Int
          BY <1>1, <1>9 DEF RowsTo
        <5>2. Layer(types[chain[n]]) \in 1 .. 3
          BY <5>1, LayerIs
        <5>3. m + 1 # 2
          BY <1>1, <5>1
        <5> QED
          BY <1>4, <1>6, <1>7, <1>11, <2>5, <3>1, <5>2, <5>3
      <4> QED
        BY <1>6, <1>8, <1>11, <3>1, <4>1 DEF b
    <3>4. /\ y.layer = Layer(types[chain[m + 1]])
          /\ y.paid = DirectAward[<<types[chain[m + 1]], franchiseorder[f].targettype>>]
      BY <3>1 DEF b, due
    <3> HIDE DEF award
    <3> QED
      BY <2>1, <2>4, <3>2, <3>3, <3>4 DEF PaidTo, y, award
  <2>6. CASE ~ (m + 1 = 2 \/ Layer(types[b]) > x.layer)
    <3>1. y.layer = x.layer /\ y.paid = x.paid /\ y.award = 0
      BY <1>3, <1>5, <2>6 DEF LoopRow
    <3>2. y.award + x.paid = y.paid
      BY <1>4, <3>1
    <3>3. Layer(types[b]) <= x.layer /\ x.layer # 0
      BY <1>4, <1>6, <1>11, <2>6
    <3>4. \A n \in RowsTo(rows, m + 1) : Layer(types[chain[n]]) <= y.layer
      BY <1>7, <1>8, <1>11, <3>1, <3>3 DEF b
    <3>5. \E n \in RowsTo(rows, m + 1) :
             /\ y.layer = Layer(types[chain[n]])
             /\ y.paid = DirectAward[<<types[chain[n]], franchiseorder[f].targettype>>]
      BY <1>7, <1>8, <3>1, <3>3
    <3> HIDE DEF award
    <3> QED
      BY <2>4, <3>2, <3>4, <3>5 DEF PaidTo, y, award
  <2> QED
    BY <2>5, <2>6
<1> QED
  BY <1>10, <1>11

LEMMA PaidInAll ==
    ASSUME TypeOK, Rooted, Acyclic, NEW f \in Order, NEW types, NEW a \in Registered,
           a = franchiseorder[f].accountid,
           \A n \in 2 .. Height : Chain(a)[n] \in Account => types[Chain(a)[n]] \in AgentType
    PROVE  LET pays == SumFunctionOnSet(DirectAwards(f, types), Account) IN
           /\ DirectAwards(f, types) \in [Account -> Int]
           /\ Above(a) = {} => pays = 0
           /\ \A b \in Above(a) :
                 (\A d \in Above(a) : Layer(types[d]) <= Layer(types[b]))
                 => pays = DirectAward[<<types[b], franchiseorder[f].targettype>>]
<1>1. PICK chain : chain = Chain(a)
  OBVIOUS
<1>2. PICK rows : rows = AgentRows(a)
  OBVIOUS
<1>3. Height \in Nat /\ Height > 1 /\ Cardinality(Account) \in Nat /\ Height = Cardinality(Account) + 2
  BY HeightNat, FranchiseAssumption, FS_CardinalityType DEF Height
<1>4. /\ chain \in [1 .. Height -> Registered \cup {HeadQuarter, NULL}] /\ DOMAIN chain = 1 .. Height
      /\ chain = Chain(franchiseorder[f].accountid) /\ rows = AgentRows(franchiseorder[f].accountid)
      /\ \A n \in 2 .. Height : chain[n] \in Account => types[chain[n]] \in AgentType
  <2>1. chain \in [1 .. Height -> Registered \cup {HeadQuarter, NULL}]
    BY <1>1, ChainOf
  <2>2. DOMAIN chain = 1 .. Height
    BY <2>1
  <2> QED
    BY <1>1, <1>2, <2>1, <2>2
<1>5. rows = {n \in 2 .. Height - 1 : chain[n] \in Account}
  <2>1. Height - 1 = Cardinality(Account) + 1
    BY <1>3
  <2> QED
    BY <1>1, <1>2, <2>1 DEF AgentRows
<1>6. \A m, n \in rows : chain[m] = chain[n] => m = n
  <2>1. ASSUME NEW m \in rows, NEW n \in rows, m < n PROVE chain[m] # chain[n]
    <3>1. m \in 1 .. Height /\ n \in 1 .. Height /\ Chain(a)[n] \in Account
      BY <1>1, <1>3, <1>5
    <3> QED
      BY <1>1, <2>1, <3>1, ChainInjective
  <2>2. \A m, n \in rows : m = n \/ m < n \/ n < m
    BY <1>3, <1>5
  <2> QED
    BY <2>1, <2>2
<1>7. PICK loop : /\ Follows(loop, Height, LoopRow, NoneYet, LoopStep(f, types, chain))
                  /\ DirectAwards(f, types) = AwardsOf(loop, chain, rows)
  BY <1>4, LoopRuns
<1>8. PICK award : award = AwardsOf(loop, chain, rows)
  OBVIOUS
<1>9. award \in [Account -> Int]
  BY <1>4, <1>7, <1>8, DirectTyped
<1> DEFINE S == {m \in 1 .. Height - 1 : PaidTo(f, types, chain, rows, loop, m)}
<1>10. 1 \in S
  <2>1. RowsTo(rows, 1) = {}
    BY <1>3, <1>5 DEF RowsTo
  <2>2. loop[1] = NoneYet
    BY <1>7 DEF Follows
  <2>3. loop[1].layer = 0 /\ loop[1].paid = 0
    BY <2>2 DEF NoneYet
  <2>4. {chain[n] : n \in RowsTo(rows, 1)} = {}
    BY <2>1
  <2>5. SumFunctionOnSet(AwardsOf(loop, chain, rows), {chain[n] : n \in RowsTo(rows, 1)}) = 0
    BY <2>4, SumEmpty
  <2> QED
    BY <1>3, <2>1, <2>3, <2>5 DEF PaidTo
<1>11. ASSUME NEW m \in 1 .. (Height - 1) - 1, m \in S PROVE m + 1 \in S
  <2>1. m \in 1 .. Height - 2 /\ m + 1 \in 1 .. Height - 1
    BY <1>3
  <2>2. PaidTo(f, types, chain, rows, loop, m + 1)
    BY <1>4, <1>5, <1>6, <1>7, <1>11, <2>1, PaidOneMore
  <2> QED
    BY <2>1, <2>2
<1>12. PICK top : top = Height - 1
  OBVIOUS
<1>13. PaidTo(f, types, chain, rows, loop, top)
  <2>1. Height - 1 \in Nat /\ Height - 1 \in 1 .. Height - 1
    BY <1>3
  <2>2. 1 .. Height - 1 \subseteq S
    <3> HIDE DEF S
    <3> QED
      BY <1>10, <1>11, <2>1, RowInduction
  <2> QED
    BY <1>12, <2>1, <2>2
<1>14. RowsTo(rows, top) = rows /\ Above(a) = {chain[n] : n \in rows}
  BY <1>1, <1>2, <1>3, <1>5, <1>12 DEF RowsTo, Above
<1>15. SumFunctionOnSet(award, Above(a)) = loop[top].paid
  BY <1>8, <1>13, <1>14 DEF PaidTo
<1>16. SumFunctionOnSet(award, Account) = loop[top].paid
  <2>1. Above(a) \subseteq Account /\ IsFiniteSet(Account) /\ \A x \in Account : award[x] \in Int
    BY <1>5, <1>9, <1>14, FranchiseAssumption
  <2>2. SumFunctionOnSet(award, Account)
          = SumFunctionOnSet(award, Above(a)) + SumFunctionOnSet(award, Account \ Above(a))
    BY <2>1, SumSplit
  <2>3. \A x \in Account \ Above(a) : award[x] = 0
    BY <1>8, <1>14 DEF AwardsOf
  <2>4. SumFunctionOnSet(award, Account \ Above(a)) = 0
    <3>1. IsFiniteSet(Account \ Above(a))
      BY <2>1, FS_Subset
    <3> QED
      BY <2>3, <3>1, SumZero
  <2>5. SumFunctionOnSet(award, Above(a)) \in Int
    <3>1. IsFiniteSet(Above(a))
      BY <2>1, FS_Subset
    <3> QED
      BY <2>1, <3>1, SumInt
  <2> QED
    BY <1>15, <2>2, <2>4, <2>5
<1>17. ASSUME NEW b \in Above(a), \A d \in Above(a) : Layer(types[d]) <= Layer(types[b])
       PROVE  loop[top].paid = DirectAward[<<types[b], franchiseorder[f].targettype>>]
  <2>1. PICK k \in rows : b = chain[k]
    BY <1>14
  <2>2. PICK n \in rows : /\ loop[top].layer = Layer(types[chain[n]])
                          /\ loop[top].paid = DirectAward[<<types[chain[n]], franchiseorder[f].targettype>>]
    BY <1>13, <1>14, <2>1 DEF PaidTo
  <2>3. Layer(types[b]) <= Layer(types[chain[n]])
    BY <1>13, <1>14, <2>1, <2>2 DEF PaidTo
  <2>4. Layer(types[chain[n]]) <= Layer(types[b])
    BY <1>14, <1>17
  <2>5. types[b] \in AgentType /\ types[chain[n]] \in AgentType
    <3>1. k \in 2 .. Height /\ n \in 2 .. Height /\ chain[k] \in Account /\ chain[n] \in Account
      BY <1>3, <1>5
    <3> QED
      BY <1>4, <2>1, <3>1
  <2>6. types[b] = types[chain[n]]
    <3>1. Layer(types[b]) \in 1 .. 3 /\ Layer(types[chain[n]]) \in 1 .. 3
      BY <2>5, LayerIs
    <3>2. Layer(types[b]) = Layer(types[chain[n]])
      BY <2>3, <2>4, <3>1
    <3> QED
      BY <2>5, <3>2, LayerInjective
  <2> QED
    BY <2>2, <2>6
<1>18. Above(a) = {} => loop[top].paid = 0
  BY <1>13, <1>14 DEF PaidTo
<1> QED
  BY <1>7, <1>8, <1>9, <1>16, <1>17, <1>18

\* An award call ends by its approval only.
LEMMA OnlyApprovalEnds ==
    ASSUME IInv, [Next]_vars, NEW s \in Session, InFlight(s, "award"), session'[s] = NULL
    PROVE  Distribute(s)
<1>1. TypeOK /\ session[s] # NULL /\ session[s].kind = "award"
  BY DEF IInv, TreeInv, InFlight
<1>2. ASSUME UNCHANGED session PROVE FALSE
  BY <1>1, <1>2
<1>3. ASSUME NEW a \in Account, NEW u \in Account \cup {HeadQuarter}, NEW type \in Invited, Register(a, u, type)
      PROVE  FALSE
  BY <1>2, <1>3 DEF Register
<1>4. ASSUME NEW a \in Account, NEW partition \in Accountpartition, UpdateAgentPartition(a, partition)
      PROVE  FALSE
  BY <1>2, <1>4 DEF UpdateAgentPartition
<1>5. ASSUME NEW a \in Account, OpenEditor(a) PROVE FALSE
  BY <1>2, <1>5 DEF OpenEditor
<1>6. ASSUME NEW type, NEW status, UpdateAgentByHQ(type, status) PROVE FALSE
  BY <1>2, <1>6 DEF UpdateAgentByHQ
<1>7. ASSUME NEW a \in Account, NEW t \in Session, NEW target \in Offered, UpdateAgentTargettype(t, a, target)
      PROVE  FALSE
  BY <1>1, <1>7 DEF UpdateAgentTargettype, TypeOK
<1>8. ASSUME NEW t \in Session, NEW f \in Order, AssignAgentAward(t, f) PROVE FALSE
  BY <1>1, <1>8 DEF AssignAgentAward, TypeOK
<1>9. ASSUME NEW t \in Session, InsertUpgrade(t) PROVE FALSE
  <2>1. s # t /\ ~ InFlight(s, "upgrade")
    BY <1>1, <1>9 DEF InsertUpgrade, InFlight
  <2>2. session'[s] = session[s]
    BY <1>9, <2>1 DEF InsertUpgrade, End
  <2> QED
    BY <1>1, <2>2
<1>10. ASSUME NEW t \in Session, t # s, Distribute(t) PROVE FALSE
  <2>1. PICK c, f, a, u : Approves(t, c, f, a, u)
    BY <1>10, WhoApproves DEF Distribute
  <2>2. session'[s] = [session[s] EXCEPT !.stale =
                           @ \cup (IF session[s].order = session[t].order THEN {"order"} ELSE {})
                             \cup (IF Upstream(session[s].order) = Upstream(session[t].order)
                                   THEN {"number"} ELSE {})]
    BY <1>10 DEF Distribute
  <2>3. PICK d : d = session[s]
    OBVIOUS
  <2>4. d \in [kind : {"award"}, order : 1..MaxOrders, types : [Account -> AgentType \cup {NULL}],
               number : Nat, stale : SUBSET {"order", "number"}]
    BY <1>1, <2>3 DEF TypeOK, InFlight, Call
  <2>5. \E stale \in SUBSET {"order", "number"} : session'[s] = [d EXCEPT !.stale = stale]
    <3>1. PICK stale : stale = d.stale \cup (IF session[s].order = session[t].order THEN {"order"} ELSE {})
                             \cup (IF Upstream(session[s].order) = Upstream(session[t].order)
                                   THEN {"number"} ELSE {})
      OBVIOUS
    <3>2. stale \in SUBSET {"order", "number"}
      BY <2>4, <3>1
    <3>3. session'[s] = [d EXCEPT !.stale = stale]
      BY <2>2, <2>3, <3>1
    <3> QED
      BY <3>2, <3>3
  <2>6. session'[s] \in [kind : {"award"}, order : 1..MaxOrders, types : [Account -> AgentType \cup {NULL}],
                         number : Nat, stale : SUBSET {"order", "number"}]
    BY <2>4, <2>5
  <2> QED
    BY <2>6, CallAssumption DEF Call
<1>11. ASSUME UNCHANGED vars PROVE FALSE
  BY <1>2, <1>11 DEF vars
<1> QED
  BY <1>3, <1>4, <1>5, <1>6, <1>7, <1>8, <1>9, <1>10, <1>11 DEF Next

\* What the approval s adds to the accounts is what DirectAwards says.
LEMMA ApprovalPays ==
    ASSUME IInv, Acyclic, NEW s \in Session, Distribute(s)
    PROVE  LET f     == session[s].order
               above == Above(franchiseorder[f].accountid)
               top   == {a \in above : \A b \in above :
                             Layer(session[s].types[b]) <= Layer(session[s].types[a])}
               pays  == SumFunctionOnSet([a \in Account |-> awarded'[f][a] - awarded[f][a]], Account)
           IN IF above = {} THEN pays = 0
              ELSE \A a \in top : pays = DirectAward[<<session[s].types[a], franchiseorder[f].targettype>>]
<1>1. TypeOK /\ Rooted /\ InFlight(s, "award")
  BY DEF IInv, TreeInv, Distribute
<1>2. PICK c, f, a, u : Approves(s, c, f, a, u)
  BY <1>1, WhoApproves
<1>3. PICK types : types = c.types
  OBVIOUS
<1>4. /\ c = session[s] /\ f = session[s].order /\ types = session[s].types /\ f \in Order /\ a \in Registered
      /\ a = franchiseorder[f].accountid /\ f \in 1 .. MaxOrders
      /\ \A n \in 2 .. Height : Chain(a)[n] \in Account => types[Chain(a)[n]] \in AgentType
  BY <1>1, <1>2, <1>3, OrderRows DEF Approves, AwardRead
<1>5. PICK direct : direct = DirectAwards(f, types)
  OBVIOUS
<1>6. /\ direct \in [Account -> Int]
      /\ Above(a) = {} => SumFunctionOnSet(direct, Account) = 0
      /\ \A b \in Above(a) :
            (\A d \in Above(a) : Layer(types[d]) <= Layer(types[b]))
            => SumFunctionOnSet(direct, Account) = DirectAward[<<types[b], franchiseorder[f].targettype>>]
  BY <1>1, <1>4, <1>5, PaidInAll
<1>7. awarded' = [awarded EXCEPT ![f] = [x \in Account |-> @[x] + direct[x]]]
  BY <1>4, <1>5 DEF Distribute
<1>8. PICK more : more = [x \in Account |-> awarded'[f][x] - awarded[f][x]]
  OBVIOUS
<1>9. \A x \in Account : direct[x] \in Int /\ more[x] = direct[x]
  <2>1. awarded \in [1..MaxOrders -> [Account -> Int]]
    BY <1>1 DEF TypeOK
  <2>2. \A x \in Account : awarded[f][x] \in Int /\ awarded'[f][x] = awarded[f][x] + direct[x] /\ direct[x] \in Int
    BY <1>4, <1>6, <1>7, <2>1
  <2> QED
    BY <1>8, <2>2
<1>10. SumFunctionOnSet(more, Account) = SumFunctionOnSet(direct, Account)
  BY <1>9, SumSame, FranchiseAssumption
<1> QED
  BY <1>4, <1>6, <1>8, <1>10

\* The loop of assign_award pays in sum the award of the highest rank above the agent: each
\* step of the chain that outranks those before it adds the difference.  Its types are those
\* of the reads, which an overlapping approval may have changed since.
THEOREM AwardsAlwaysTelescope == Spec => AwardsTelescope
<1>1. Init => IInv /\ Acyclic
  BY InitIInv, AcyclicInit
<1>2. IInv /\ Acyclic /\ [Next]_vars => IInv' /\ Acyclic'
  BY StepIInv, AcyclicKept
<1>3. IInv /\ Acyclic /\ [Next]_vars =>
        [\A s \in Session : (InFlight(s, "award") /\ session'[s] = NULL) =>
          LET f     == session[s].order
              above == Above(franchiseorder[f].accountid)
              top   == {a \in above : \A b \in above :
                            Layer(session[s].types[b]) <= Layer(session[s].types[a])}
              pays  == SumFunctionOnSet([a \in Account |-> awarded'[f][a] - awarded[f][a]], Account)
          IN IF above = {} THEN pays = 0
             ELSE \A a \in top : pays = DirectAward[<<session[s].types[a], franchiseorder[f].targettype>>]
        ]_vars
  <2> SUFFICES ASSUME IInv, Acyclic, [Next]_vars, NEW s \in Session, InFlight(s, "award"), session'[s] = NULL
               PROVE  LET f     == session[s].order
                          above == Above(franchiseorder[f].accountid)
                          top   == {a \in above : \A b \in above :
                                        Layer(session[s].types[b]) <= Layer(session[s].types[a])}
                          pays  == SumFunctionOnSet([a \in Account |-> awarded'[f][a] - awarded[f][a]], Account)
                      IN IF above = {} THEN pays = 0
                         ELSE \A a \in top : pays = DirectAward[<<session[s].types[a], franchiseorder[f].targettype>>]
    OBVIOUS
  <2>1. Distribute(s)
    BY OnlyApprovalEnds
  <2> QED
    BY <2>1, ApprovalPays
<1> QED
  BY <1>1, <1>2, <1>3, PTL DEF Spec, AwardsTelescope

--------------------------------------------------------------------------
(* The pages.                                                              *)

LEMMA StandsTold == ASSUME IInv PROVE ToldWhereItStands
<1>1. TypeOK /\ Rooted
  BY DEF IInv, TreeInv
<1> SUFFICES ASSUME NEW a \in Account, account[a] # NULL
             PROVE  /\ "nil" \in CheckAgentStatus(a) => MayRegister(a)
                    /\ MayRegister(a) => CheckAgentStatus(a) \subseteq {"nil", "AgentLoginUpgrading"}
                    /\ "AgentUpstreamPartition" \in CheckAgentStatus(a) =>
                           \E u \in Account : a \in ListMyAgents(u) /\ account[u].status # "INIT"
  BY DEF ToldWhereItStands
<1>2. /\ a \in Registered /\ a # HeadQuarter /\ account[a].status \in Accountstatus
      /\ account[a].partition \in Accountpartition \cup {NULL}
      /\ account[a].upstream \in Account \cup {HeadQuarter}
  BY <1>1, RegisteredRows, FranchiseAssumption DEF Registered
<1> DEFINE told == {IF row.originaltype \in AgentType THEN "AgentLoginUpgrading"
                    ELSE IF account[a].upstream # HeadQuarter /\ account[a].partition = NULL
                         THEN "AgentUpstreamPartition" ELSE "nil" :
                       row \in GetAccountWithPendingFranchiseOrder(a)}
<1>3. CASE account[a].status = "INIT"
  <2>1. CheckAgentStatus(a) = {"AgentLoginInit"}
    BY <1>3 DEF CheckAgentStatus
  <2>2. ~ MayRegister(a)
    BY <1>2, <1>3 DEF MayRegister
  <2> QED
    BY <2>1, <2>2
<1>4. CASE account[a].status = "CLOSED"
  <2>1. CheckAgentStatus(a) = {"AgentClosed"}
    BY <1>4 DEF CheckAgentStatus
  <2>2. ~ MayRegister(a)
    BY <1>2, <1>4 DEF MayRegister
  <2> QED
    BY <2>1, <2>2
<1>5. CASE account[a].status = "ACTIVE"
  <2>1. CheckAgentStatus(a) = told
    BY <1>5 DEF CheckAgentStatus
  <2>2. MayRegister(a) <=> Partitioned(a)
    BY <1>2, <1>5 DEF MayRegister
  <2>3. CASE account[a].upstream # HeadQuarter /\ account[a].partition = NULL
    <3>1. ~ MayRegister(a) /\ told \subseteq {"AgentLoginUpgrading", "AgentUpstreamPartition"}
      BY <2>2, <2>3 DEF Partitioned
    <3>2. account[a].upstream \in Registered /\ account[account[a].upstream].status # "INIT"
      BY <1>1, <1>2, <2>3 DEF Rooted
    <3>3. a \in ListMyAgents(account[a].upstream) /\ account[a].upstream \in Account
      BY <1>2, <3>2 DEF ListMyAgents, Registered
    <3> QED
      BY <2>1, <3>1, <3>2, <3>3
  <2>4. CASE ~ (account[a].upstream # HeadQuarter /\ account[a].partition = NULL)
    <3>1. MayRegister(a) /\ told \subseteq {"AgentLoginUpgrading", "nil"}
      BY <2>2, <2>4 DEF Partitioned
    <3> QED
      BY <2>1, <3>1
  <2> QED
    BY <2>3, <2>4
<1> QED
  BY <1>2, <1>3, <1>4, <1>5 DEF Accountstatus

LEMMA QueueIsShown == ASSUME IInv PROVE QueueShown
<1>1. TypeOK /\ Rooted /\ Placed /\ OnePending /\ RowsPlaced
  BY DEF IInv, TreeInv
<1>2. ASSUME NEW f \in Order, NEW g \in UpstreamAgentPendingAccounts(f)
      PROVE  \E row \in SearchAgents : row.order = g /\ row.account \in ListMyAgents(Upstream(f))
  <2>1. g \in Order /\ franchiseorder[g].status = "pending" /\ Upstream(g) = Upstream(f)
    BY <1>2 DEF UpstreamAgentPendingAccounts
  <2>2. PICK b : b = franchiseorder[g].accountid
    OBVIOUS
  <2>3. b \in Account /\ account[b] # NULL /\ account[b].upstream = Upstream(f) /\ g \in Pending(b)
    BY <1>1, <2>1, <2>2 DEF Placed, Registered, Upstream, Pending
  <2>4. PICK row : row = [account |-> b, order |-> g]
    OBVIOUS
  <2>5. row \in {[account |-> b, order |-> h] : h \in IF Pending(b) = {} THEN {0} ELSE Pending(b)}
    BY <2>3, <2>4
  <2>6. row \in SearchAgents
    BY <2>3, <2>5 DEF SearchAgents
  <2> QED
    BY <2>3, <2>4, <2>6 DEF ListMyAgents
<1>3. ASSUME NEW a \in Account, NEW row \in ListTripleAwardDetails(a), row.order # 0
      PROVE  row.amount = AwardX[franchiseorder[row.order].targettype] * AwardMod[row.whichorder]
  <2>1. PICK i \in DOMAIN triplecycle[a] :
           row = [whichround |-> ((triplecycle[a][i].number - 1) \div 3) + 1,
                  whichorder |-> ((triplecycle[a][i].number - 1) % 3) + 1,
                  order |-> triplecycle[a][i].order, amount |-> triplecycle[a][i].amount]
    BY <1>3 DEF ListTripleAwardDetails
  <2> QED
    BY <1>1, <1>3, <2>1 DEF RowsPlaced
<1>4. ASSUME NEW a \in Account, account[a] # NULL, <<"pending", a>> \notin raced
      PROVE  Cardinality({row \in SearchAgents : row.account = a}) = 1
  <2>1. PICK shown : shown = IF Pending(a) = {} THEN {0} ELSE Pending(a)
    OBVIOUS
  <2>2. \E h : shown = {h}
    <3>1. CASE Pending(a) = {}
      BY <2>1, <3>1
    <3>2. CASE Pending(a) # {}
      <4>1. IsFiniteSet(Pending(a)) /\ Cardinality(Pending(a)) <= 1
        <5>1. Pending(a) \subseteq 1 .. MaxOrders
          BY <1>1, OrderRows DEF Pending
        <5>2. IsFiniteSet(1 .. MaxOrders)
          BY FS_Interval, FranchiseAssumption
        <5> QED
          BY <1>1, <1>4, <5>1, <5>2, FS_Subset DEF OnePending
      <4>2. Cardinality(Pending(a)) = 1
        <5>1. Cardinality(Pending(a)) \in Nat /\ Cardinality(Pending(a)) # 0
          BY <3>2, <4>1, FS_CardinalityType, FS_EmptySet
        <5> QED
          BY <4>1, <5>1
      <4> QED
        BY <2>1, <3>2, <4>1, <4>2, FS_Singleton
    <3> QED
      BY <3>1, <3>2
  <2>3. PICK h : shown = {h}
    BY <2>2
  <2>4. {row \in SearchAgents : row.account = a} = {[account |-> a, order |-> h]}
    <3>1. ASSUME NEW row \in SearchAgents, row.account = a PROVE row = [account |-> a, order |-> h]
      <4>1. PICK b \in Account : row \in {[account |-> b, order |-> g] :
                                            g \in IF Pending(b) = {} THEN {0} ELSE Pending(b)}
        BY <3>1 DEF SearchAgents
      <4>2. PICK g \in IF Pending(b) = {} THEN {0} ELSE Pending(b) : row = [account |-> b, order |-> g]
        BY <4>1
      <4>3. b = a
        BY <3>1, <4>2
      <4> QED
        BY <2>1, <2>3, <4>2, <4>3
    <3>2. [account |-> a, order |-> h] \in SearchAgents
      <4>1. [account |-> a, order |-> h] \in {[account |-> a, order |-> g] :
                                                g \in IF Pending(a) = {} THEN {0} ELSE Pending(a)}
        BY <2>1, <2>3
      <4> QED
        BY <1>4, <4>1 DEF SearchAgents
    <3> QED
      BY <3>1, <3>2
  <2> QED
    BY <2>4, FS_Singleton
<1> QED
  BY <1>2, <1>3, <1>4 DEF QueueShown

\* A sum by groups: u tells the group of each element, h the sum of each group.
LEMMA SumByGroups ==
    ASSUME NEW S, IsFiniteSet(S), NEW v, \A f \in S : v[f] \in Int,
           NEW T, IsFiniteSet(T), NEW u, \A f \in S : u[f] \in T,
           NEW h, \A x \in T : h[x] = SumFunctionOnSet(v, {f \in S : u[f] = x})
    PROVE  SumFunctionOnSet(h, T) = SumFunctionOnSet(v, S)
<1> DEFINE In(s) == {f \in S : u[f] \in s}
           B == {s \in SUBSET T : SumFunctionOnSet(h, s) = SumFunctionOnSet(v, In(s))}
<1>1. \A s \in SUBSET T : IsFiniteSet(s) /\ IsFiniteSet(In(s)) /\ In(s) \subseteq S
  BY FS_Subset
<1>2. \A x \in T : h[x] \in Int
  <2>1. ASSUME NEW x \in T PROVE SumFunctionOnSet(v, {f \in S : u[f] = x}) \in Int
    <3>1. IsFiniteSet({f \in S : u[f] = x})
      BY FS_Subset
    <3> QED
      BY <3>1, SumInt
  <2> QED
    BY <2>1
<1>3. ASSUME NEW s \in SUBSET T, \A t \in SUBSET s : t # s => t \in B
      PROVE  s \in B
  <2>1. CASE s = {}
    <3>1. In(s) = {}
      BY <2>1
    <3> QED
      BY <2>1, <3>1, SumEmpty
  <2>2. CASE s # {}
    <3>1. PICK x \in s : TRUE
      BY <2>2
    <3>2. PICK t : t = s \ {x}
      OBVIOUS
    <3>3. t \in B /\ t \in SUBSET T /\ x \in T
      BY <1>3, <3>1, <3>2
    <3>4. SumFunctionOnSet(h, s) = h[x] + SumFunctionOnSet(h, t)
      BY <1>1, <1>2, <3>1, <3>2, SumRemove
    <3>5. PICK one : one = {f \in S : u[f] = x}
      OBVIOUS
    <3>6. one \in SUBSET In(s) /\ In(s) \ one = In(t)
      BY <3>1, <3>2, <3>5
    <3>7. IsFiniteSet(In(s)) /\ \A f \in In(s) : v[f] \in Int
      BY <1>1
    <3>8. SumFunctionOnSet(v, In(s)) = SumFunctionOnSet(v, one) + SumFunctionOnSet(v, In(t))
      <4>1. PICK i : i = In(s)
        OBVIOUS
      <4>2. IsFiniteSet(i) /\ (\A f \in i : v[f] \in Int) /\ one \in SUBSET i /\ i \ one = In(t)
        BY <3>6, <3>7, <4>1
      <4>3. SumFunctionOnSet(v, i) = SumFunctionOnSet(v, one) + SumFunctionOnSet(v, i \ one)
        BY <4>2, SumSplit
      <4> QED
        BY <4>1, <4>2, <4>3
    <3>9. h[x] = SumFunctionOnSet(v, one)
      BY <3>3, <3>5
    <3>10. SumFunctionOnSet(h, t) = SumFunctionOnSet(v, In(t))
      BY <3>3
    <3> QED
      BY <3>4, <3>8, <3>9, <3>10
  <2> QED
    BY <2>1, <2>2
<1>4. SUBSET T \subseteq B
  <2> HIDE DEF B
  <2> QED
    BY <1>3, SubsetInduction
<1>5. In(T) = S
  OBVIOUS
<1> QED
  BY <1>4, <1>5

\* The chain above an agent is that of its upstream.
LEMMA ChainShift ==
    ASSUME TypeOK, Rooted, NEW a \in Registered, NEW x \in Registered, account[a].upstream = x
    PROVE  \A k \in 1 .. Height - 1 : Chain(a)[k + 1] = Chain(x)[k]
<1>1. PICK low : low = Chain(a)
  OBVIOUS
<1>2. PICK up : up = Chain(x)
  OBVIOUS
<1>3. /\ low[1] = a /\ up[1] = x
      /\ \A n \in 2 .. Height : low[n] = IF low[n - 1] \in Account THEN account[low[n - 1]].upstream ELSE NULL
      /\ \A n \in 2 .. Height : up[n] = IF up[n - 1] \in Account THEN account[up[n - 1]].upstream ELSE NULL
  BY <1>1, <1>2, ChainOf
<1>4. Height \in Nat /\ Height > 1 /\ a \in Account
  BY HeightNat DEF Registered
<1> DEFINE S == {k \in 1 .. Height - 1 : low[k + 1] = up[k]}
<1>5. 1 \in S
  <2>1. 1 \in 1 .. Height - 1 /\ 2 \in 2 .. Height /\ 2 - 1 = 1 /\ 1 + 1 = 2
    BY <1>4
  <2>2. low[2] = x
    BY <1>3, <1>4, <2>1
  <2> QED
    BY <1>3, <2>1, <2>2
<1>6. ASSUME NEW k \in 1 .. (Height - 1) - 1, k \in S PROVE k + 1 \in S
  <2>1. /\ k + 1 \in 1 .. Height - 1 /\ k + 1 \in 2 .. Height /\ (k + 1) + 1 \in 2 .. Height
        /\ (k + 1) - 1 = k /\ ((k + 1) + 1) - 1 = k + 1
    BY <1>4
  <2>2. low[(k + 1) + 1] = (IF low[k + 1] \in Account THEN account[low[k + 1]].upstream ELSE NULL)
    BY <1>3, <2>1
  <2>3. up[k + 1] = (IF up[k] \in Account THEN account[up[k]].upstream ELSE NULL)
    BY <1>3, <2>1
  <2> QED
    BY <1>6, <2>1, <2>2, <2>3
<1>7. 1 .. Height - 1 \subseteq S
  <2>1. Height - 1 \in Nat
    BY <1>4
  <2> HIDE DEF S
  <2> QED
    BY <1>5, <1>6, <2>1, RowInduction
<1> QED
  BY <1>1, <1>2, <1>7

\* An agent is at one level below another one, and on one side.
LEMMA LevelOnce ==
    ASSUME TypeOK, Rooted, Acyclic, NEW a \in Account, NEW x \in Registered,
           NEW m \in Level(a, x), NEW n \in Level(a, x)
    PROVE  m = n
<1>1. /\ m \in Nat /\ n \in Nat /\ m + 1 \in 1 .. Height /\ n + 1 \in 1 .. Height
      /\ Chain(x)[m + 1] = a /\ Chain(x)[n + 1] = a
  <2>1. Cardinality(Account) \in Nat
    BY FranchiseAssumption, FS_CardinalityType
  <2> QED
    BY <2>1 DEF Level, Height
<1>2. ~ (m + 1 < n + 1) /\ ~ (n + 1 < m + 1)
  BY <1>1, ChainInjective
<1> QED
  BY <1>1, <1>2

LEMMA OneSide ==
    ASSUME TypeOK, Rooted, Acyclic, NEW a \in Account, NEW p, NEW q,
           NEW x \in OnSide(a, p), x \in OnSide(a, q)
    PROVE  p = q
<1>1. x \in Registered
  BY DEF OnSide, Registered
<1>2. PICK m \in Level(a, x) : account[Chain(x)[m]].partition = p
  BY DEF OnSide
<1>3. PICK n \in Level(a, x) : account[Chain(x)[n]].partition = q
  BY DEF OnSide
<1>4. m = n
  BY <1>1, LevelOnce
<1> QED
  BY <1>2, <1>3, <1>4

\* Whoever has brought something to a side is on it.
LEMMA SellerOnSide ==
    ASSUME IInv, ExtensionLevel <= 7, NEW f \in Order, NEW a \in Account, NEW p \in Accountpartition,
           extended[f][<<a, p>>] # 0
    PROVE  LET x == Upstream(f) IN
           x \in Account /\ x \in OnSide(a, p) /\ account[x].status \in {"ACTIVE", "CLOSED"}
<1>1. TypeOK /\ Rooted /\ Placed /\ ExtendedBySide
  BY DEF IInv, TreeInv
<1>2. PICK b : b = franchiseorder[f].accountid
  OBVIOUS
<1>3. b \in Registered /\ f \in 1 .. MaxOrders
  BY <1>1, <1>2, OrderRows DEF Placed
<1>4. PICK s : s = <<a, p>>
  OBVIOUS
<1>5. s \in Account \X Accountpartition /\ s[1] = a /\ s[2] = p
  BY <1>4
<1>6. OnSideOf(f, s)
  <2>1. extended[f][s] \in Nat /\ extended[f][s] # 0
    BY <1>1, <1>3, <1>4, <1>5 DEF TypeOK
  <2>2. extended[f][s] > 0
    BY <2>1
  <2> QED
    BY ONLY <1>1, <1>5, <2>2, f \in Order DEF ExtendedBySide
<1>7. PICK n \in AgentRows(b) : /\ n \in 3 .. ExtensionLevel + 2 /\ Chain(b)[n] = a
                                /\ account[Chain(b)[n - 1]].partition = p
  BY <1>2, <1>5, <1>6 DEF OnSideOf
<1>8. PICK N : N = Cardinality(Account)
  OBVIOUS
<1>9. N \in Nat /\ Height = N + 2 /\ n \in 2 .. N + 1 /\ ExtensionLevel \in Nat
  BY <1>8, FranchiseAssumption, FS_CardinalityType DEF Height, AgentRows
<1>10. PICK k : k = n - 2
  OBVIOUS
<1>11. /\ k \in 1 .. N /\ k <= 7 /\ k + 1 \in 1 .. Height - 1 /\ k \in 1 .. Height - 1
       /\ (k + 1) + 1 = n /\ k + 1 = n - 1 /\ 2 \in 2 .. Height /\ n - 1 \in 2 .. Height - 1
  BY <1>7, <1>9, <1>10
<1>12. PICK x : x = account[b].upstream
  OBVIOUS
<1>13. x = Upstream(f)
  BY <1>2, <1>12 DEF Upstream
<1>14. x \in Registered
  <2>1. x # HeadQuarter
    <3>1. SUFFICES ASSUME x = HeadQuarter PROVE FALSE
      OBVIOUS
    <3>2. \A r \in 3 .. Height : Chain(b)[r] = NULL
      <4>1. /\ Chain(b)[1] = b /\ b \in Account
            /\ \A r \in 2 .. Height : Chain(b)[r] = IF Chain(b)[r - 1] \in Account
                                                    THEN account[Chain(b)[r - 1]].upstream ELSE NULL
        BY <1>1, <1>3, ChainOf DEF Registered
      <4>2. Chain(b)[2] = HeadQuarter
        <5>1. Chain(b)[2] = IF Chain(b)[2 - 1] \in Account THEN account[Chain(b)[2 - 1]].upstream ELSE NULL
          BY <1>11, <4>1
        <5>2. 2 - 1 = 1
          OBVIOUS
        <5> QED
          BY <1>12, <3>1, <4>1, <5>1, <5>2
      <4>3. PICK row : row = Chain(b)
        OBVIOUS
      <4> DEFINE S == {r \in 1 .. Height : r >= 3 => row[r] = NULL}
      <4>4. 1 \in S
        BY <1>9
      <4>5. ASSUME NEW r \in 1 .. Height - 1, r \in S PROVE r + 1 \in S
        <5>1. r + 1 \in 2 .. Height /\ (r + 1) - 1 = r /\ r + 1 \in 1 .. Height
          BY <1>9
        <5>2. SUFFICES ASSUME r + 1 >= 3 PROVE row[r + 1] = NULL
          BY <5>1
        <5>3. row[r] \notin Account
          <6>1. CASE r = 2
            BY <4>2, <4>3, <6>1, FranchiseAssumption
          <6>2. CASE r # 2
            <7>1. r >= 3
              BY <5>2, <6>2
            <7> QED
              BY <4>5, <7>1, FranchiseAssumption
          <6> QED
            BY <6>1, <6>2
        <5> QED
          BY <4>1, <4>3, <5>1, <5>3
      <4>6. 1 .. Height \subseteq S
        <5>1. Height \in Nat
          BY <1>9
        <5> HIDE DEF S
        <5> QED
          BY <4>4, <4>5, <5>1, RowInduction
      <4> QED
        BY <1>9, <4>3, <4>6
    <3>3. n \in 3 .. Height
      BY <1>7, <1>9
    <3> QED
      BY <1>7, <3>2, <3>3, FranchiseAssumption
  <2> QED
    BY <1>1, <1>3, <1>12, <2>1 DEF Rooted
<1>15. Chain(x)[k + 1] = a /\ account[Chain(x)[k]].partition = p
  <2>1. Chain(b)[(k + 1) + 1] = Chain(x)[k + 1] /\ Chain(b)[k + 1] = Chain(x)[k]
    BY <1>1, <1>3, <1>11, <1>12, <1>14, ChainShift
  <2> QED
    BY <1>7, <1>11, <2>1
<1>16. k \in Level(a, x)
  BY <1>8, <1>11, <1>15 DEF Level
<1>17. x \in Account /\ account[x] # NULL
  BY <1>14 DEF Registered
<1>18. account[x].status # "INIT" /\ account[x].status \in Accountstatus
  <2>1. x # HeadQuarter
    BY <1>17, FranchiseAssumption
  <2> QED
    BY <1>1, <1>3, <1>12, <1>14, <2>1, RegisteredRows DEF Rooted
<1> QED
  BY <1>13, <1>15, <1>16, <1>17, <1>18 DEF OnSide, Accountstatus

\* The orders that brought something to a side, and what each of them brought.
Sales(a, p) == {f \in Order : extended[f][<<a, p>>] # 0}

Brought(a, p) == [f \in Order |-> extended[f][<<a, p>>]]

RowOf(a, p, f) == [franchiseorderid |-> f, amount |-> extended[f][<<a, p>>], partition |-> p]

LEMMA SalesFinite ==
    ASSUME TypeOK, NEW a \in Account, NEW p \in Accountpartition
    PROVE  /\ IsFiniteSet(Order) /\ IsFiniteSet(Sales(a, p)) /\ Sales(a, p) \subseteq Order
           /\ \A f \in Order : Brought(a, p)[f] = extended[f][<<a, p>>] /\ Brought(a, p)[f] \in Int
<1>1. IsFiniteSet(1 .. MaxOrders) /\ Order \subseteq 1 .. MaxOrders
  BY FS_Interval, FranchiseAssumption, OrderRows
<1>2. IsFiniteSet(Order) /\ IsFiniteSet(Sales(a, p)) /\ Sales(a, p) \subseteq Order
  BY <1>1, FS_Subset DEF Sales
<1>3. \A f \in Order : extended[f][<<a, p>>] \in Nat
  BY <1>1 DEF TypeOK
<1> QED
  BY <1>2, <1>3 DEF Brought

\* What x has brought to a lies on one side.
LEMMA DetailsAre ==
    ASSUME IInv, Acyclic, ExtensionLevel <= 7, NEW a \in Account, NEW p \in Accountpartition,
           NEW x \in OnSide(a, p)
    PROVE  ListSubAgentDetails(a, x) = {RowOf(a, p, f) : f \in {g \in Sales(a, p) : Upstream(g) = x}}
<1>1. TypeOK /\ Rooted
  BY DEF IInv, TreeInv
<1>2. PICK rows : rows = [q \in Accountpartition |-> {RowOf(a, q, f) : f \in {g \in Sales(a, q) : Upstream(g) = x}}]
  OBVIOUS
<1>3. ListSubAgentDetails(a, x) = UNION {rows[q] : q \in Accountpartition}
  <2>1. \A q \in Accountpartition : {g \in Sales(a, q) : Upstream(g) = x}
                                       = {g \in Order : extended[g][<<a, q>>] # 0 /\ Upstream(g) = x}
    BY DEF Sales
  <2>2. \A q \in Accountpartition :
           rows[q] = {[franchiseorderid |-> f, amount |-> extended[f][<<a, q>>], partition |-> q] :
                         f \in {g \in Order : extended[g][<<a, q>>] # 0 /\ Upstream(g) = x}}
    BY <1>2, <2>1 DEF RowOf
  <2>3. \A row : row \in ListSubAgentDetails(a, x) <=>
           \E q \in Accountpartition :
              row \in {[franchiseorderid |-> f, amount |-> extended[f][<<a, q>>], partition |-> q] :
                         f \in {g \in Order : extended[g][<<a, q>>] # 0 /\ Upstream(g) = x}}
    BY ONLY DEF ListSubAgentDetails
  <2>4. \A row : row \in ListSubAgentDetails(a, x) <=> \E q \in Accountpartition : row \in rows[q]
    BY ONLY <2>2, <2>3, Zenon
  <2> QED
    BY ONLY <2>4
<1>4. ASSUME NEW q \in Accountpartition, q # p PROVE rows[q] = {}
  <2>1. ASSUME NEW f \in Sales(a, q), Upstream(f) = x PROVE FALSE
    <3>1. f \in Order /\ extended[f][<<a, q>>] # 0
      BY DEF Sales
    <3>2. x \in OnSide(a, q)
      BY <2>1, <3>1, SellerOnSide
    <3> QED
      BY <1>1, <1>4, <3>2, OneSide
  <2> QED
    BY <1>2, <2>1
<1>5. UNION {rows[q] : q \in Accountpartition} = rows[p]
  BY <1>4
<1> QED
  BY <1>2, <1>3, <1>5

LEMMA DetailsAddUp ==
    ASSUME IInv, Acyclic, ExtensionLevel <= 7, NEW a \in Account, NEW p \in Accountpartition,
           NEW x \in OnSide(a, p)
    PROVE  /\ Pv(ListSubAgentDetails(a, x))
                = SumFunctionOnSet(Brought(a, p), {f \in Sales(a, p) : Upstream(f) = x})
           /\ Pv(ListSubAgentDetails(a, x)) \in Int
           /\ {row \in ListSubAgentDetails(a, x) : row.partition = p} = ListSubAgentDetails(a, x)
<1>1. TypeOK
  BY DEF IInv, TreeInv
<1>2. PICK rows : rows = ListSubAgentDetails(a, x)
  OBVIOUS
<1>3. PICK group : group = {f \in Sales(a, p) : Upstream(f) = x}
  OBVIOUS
<1>4. rows = {RowOf(a, p, f) : f \in group}
  BY <1>2, <1>3, DetailsAre
<1>5. IsFiniteSet(group) /\ group \subseteq Order
  BY <1>1, <1>3, SalesFinite, FS_Subset
<1>6. PICK v : v = Brought(a, p)
  OBVIOUS
<1>7. \A f \in group : v[f] = extended[f][<<a, p>>] /\ v[f] \in Int
  BY <1>1, <1>5, <1>6, SalesFinite
<1>8. PICK m : m = [f \in group |-> RowOf(a, p, f)]
  OBVIOUS
<1>9. PICK amount : amount = [row \in rows |-> row.amount]
  OBVIOUS
<1>10. rows = {m[f] : f \in group}
  BY <1>4, <1>8
<1>11. \A f \in group : v[f] \in Int /\ amount[m[f]] = v[f]
  <2>1. ASSUME NEW f \in group PROVE amount[m[f]] = v[f]
    <3>1. m[f] = RowOf(a, p, f) /\ m[f] \in rows
      BY <1>8, <1>10
    <3>2. amount[m[f]] = RowOf(a, p, f).amount
      BY <1>9, <3>1
    <3> QED
      BY <1>7, <3>2 DEF RowOf
  <2> QED
    BY <1>7, <2>1
<1>12. \A f, g \in group : m[f] = m[g] => f = g
  BY <1>8 DEF RowOf
<1>13. SumFunctionOnSet(amount, {m[f] : f \in group}) = SumFunctionOnSet(v, group)
  BY <1>5, <1>11, <1>12, SumImage
<1>14. Pv(rows) = SumFunctionOnSet(v, group)
  BY <1>9, <1>10, <1>13 DEF Pv
<1>15. SumFunctionOnSet(v, group) \in Int
  BY <1>5, <1>7, SumInt
<1>16. {row \in rows : row.partition = p} = rows
  BY <1>4 DEF RowOf
<1> QED
  BY <1>2, <1>3, <1>6, <1>14, <1>15, <1>16

\* The total of a side, whether it has a row or not.
LEMMA TotalIs ==
    ASSUME TypeOK, NEW a \in Account, NEW p \in Accountpartition
    PROVE  CalculateSumPv(a)[p] = SumFunctionOnSet(Brought(a, p), Sales(a, p))
<1>1. PICK v : v = Brought(a, p)
  OBVIOUS
<1>2. PICK sales : sales = Sales(a, p)
  OBVIOUS
<1>3. /\ IsFiniteSet(Order) /\ IsFiniteSet(sales) /\ sales \in SUBSET Order
      /\ \A f \in Order : v[f] = extended[f][<<a, p>>] /\ v[f] \in Int
  BY <1>1, <1>2, SalesFinite
<1>4. PICK total : total = SumFunctionOnSet(v, Order)
  OBVIOUS
<1>5. total = SumFunctionOnSet(v, sales)
  <2>1. total = SumFunctionOnSet(v, sales) + SumFunctionOnSet(v, Order \ sales)
    BY <1>3, <1>4, SumSplit
  <2>2. IsFiniteSet(Order \ sales) /\ \A f \in Order \ sales : v[f] = 0
    BY <1>2, <1>3, FS_Subset DEF Sales
  <2>3. SumFunctionOnSet(v, Order \ sales) = 0
    BY <2>2, SumZero
  <2>4. SumFunctionOnSet(v, sales) \in Int
    BY <1>3, SumInt
  <2> QED
    BY <2>1, <2>3, <2>4
<1>6. PICK rows : rows = {row \in SumPv(a) : row.partition = p}
  OBVIOUS
<1>7. CalculateSumPv(a)[p] = Pv(rows)
  BY <1>6 DEF CalculateSumPv
<1>8. PICK one : one = [partition |-> p, amount |-> total]
  OBVIOUS
<1>9. \A row \in SumPv(a) : row.partition = p => row = one /\ sales # {}
  <2>1. ASSUME NEW row \in SumPv(a), row.partition = p PROVE row = one /\ sales # {}
    <3>1. PICK q \in {r \in Accountpartition : \E f \in Order : extended[f][<<a, r>>] # 0} :
            row = [partition |-> q, amount |-> SumFunctionOnSet(Brought(a, q), Order)]
      BY <2>1 DEF SumPv, Brought
    <3>2. q = p
      BY <2>1, <3>1
    <3>3. sales # {}
      BY <1>2, <3>1, <3>2 DEF Sales
    <3> QED
      BY <1>1, <1>4, <1>8, <3>1, <3>2, <3>3
  <2> QED
    BY <2>1
<1>10. CASE sales = {}
  <2>1. rows = {}
    BY <1>6, <1>9, <1>10
  <2>2. Pv(rows) = 0
    BY <2>1, SumEmpty DEF Pv
  <2>3. SumFunctionOnSet(v, sales) = 0
    BY <1>10, SumEmpty
  <2> QED
    BY <1>1, <1>2, <1>7, <2>2, <2>3
<1>11. CASE sales # {}
  <2>1. one \in SumPv(a)
    <3>1. p \in {q \in Accountpartition : \E f \in Order : extended[f][<<a, q>>] # 0}
      BY <1>2, <1>11 DEF Sales
    <3> QED
      BY <1>1, <1>4, <1>8, <3>1 DEF SumPv, Brought
  <2>2. rows = {one}
    BY <1>6, <1>8, <1>9, <2>1
  <2>3. PICK amount : amount = [row \in rows |-> row.amount]
    OBVIOUS
  <2>4. amount[one] = total /\ total \in Int
    <3>1. amount[one] = total
      BY <1>8, <2>2, <2>3
    <3>2. total \in Int
      BY <1>3, <1>4, SumInt
    <3> QED
      BY <3>1, <3>2
  <2>5. SumFunctionOnSet(amount, {} \cup {one}) = amount[one] + SumFunctionOnSet(amount, {})
    BY <2>4, SumInsert, FS_EmptySet
  <2>6. SumFunctionOnSet(amount, {}) = 0 /\ {} \cup {one} = rows
    BY <2>2, SumEmpty
  <2>7. SumFunctionOnSet(amount, rows) = total
    BY <2>4, <2>5, <2>6
  <2>8. Pv(rows) = total
    BY <2>3, <2>7 DEF Pv
  <2> QED
    BY <1>1, <1>2, <1>5, <1>7, <2>8
<1> QED
  BY <1>10, <1>11

LEMMA SidesAreRight ==
    ASSUME IInv, Acyclic, ExtensionLevel <= 7
    PROVE  SidesAddUp
<1>1. TypeOK /\ Rooted
  BY DEF IInv, TreeInv
<1> SUFFICES ASSUME NEW a \in Account, NEW p \in Accountpartition, account[a] # NULL
             PROVE  LET listed == SevenLevelSubAgents(a, p)
                        gone == {x \in Account : /\ account[x] # NULL /\ account[x].status = "CLOSED"
                                               /\ x \in OnSide(a, p)}
                    IN  /\ CalculateSumPv(a)[p]
                             = SumFunctionOnSet([row \in listed |-> row.pv], listed)
                               + SumFunctionOnSet([x \in gone |-> Pv(ListSubAgentDetails(a, x))], gone)
                        /\ \A row \in listed : row.pv = Pv(ListSubAgentDetails(a, row.account))
  BY DEF SidesAddUp
<1>2. PICK act : act = {y \in OnSide(a, p) : account[y].status = "ACTIVE"}
  OBVIOUS
<1>3. PICK gone : gone = {x \in Account : /\ account[x] # NULL /\ account[x].status = "CLOSED"
                                        /\ x \in OnSide(a, p)}
  OBVIOUS
<1>4. PICK all : all = act \cup gone
  OBVIOUS
<1>5. PICK listed : listed = SevenLevelSubAgents(a, p)
  OBVIOUS
<1>6. PICK v : v = Brought(a, p)
  OBVIOUS
<1>7. PICK sales : sales = Sales(a, p)
  OBVIOUS
<1>8. PICK h : h = [x \in all |-> Pv(ListSubAgentDetails(a, x))]
  OBVIOUS
<1>9. /\ all \subseteq OnSide(a, p) /\ OnSide(a, p) \subseteq Account /\ IsFiniteSet(all) /\ act \in SUBSET all
      /\ all \ act = gone /\ IsFiniteSet(act) /\ IsFiniteSet(gone)
  <2>1. all \subseteq OnSide(a, p) /\ OnSide(a, p) \subseteq Account /\ act \in SUBSET all /\ gone \in SUBSET all
    BY <1>2, <1>3, <1>4 DEF OnSide
  <2>2. all \ act = gone
    BY <1>2, <1>3, <1>4
  <2>3. IsFiniteSet(all)
    BY <2>1, FS_Subset, FranchiseAssumption
  <2> QED
    BY <2>1, <2>2, <2>3, FS_Subset
<1>10. \A x \in all : /\ h[x] = Pv(ListSubAgentDetails(a, x)) /\ h[x] \in Int
                      /\ h[x] = SumFunctionOnSet(v, {f \in sales : Upstream(f) = x})
                      /\ {row \in ListSubAgentDetails(a, x) : row.partition = p} = ListSubAgentDetails(a, x)
  BY <1>6, <1>7, <1>8, <1>9, DetailsAddUp
<1>11. PICK u : u = [f \in sales |-> Upstream(f)]
  OBVIOUS
<1>12. \A f \in sales : u[f] = Upstream(f) /\ u[f] \in all /\ v[f] \in Int
  <2>1. ASSUME NEW f \in sales PROVE Upstream(f) \in all /\ v[f] \in Int
    <3>1. f \in Order /\ extended[f][<<a, p>>] # 0
      BY <1>7 DEF Sales
    <3>2. /\ Upstream(f) \in OnSide(a, p) /\ Upstream(f) \in Account
          /\ account[Upstream(f)].status \in {"ACTIVE", "CLOSED"}
      BY <3>1, SellerOnSide
    <3>3. account[Upstream(f)] # NULL
      BY <3>2 DEF OnSide
    <3>4. v[f] \in Int
      BY <1>1, <1>6, <3>1, SalesFinite
    <3> QED
      BY <1>2, <1>3, <1>4, <3>2, <3>3, <3>4
  <2> QED
    BY <1>11, <2>1
<1>13. SumFunctionOnSet(h, all) = SumFunctionOnSet(v, sales)
  <2>1. IsFiniteSet(sales)
    BY <1>1, <1>7, SalesFinite
  <2>2. \A x \in all : h[x] = SumFunctionOnSet(v, {f \in sales : u[f] = x})
    <3>1. ASSUME NEW x \in all PROVE {f \in sales : u[f] = x} = {f \in sales : Upstream(f) = x}
      BY <1>12
    <3> QED
      BY <1>10, <3>1
  <2> QED
    BY <1>9, <1>12, <2>1, <2>2, SumByGroups
<1>14. CalculateSumPv(a)[p] = SumFunctionOnSet(h, act) + SumFunctionOnSet(h, gone)
  <2>1. SumFunctionOnSet(h, all) = SumFunctionOnSet(h, act) + SumFunctionOnSet(h, all \ act)
    BY <1>9, <1>10, SumSplit
  <2> QED
    BY <1>1, <1>6, <1>7, <1>9, <1>13, <2>1, TotalIs
<1>15. PICK m : m = [x \in act |-> [account |-> x, direct_child |-> 1 \in Level(a, x),
                                    pv |-> Pv({row \in ListSubAgentDetails(a, x) : row.partition = p})]]
  OBVIOUS
<1>16. listed = {m[x] : x \in act}
  BY <1>2, <1>5, <1>15 DEF SevenLevelSubAgents
<1>17. \A x \in act : m[x].account = x /\ m[x].pv = h[x] /\ m[x] \in listed
  <2>1. ASSUME NEW x \in act PROVE m[x].account = x /\ m[x].pv = h[x]
    <3>1. m[x].account = x /\ m[x].pv = Pv({row \in ListSubAgentDetails(a, x) : row.partition = p})
      BY <1>15
    <3> QED
      BY <1>9, <1>10, <3>1
  <2> QED
    BY <1>16, <2>1
<1>18. PICK pv : pv = [row \in listed |-> row.pv]
  OBVIOUS
<1>19. SumFunctionOnSet(pv, listed) = SumFunctionOnSet(h, act)
  <2>1. \A x \in act : h[x] \in Int /\ pv[m[x]] = h[x]
    BY <1>9, <1>10, <1>17, <1>18
  <2>2. \A x, y \in act : m[x] = m[y] => x = y
    BY <1>17
  <2>3. SumFunctionOnSet(pv, {m[x] : x \in act}) = SumFunctionOnSet(h, act)
    BY <1>9, <2>1, <2>2, SumImage
  <2> QED
    BY <1>16, <2>3
<1>20. PICK left : left = [x \in gone |-> Pv(ListSubAgentDetails(a, x))]
  OBVIOUS
<1>21. SumFunctionOnSet(left, gone) = SumFunctionOnSet(h, gone)
  <2>1. \A x \in gone : h[x] \in Int /\ left[x] = h[x]
    BY <1>4, <1>10, <1>20
  <2> QED
    BY <1>9, <2>1, SumSame
<1>22. \A row \in listed : row.pv = Pv(ListSubAgentDetails(a, row.account))
  <2>1. ASSUME NEW x \in act PROVE m[x].pv = Pv(ListSubAgentDetails(a, m[x].account))
    <3>1. x \in all
      BY <1>9
    <3>2. m[x].pv = Pv(ListSubAgentDetails(a, x)) /\ m[x].account = x
      BY <1>10, <1>17, <3>1
    <3> QED
      BY ONLY <3>2, Zenon
  <2> QED
    BY ONLY <1>16, <2>1, Zenon
<1> QED
  BY <1>3, <1>5, <1>14, <1>18, <1>19, <1>20, <1>21, <1>22

\* What the members of the tree see is what the tables of the orders hold, whatever is approved,
\* edited and closed meanwhile: where they stand, what each side has brought, and what waits.
\* sevenLevelSubAgents lists seven levels, so awards may not be extended to an eighth.
THEOREM MembersSeeTheTree ==
    ASSUME ExtensionLevel <= 7
    PROVE  Spec => []FranchiseConsistent
<1>1. Init => IInv /\ Acyclic
  BY InitIInv, AcyclicInit
<1>2. IInv /\ Acyclic /\ [Next]_vars => IInv' /\ Acyclic'
  BY StepIInv, AcyclicKept
<1>3. IInv /\ Acyclic => ToldWhereItStands /\ SidesAddUp /\ QueueShown
  BY StandsTold, QueueIsShown, SidesAreRight
<1>4. Consistent /\ ToldWhereItStands /\ SidesAddUp /\ QueueShown => FranchiseConsistent
  BY DEF FranchiseConsistent
<1> QED
  BY <1>1, <1>2, <1>3, <1>4, TreeStaysConsistent, PTL DEF Spec
==============================================================================
