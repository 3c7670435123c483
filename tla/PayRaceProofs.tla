---------------------------- MODULE PayRaceProofs ----------------------------
(***************************************************************************)
(* Theorems about transactions that interleave statement by statement, for *)
(* every tree, and any number of orders and sessions.                      *)
(*                                                                         *)
(* Three invariants.  IInv, of every schedule: what is not committed of an *)
(* account is the rows of the session that holds it, so no UPDATE is lost. *)
(* SInv, when the row of its order serialises the sessions of an order:    *)
(* what a session has read of the order stays true until it commits.       *)
(* LInv, when every payer locks its order first: a payment that leaves     *)
(* another order open leaves room for it in the limit.                     *)
(***************************************************************************)
EXTENDS PayRace, SumProofs

-----------------------------------------------------------------------------
(***************************************************************************)
(* The chain of a student has no account twice                             *)
(***************************************************************************)

\* A set that has 0, and with every number the next, has them all.
LEMMA NatSteps ==
    ASSUME NEW B, 0 \in B, \A k \in Nat : k \in B => k + 1 \in B
    PROVE  Nat \subseteq B
<1> SUFFICES ASSUME Nat \ B # {} PROVE FALSE
  OBVIOUS
<1> DEFINE T == Nat \ B
<1>1. T \subseteq Nat /\ T # {}
  OBVIOUS
<1> HIDE DEF T
<1>2. PICK k \in T : \A j \in T : ~ (<<j, k>> \in OpToRel(<, Nat))
  BY <1>1, NatLessThanWellFounded, WFMin
<1>3. \A j \in T : ~ (j < k)
  BY <1>1, <1>2 DEF OpToRel
<1>4. k \in Nat /\ k # 0 /\ k - 1 \in Nat
  BY <1>1 DEF T
<1>5. k - 1 \in B
  BY <1>3, <1>4 DEF T
<1>6. (k - 1) + 1 = k
  BY <1>4
<1> QED
  BY <1>4, <1>5, <1>6 DEF T

\* A set of numbers that is not empty has a least one.
LEMMA MinOf ==
    ASSUME NEW S \in SUBSET Nat, S # {}
    PROVE  Min(S) \in S /\ \A k \in S : Min(S) <= k
<1>1. PICK k \in S : \A j \in S : ~ (<<j, k>> \in OpToRel(<, Nat))
  BY NatLessThanWellFounded, WFMin
<1>2. \A j \in S : ~ (j < k)
  BY <1>1 DEF OpToRel
<1>3. \A j \in S : k <= j
  BY <1>2
<1> QED
  BY <1>3 DEF Min

\* The row above row r of a chain.
RowAbove(r) == IF r = HeadQuarter THEN HeadQuarter ELSE Upstream[r]

\* The first k rows of the chain of s.
Rows(s, k, p) == p = [i \in 1 .. k |-> IF i = 1 THEN s ELSE RowAbove(p[i - 1])]

LEMMA RowsExist == ASSUME NEW s PROVE \A k \in Nat : \E p : Rows(s, k, p)
<1> DEFINE B == {k \in Nat : \E p : Rows(s, k, p)}
<1>1. 0 \in B
  <2> DEFINE p == [i \in 1 .. 0 |-> s]
  <2>1. Rows(s, 0, p)
    BY DEF Rows
  <2> QED
    BY <2>1
<1>2. ASSUME NEW k \in Nat, k \in B PROVE k + 1 \in B
  <2>1. PICK p : Rows(s, k, p)
    BY <1>2
  <2> DEFINE q == [i \in 1 .. k + 1 |-> IF i <= k THEN p[i] ELSE IF i = 1 THEN s ELSE RowAbove(p[i - 1])]
  <2>2. ASSUME NEW i \in 1 .. k + 1
        PROVE  q[i] = IF i = 1 THEN s ELSE RowAbove(q[i - 1])
    <3>1. i # 1 => i - 1 \in 1 .. k /\ q[i - 1] = p[i - 1]
      BY <2>2
    <3>2. i <= k => i \in 1 .. k /\ q[i] = p[i]
      BY <2>2
    <3>3. i <= k => p[i] = IF i = 1 THEN s ELSE RowAbove(p[i - 1])
      BY <2>1, <3>2 DEF Rows
    <3>4. ~ (i <= k) => q[i] = IF i = 1 THEN s ELSE RowAbove(p[i - 1])
      BY <2>2
    <3> HIDE DEF q
    <3> QED
      BY <3>1, <3>2, <3>3, <3>4
  <2>3. q = [i \in 1 .. k + 1 |-> q[i]]
    OBVIOUS
  <2> HIDE DEF q
  <2>4. Rows(s, k + 1, q)
    BY <2>2, <2>3, Zenon DEF Rows
  <2> QED
    BY <2>4
<1> HIDE DEF B
<1>3. Nat \subseteq B
  BY <1>1, <1>2, NatSteps
<1> QED
  BY <1>3 DEF B

LEMMA RowsAgree ==
    ASSUME NEW s, NEW k \in Nat, NEW l \in Nat, NEW p, Rows(s, k, p), NEW q, Rows(s, l, q)
    PROVE  \A i \in Nat : i >= 1 /\ i <= k /\ i <= l => p[i] = q[i]
<1> DEFINE B == {i \in Nat : i >= 1 /\ i <= k /\ i <= l => p[i] = q[i]}
<1>1. 0 \in B
  OBVIOUS
<1>2. ASSUME NEW i \in Nat, i \in B PROVE i + 1 \in B
  <2> SUFFICES ASSUME i + 1 <= k, i + 1 <= l PROVE p[i + 1] = q[i + 1]
    OBVIOUS
  <2>1. i + 1 \in 1 .. k /\ i + 1 \in 1 .. l /\ (i + 1) - 1 = i
    OBVIOUS
  <2>2. p[i + 1] = IF i + 1 = 1 THEN s ELSE RowAbove(p[(i + 1) - 1])
    BY <2>1, Zenon DEF Rows
  <2>3. q[i + 1] = IF i + 1 = 1 THEN s ELSE RowAbove(q[(i + 1) - 1])
    BY <2>1, Zenon DEF Rows
  <2>4. i + 1 # 1 => p[i] = q[i]
    BY <1>2
  <2> HIDE DEF B
  <2> QED
    BY <2>1, <2>2, <2>3, <2>4
<1> HIDE DEF B
<1>3. Nat \subseteq B
  BY <1>1, <1>2, NatSteps
<1> QED
  BY <1>3 DEF B

\* The recursion of ChainRow is well defined.
LEMMA ChainStep ==
    ASSUME NEW s
    PROVE  /\ ChainRow(s, 1) = s
           /\ \A n \in Nat \ {0} : ChainRow(s, n + 1) = RowAbove(ChainRow(s, n))
<1> DEFINE H(h) == h = [i \in Nat \ {0} |-> IF i = 1 THEN s ELSE RowAbove(h[i - 1])]
           p(k) == CHOOSE q : Rows(s, k, q)
           g == [i \in Nat \ {0} |-> p(i)[i]]
<1>1. \A k \in Nat : Rows(s, k, p(k))
  BY RowsExist
<1>2. ASSUME NEW i \in Nat \ {0}
      PROVE  g[i] = IF i = 1 THEN s ELSE RowAbove(g[i - 1])
  <2>1. Rows(s, i, p(i)) /\ i \in 1 .. i
    BY <1>1
  <2>2. p(i)[i] = IF i = 1 THEN s ELSE RowAbove(p(i)[i - 1])
    BY <2>1, Zenon DEF Rows
  <2>3. ASSUME i # 1 PROVE p(i)[i - 1] = g[i - 1]
    <3>1. i - 1 \in Nat \ {0} /\ Rows(s, i - 1, p(i - 1))
      BY <1>1, <2>3
    <3> HIDE DEF p
    <3>2. p(i)[i - 1] = p(i - 1)[i - 1]
      BY <2>1, <3>1, RowsAgree
    <3> QED
      BY <3>1, <3>2
  <2>4. g[i] = p(i)[i]
    OBVIOUS
  <2> HIDE DEF g, p
  <2> QED
    BY <2>2, <2>3, <2>4
<1>3. H(g)
  <2>1. g = [i \in Nat \ {0} |-> g[i]]
    OBVIOUS
  <2> HIDE DEF g
  <2> QED
    BY <1>2, <2>1, Zenon
<1> HIDE DEF g
<1> DEFINE h == CHOOSE f : H(f)
<1>4. H(h)
  BY <1>3
<1>5. \A n : ChainRow(s, n) = h[n]
  BY Zenon DEF ChainRow, RowAbove
<1> HIDE DEF h
<1>6. \A i \in Nat \ {0} : h[i] = IF i = 1 THEN s ELSE RowAbove(h[i - 1])
  BY <1>4, Zenon
<1>7. ASSUME NEW n \in Nat \ {0} PROVE h[n + 1] = RowAbove(h[n])
  <2>1. n + 1 \in Nat \ {0} /\ n + 1 # 1 /\ (n + 1) - 1 = n
    OBVIOUS
  <2> HIDE DEF H
  <2> QED
    BY <1>6, <2>1
<1>8. h[1] = s
  BY <1>6
<1> QED
  BY <1>5, <1>7, <1>8

\* Below an account of the tree the chain has not reached the head quarter, and from a
\* repeated account on it would never reach it.
LEMMA ChainOnce ==
    ASSUME IsFiniteSet(Agent), NEW s \in Student, NEW n \in AgentRows(s), NEW m \in AgentRows(s),
           ChainRow(s, n) = ChainRow(s, m)
    PROVE  n = m
<1> DEFINE N == Cardinality(Agent)
<1>1. N \in Nat
  BY FS_CardinalityType
<1>2. ASSUME NEW j \in AgentRows(s), NEW k \in AgentRows(s), ChainRow(s, j) = ChainRow(s, k), j < k
      PROVE  FALSE
  <2>1. /\ j \in Nat \ {0} /\ k \in Nat \ {0} /\ k <= N + 1
        /\ ChainRow(s, k) # HeadQuarter
    BY <1>1, <1>2, TreeAssumption DEF AgentRows
  <2> HIDE DEF N
  \* Once at the head quarter, the chain stays there.
  <2>2. ASSUME NEW i \in Nat \ {0}, i <= k PROVE ChainRow(s, i) # HeadQuarter
    <3> SUFFICES ASSUME ChainRow(s, i) = HeadQuarter PROVE FALSE
      OBVIOUS
    <3> DEFINE B == {d \in Nat : ChainRow(s, i + d) = HeadQuarter}
    <3>1. 0 \in B
      OBVIOUS
    <3>2. ASSUME NEW d \in Nat, d \in B PROVE d + 1 \in B
      <4>1. i + d \in Nat \ {0} /\ i + (d + 1) = (i + d) + 1
        OBVIOUS
      <4>2. ChainRow(s, (i + d) + 1) = RowAbove(ChainRow(s, i + d))
        BY <4>1, ChainStep
      <4> QED
        BY <3>2, <4>1, <4>2 DEF RowAbove
    <3> HIDE DEF B
    <3>3. k - i \in Nat /\ i + (k - i) = k
      BY <2>1, <2>2
    <3>4. k - i \in B
      BY <3>1, <3>2, <3>3, NatSteps
    <3> QED
      BY <2>1, <3>3, <3>4 DEF B
  \* So it goes round between the two rows for ever.
  <2> DEFINE V == {ChainRow(s, i) : i \in j .. (k - 1)}
  <2>3. \A x \in V : x # HeadQuarter
    <3>1. \A i \in j .. (k - 1) : i \in Nat \ {0} /\ i <= k
      BY <2>1
    <3> QED
      BY <2>2, <3>1
  <2>4. ASSUME NEW x \in V PROVE RowAbove(x) \in V
    <3>1. PICK i \in j .. (k - 1) : x = ChainRow(s, i)
      BY <2>4
    <3>2. i \in Nat \ {0} /\ (i + 1 \in j .. (k - 1) \/ i + 1 = k)
      BY <2>1, <3>1
    <3>3. RowAbove(x) = ChainRow(s, i + 1)
      BY <3>1, <3>2, ChainStep
    <3>4. CASE i + 1 = k
      <4>1. j \in j .. (k - 1)
        BY <1>2, <2>1
      <4> QED
        BY <1>2, <3>3, <3>4, <4>1
    <3>5. CASE i + 1 \in j .. (k - 1)
      BY <3>3, <3>5
    <3> QED
      BY <3>2, <3>4, <3>5
  <2>5. ChainRow(s, j) \in V
    BY <1>2, <2>1
  <2> HIDE DEF V
  <2> DEFINE C == {d \in Nat : ChainRow(s, j + d) \in V}
  <2>6. 0 \in C
    BY <2>1, <2>5
  <2>7. ASSUME NEW d \in Nat, d \in C PROVE d + 1 \in C
    <3>1. j + d \in Nat \ {0} /\ j + (d + 1) = (j + d) + 1
      BY <2>1
    <3>2. ChainRow(s, (j + d) + 1) = RowAbove(ChainRow(s, j + d))
      BY <3>1, ChainStep
    <3>3. RowAbove(ChainRow(s, j + d)) \in V
      BY <2>4, <2>7
    <3> QED
      BY <3>1, <3>2, <3>3
  <2> HIDE DEF C
  <2>8. (N + 2) - j \in Nat /\ j + ((N + 2) - j) = N + 2
    BY <1>1, <1>2, <2>1
  <2>9. (N + 2) - j \in C
    BY <2>6, <2>7, <2>8, NatSteps
  <2>10. ChainRow(s, N + 2) \in V
    BY <2>8, <2>9 DEF C
  <2>11. ChainRow(s, N + 2) = HeadQuarter
    BY TreeIsRooted DEF N
  <2> QED
    BY <2>3, <2>10, <2>11
<1>3. n \in Int /\ m \in Int
  BY DEF AgentRows
<1>4. ~ (n < m) /\ ~ (m < n)
  BY <1>2
<1> QED
  BY <1>3, <1>4

-----------------------------------------------------------------------------
(***************************************************************************)
(* What rows come to                                                       *)
(***************************************************************************)

AmountOf == [r \in Row |-> r.amount]
InColumn(R, c) == {r \in R : ColumnOf(r.source) = c}

LEMMA TotalOf ==
    ASSUME NEW R \in SUBSET Row, IsFiniteSet(R), NEW c
    PROVE  /\ Total(R, c) = SumFunctionOnSet(AmountOf, InColumn(R, c))
           /\ Total(R, c) \in Int
<1> DEFINE T == InColumn(R, c)
           f == [r \in T |-> r.amount]
<1>1. T \in SUBSET Row /\ IsFiniteSet(T)
  BY FS_Subset DEF InColumn
<1>2. Total(R, c) = SumFunctionOnSet(f, T)
  BY DEF Total, SumFunction, InColumn
<1>3. \A r \in T : AmountOf[r] \in Int /\ f[r] = AmountOf[r]
  BY <1>1 DEF AmountOf, Row
<1> HIDE DEF f, T
<1>4. SumFunctionOnSet(f, T) = SumFunctionOnSet(AmountOf, T)
  BY <1>1, <1>3, SumSame
<1>5. SumFunctionOnSet(AmountOf, T) \in Int
  BY <1>1, <1>3, SumInt
<1> QED
  BY <1>2, <1>4, <1>5 DEF T

LEMMA TotalEmpty == \A c : Total({}, c) = 0
<1> TAKE c
<1>1. InColumn({}, c) = {} /\ {} \in SUBSET Row
  BY DEF InColumn
<1>2. Total({}, c) = SumFunctionOnSet(AmountOf, {})
  BY <1>1, TotalOf, FS_EmptySet
<1> QED
  BY <1>2, SumEmpty

LEMMA TotalUnion ==
    ASSUME NEW A \in SUBSET Row, NEW B \in SUBSET Row, IsFiniteSet(A), IsFiniteSet(B),
           A \cap B = {}, NEW c
    PROVE  /\ IsFiniteSet(A \cup B)
           /\ Total(A \cup B, c) = Total(A, c) + Total(B, c)
           /\ Total(A, c) \in Int /\ Total(B, c) \in Int
<1> DEFINE S == InColumn(A \cup B, c)
           T == InColumn(A, c)
<1>1. IsFiniteSet(A \cup B)
  BY FS_Union
<1>2. S \in SUBSET Row /\ T \in SUBSET S /\ S \ T = InColumn(B, c)
  BY DEF InColumn
<1>3. IsFiniteSet(S)
  BY <1>1, FS_Subset DEF InColumn
<1>4. \A r \in S : AmountOf[r] \in Int
  BY <1>2 DEF AmountOf, Row
<1>5. Total(A \cup B, c) = SumFunctionOnSet(AmountOf, S)
  BY <1>1, TotalOf
<1>6. Total(A, c) = SumFunctionOnSet(AmountOf, T)
  BY TotalOf
<1> HIDE DEF S, T
<1>7. SumFunctionOnSet(AmountOf, S)
        = SumFunctionOnSet(AmountOf, T) + SumFunctionOnSet(AmountOf, S \ T)
  BY <1>2, <1>3, <1>4, SumSplit
<1>8. Total(B, c) = SumFunctionOnSet(AmountOf, S \ T)
  BY <1>2, TotalOf
<1> QED
  BY <1>1, <1>5, <1>6, <1>7, <1>8, TotalOf

\* Rows whose mark is changed, one to one, come to the same.
LEMMA TotalImage ==
    ASSUME NEW R \in SUBSET Row, IsFiniteSet(R), NEW m,
           \A r \in R : /\ m[r] \in Row /\ m[r].amount = r.amount
                        /\ m[r].source = r.source,
           \A r, q \in R : m[r] = m[q] => r = q,
           NEW c
    PROVE  /\ IsFiniteSet({m[r] : r \in R})
           /\ Total({m[r] : r \in R}, c) = Total(R, c)
<1> DEFINE S == {m[r] : r \in R}
           T == InColumn(R, c)
<1>1. IsFiniteSet(S) /\ S \in SUBSET Row
  BY ImageFinite
<1>2. T \in SUBSET R /\ IsFiniteSet(T)
  BY FS_Subset DEF InColumn
<1>3. InColumn(S, c) = {m[x] : x \in T}
  BY DEF InColumn
<1>4. \A r \in T : AmountOf[r] \in Int /\ AmountOf[m[r]] = AmountOf[r]
  BY <1>2 DEF AmountOf, Row
<1>5. \A r, q \in T : m[r] = m[q] => r = q
  BY <1>2
<1>6. Total(R, c) = SumFunctionOnSet(AmountOf, T)
  BY TotalOf
<1>7. SumFunctionOnSet(AmountOf, {m[x] : x \in T}) = SumFunctionOnSet(AmountOf, T)
  <2>1. IsFiniteSet(T)
    BY <1>2
  <2>2. \A x \in T : AmountOf[x] \in Int /\ AmountOf[m[x]] = AmountOf[x]
    BY <1>4
  <2>3. \A x, y \in T : m[x] = m[y] => x = y
    BY <1>5
  <2> HIDE DEF S, T
  <2> QED
    BY ONLY <2>1, <2>2, <2>3, SumImage
<1> HIDE DEF S, T
<1>8. Total(S, c) = SumFunctionOnSet(AmountOf, InColumn(S, c))
  BY <1>1, TotalOf
<1>9. IsFiniteSet(S) /\ Total(S, c) = Total(R, c)
  BY <1>1, <1>3, <1>6, <1>7, <1>8
<1> QED
  BY <1>9 DEF S

-----------------------------------------------------------------------------
(***************************************************************************)
(* The rows of a payment                                                   *)
(***************************************************************************)

LEMMA PayeeRow ==
    ASSUME NEW o \in Order, NEW n \in AgentRows(StudentOf[o])
    PROVE  n \in Nat /\ n >= 2 /\ Payee(o, n) \in Agent
<1>1. Cardinality(Agent) \in Nat
  BY RaceAssumption, FS_CardinalityType
<1> QED
  BY <1>1 DEF AgentRows, Payee

\* The loop begins at row 2, the direct agent, and goes up.
LEMMA RewardedRows ==
    ASSUME NEW o \in Order
    PROVE  /\ Rewarded(o) \subseteq AgentRows(StudentOf[o])
           /\ 2 \in Rewarded(o)
           /\ \A n \in Rewarded(o) : Above(o, n) # {} =>
                  Min(Above(o, n)) \in Rewarded(o) /\ Min(Above(o, n)) > n
<1> DEFINE s == StudentOf[o]
<1>1. s \in Student /\ Upstream[s] # HeadQuarter
  BY RaceAssumption DEF HasDirectAgent
<1>2. ChainRow(s, 2) = Upstream[s]
  <2>1. ChainRow(s, 1 + 1) = RowAbove(ChainRow(s, 1)) /\ ChainRow(s, 1) = s
    BY ChainStep
  <2>2. 1 + 1 = 2
    OBVIOUS
  <2>3. s # HeadQuarter
    <3>1. Upstream[s] \in Account
      BY <1>1, TreeAssumption
    <3> QED
      BY <1>1, TreeAssumption
  <2> QED
    BY <2>1, <2>2, <2>3 DEF RowAbove
<1>3. 2 \in AgentRows(s)
  <2>1. Upstream[s] \in Agent
    BY <1>1, TreeAssumption DEF Account
  <2>2. Cardinality(Agent) \in Nat /\ Cardinality(Agent) # 0
    BY <2>1, RaceAssumption, FS_CardinalityType, FS_EmptySet
  <2> QED
    BY <1>2, <2>1, <2>2 DEF AgentRows
<1>4. Rewarded(o) \subseteq AgentRows(s) /\ 2 \in Rewarded(o)
  BY <1>3 DEF Rewarded
<1>5. ASSUME NEW n \in Rewarded(o), Above(o, n) # {}
      PROVE  Min(Above(o, n)) \in Rewarded(o) /\ Min(Above(o, n)) > n
  <2>1. Above(o, n) \in SUBSET Nat
    BY <1>4, PayeeRow DEF Above
  <2> QED
    BY <1>5, <2>1, MinOf DEF Above
<1> QED
  BY <1>4, <1>5

-----------------------------------------------------------------------------
(***************************************************************************)
(* Why the tables balance                                                  *)
(***************************************************************************)

Revoked(r) == [r EXCEPT !.mark = "revoked"]
Undone(r, s) == [r EXCEPT !.mark = "reversal", !.amount = -r.amount, !.undoneBy = s]
RowsAt(R, a) == {r \in R : r.accountid = a}

\* A session holds the accounts it has posted to, and its rows are told apart from those
\* of other sessions.
RowsFit(s) ==
    /\ IsFiniteSet(txn[s].rows)
    /\ \A r \in txn[s].rows :
          /\ lock[r.accountid] = s
          /\ r.orderid = OrderOf[s]
          /\ IF Kind[s] = "revoke" THEN r.mark = "reversal" /\ r.undoneBy = s
             ELSE r.mark = "plain" /\ r.by = s /\ r.undoneBy = NULL

\* Rows that were plain when they were read are plain, or were revoked since.
Seen(R) ==
    \A r \in R : r.mark = "plain" /\ r.undoneBy = NULL /\ (r \in ledger \/ Revoked(r) \in ledger)

CursorFit(s) ==
    /\ Seen(txn[s].todo) /\ Seen(txn[s].prefixed)
    /\ \A r \in txn[s].todo : r.orderid = OrderOf[s] /\ Undone(r, s) \notin txn[s].rows

\* Each step is taken by whom it is for, and no row is posted twice on the way: the loop
\* goes up the chain.
StepFit(s) ==
    LET step == txn[s].step
        o == OrderOf[s]
    IN  /\ step \in {"fetch", "undo", "prefix", "withdraw", "close"} => Kind[s] = "revoke"
        /\ step \in {"lock", "entitle", "owed", "post", "convert", "settle", "crowd"} =>
               Kind[s] # "revoke"
        /\ step \in {"begin", "lock", "read", "check", "entitle", "fetch"} => txn[s].rows = {}
        /\ step = "entitle" => txn[s].n = 2
        /\ step \in {"owed", "post"} =>
               /\ txn[s].n \in Rewarded(o)
               /\ txn[s].n = 2 => txn[s].rows = {}
               /\ \A r \in txn[s].rows :
                     \/ r.source = "conversion"
                     \/ \E m \in AgentRows(StudentOf[o]) : m < txn[s].n /\ r.accountid = Payee(o, m)
        /\ step = "convert" =>
               /\ txn[s].n = 2
               /\ \A r \in txn[s].rows : r.source # "conversion" /\ r.accountid = Payee(o, 2)

SessionsFit == \A s \in Session : RowsFit(s) /\ CursorFit(s) /\ StepFit(s)

\* What is not committed of an account is its holder's rows.
AccountsFit ==
    \A a \in Agent :
        /\ lock[a] = NULL => draft.account[a] = table.account[a]
        /\ \A s \in Session : lock[a] = s =>
               \A c \in Column :
                   draft.account[a][c] = table.account[a][c] + Total(RowsAt(txn[s].rows, a), c)

\* The rows committed are of sessions that are done, each of them plain or revoked.
LedgerFit ==
    /\ IsFiniteSet(ledger)
    /\ \A r \in ledger :
          IF r.mark = "reversal" THEN r.undoneBy \in Session /\ At(r.undoneBy, "done")
          ELSE /\ r.undoneBy = NULL /\ At(r.by, "done")
               /\ r.mark = "plain" => Revoked(r) \notin ledger

IInv == TypeOK /\ LedgerMatchesBalances /\ SessionsFit /\ AccountsFit /\ LedgerFit

-----------------------------------------------------------------------------
(* Types.                                                                  *)

LEMMA AwardsShape ==
    ASSUME NEW s \in Session, NEW n \in AgentRows(StudentOf[OrderOf[s]]), NEW owed
    PROVE  /\ IsFiniteSet(Awards(s, n, owed))
           /\ Awards(s, n, owed) \in SUBSET Row
           /\ \A r \in Awards(s, n, owed) :
                 /\ r.orderid = OrderOf[s] /\ r.accountid = Payee(OrderOf[s], n)
                 /\ r.mark = "plain" /\ r.by = s /\ r.undoneBy = NULL
                 /\ r.source # "conversion"
           /\ \A r1, r2 \in Awards(s, n, owed) : r1.source = r2.source => r1 = r2
<1> DEFINE o == OrderOf[s]
           a == Payee(o, n)
           m == [src \in Source |-> [orderid |-> o, accountid |-> a, source |-> src,
                    amount |-> Amount[src], by |-> s, mark |-> "plain", undoneBy |-> NULL]]
<1>1. PICK S \in SUBSET (Source \ {"conversion"}) : Awards(s, n, owed) = {m[src] : src \in S}
  <2> DEFINE direct == n = 2
             cross == ~ direct /\ CrossLevel(StudentOf[o], a)
             S == (IF direct THEN {"commission"} ELSE {})
                  \cup (IF direct /\ Kind[s] = "confirm" THEN {"fee"} ELSE {})
                  \cup (IF cross THEN {"crossAward"} ELSE {})
                  \cup (IF (direct \/ cross) /\ owed > 0 THEN {"earnest", "earnestDebt"} ELSE {})
                  \cup (IF \E side \in {"L", "R"} : ExtensionSide(StudentOf[o], a, side)
                        THEN {"extension"} ELSE {})
  <2>1. S \in SUBSET (Source \ {"conversion"})
    BY DEF Source
  <2>2. Awards(s, n, owed) = {[orderid |-> o, accountid |-> a, source |-> src,
                    amount |-> Amount[src], by |-> s, mark |-> "plain", undoneBy |-> NULL] : src \in S}
    BY Zenon DEF Awards
  <2> HIDE DEF S, a, o
  <2>3. Awards(s, n, owed) = {m[src] : src \in S}
    BY <2>1, <2>2
  <2> QED
    BY <2>1, <2>3
<1>2. o \in Order /\ a \in Agent
  BY PayeeRow, RaceAssumption
<1>3. \A src \in Source : Amount[src] \in Int
  BY RaceAssumption
<1>4. ASSUME NEW src \in S
      PROVE  /\ m[src] \in Row /\ m[src].orderid = o /\ m[src].accountid = a
             /\ m[src].mark = "plain" /\ m[src].by = s /\ m[src].undoneBy = NULL
             /\ m[src].source = src /\ src # "conversion"
  <2> HIDE DEF a, o
  <2>1. src \in Source
    BY <1>1
  <2> QED
    BY <1>1, <1>2, <1>3, <2>1 DEF Row
<1>5. IsFiniteSet(S)
  <2>1. IsFiniteSet(Source)
    <3>1. Source = {"commission", "conversion", "earnest"} \cup {"earnestDebt", "fee", "crossAward"}
                     \cup {"extension"}
      BY DEF Source
    <3>2. /\ IsFiniteSet({"commission"} \cup {"conversion"} \cup {"earnest"})
          /\ IsFiniteSet({"earnestDebt"} \cup {"fee"} \cup {"crossAward"})
          /\ IsFiniteSet({"extension"})
      BY FS_Singleton, FS_Union
    <3>3. /\ {"commission"} \cup {"conversion"} \cup {"earnest"} = {"commission", "conversion", "earnest"}
          /\ {"earnestDebt"} \cup {"fee"} \cup {"crossAward"} = {"earnestDebt", "fee", "crossAward"}
      OBVIOUS
    <3> QED
      BY <3>1, <3>2, <3>3, FS_Union
  <2> QED
    BY <1>1, <2>1, FS_Subset
<1> HIDE DEF m
<1>6. IsFiniteSet({m[x] : x \in S})
  BY <1>5, ImageFinite
<1> QED
  BY <1>1, <1>4, <1>6

LEMMA ConversionShape ==
    ASSUME NEW s \in Session
    PROVE  /\ IsFiniteSet(Conversion(s))
           /\ Conversion(s) \in SUBSET Row
           /\ \A r \in Conversion(s) :
                 /\ r.orderid = OrderOf[s] /\ r.accountid = CouponAgent[OrderOf[s]]
                 /\ r.mark = "plain" /\ r.by = s /\ r.undoneBy = NULL
                 /\ r.source = "conversion"
           /\ \A r1, r2 \in Conversion(s) : r1 = r2
<1>1. /\ OrderOf[s] \in Order /\ CouponAgent[OrderOf[s]] \in Agent
      /\ Amount["conversion"] \in Int /\ "conversion" \in Source
  BY RaceAssumption DEF Source
<1>2. IsFiniteSet(Conversion(s))
  BY FS_Singleton DEF Conversion
<1>3. Conversion(s) \in SUBSET Row
  BY <1>1 DEF Conversion, Row
<1> QED
  BY <1>2, <1>3 DEF Conversion

LEMMA RowsAreRows ==
    ASSUME TypeOK, NEW s \in Session
    PROVE  /\ txn[s] \in Transaction
           /\ txn[s].rows \in SUBSET Row /\ txn[s].todo \in SUBSET Row /\ txn[s].prefixed \in SUBSET Row
           /\ OrderOf[s] \in Order /\ StudentOf[OrderOf[s]] \in Student
           /\ CouponAgent[OrderOf[s]] \in Agent
           /\ Kind[s] \in SessionKind /\ s # NULL
BY RaceAssumption DEF TypeOK, Transaction

\* The sessions that do not step keep what they have.
LEMMA OthersFit ==
    ASSUME IInv, NEW s \in Session, NEW t \in Session, txn'[t] = txn[t], s # t,
           \A a \in Agent : lock[a] = t => lock'[a] = t,
           \A r \in ledger : r \in ledger' \/ Revoked(r) \in ledger',
           \A r \in ledger : r.mark = "revoked" => r \in ledger'
    PROVE  (RowsFit(t) /\ CursorFit(t) /\ StepFit(t))'
<1>1. RowsFit(t) /\ CursorFit(t) /\ StepFit(t) /\ TypeOK
  BY DEF IInv, SessionsFit
<1>2. RowsFit(t)'
  <2>1. \A r \in txn[t].rows : r.accountid \in Agent
    BY <1>1, RowsAreRows DEF Row
  <2> QED
    BY <1>1, <2>1 DEF RowsFit
<1>3. ASSUME NEW R, Seen(R) PROVE Seen(R)'
  <2> SUFFICES ASSUME NEW r \in R PROVE r \in ledger' \/ Revoked(r) \in ledger'
    BY <1>3 DEF Seen
  <2>1. r \in ledger \/ Revoked(r) \in ledger
    BY <1>3 DEF Seen
  <2>2. CASE r \in ledger
    BY <2>2
  <2>3. CASE Revoked(r) \in ledger
    <3>1. Revoked(r) \in Row
      BY <1>1, <2>3 DEF TypeOK
    <3>2. Revoked(r).mark = "revoked" \/ Revoked(r) = r
      BY <3>1 DEF Revoked
    <3> QED
      BY <2>2, <2>3, <3>2
  <2> QED
    BY <2>1, <2>2, <2>3
<1>4. CursorFit(t)'
  BY <1>1, <1>3 DEF CursorFit
<1>5. StepFit(t)'
  BY <1>1 DEF StepFit
<1> QED
  BY <1>2, <1>4, <1>5

\* A step that posts nothing.
LEMMA QuietFit ==
    ASSUME IInv, NEW s \in Session, ~ At(s, "done"), UNCHANGED <<table, ledger>>,
           draft' \in Table, draft'.account = draft.account,
           lock' \in [Lockable -> Session \cup {NULL}], \A a \in Agent : lock'[a] = lock[a],
           txn' \in [Session -> Transaction], \A t \in Session \ {s} : txn'[t] = txn[t],
           txn'[s].rows = txn[s].rows, CursorFit(s)', StepFit(s)'
    PROVE  IInv'
<1>1. TypeOK /\ TypeOK'
  BY DEF IInv, TypeOK
<1>2. LedgerMatchesBalances'
  BY DEF IInv, LedgerMatchesBalances, Opening
<1>3. RowsFit(s)'
  <2>1. RowsFit(s) /\ \A r \in txn[s].rows : r.accountid \in Agent
    BY <1>1, RowsAreRows DEF IInv, SessionsFit, Row
  <2> QED
    BY <2>1 DEF RowsFit
<1>4. ASSUME NEW t \in Session, t # s PROVE (RowsFit(t) /\ CursorFit(t) /\ StepFit(t))'
  BY <1>4, OthersFit
<1>5. SessionsFit'
  BY <1>3, <1>4 DEF SessionsFit
<1>6. AccountsFit'
  <2>1. \A t \in Session : txn'[t].rows = txn[t].rows
    OBVIOUS
  <2> QED
    BY <2>1 DEF IInv, AccountsFit
<1>7. LedgerFit'
  <2>1. ASSUME NEW t \in Session, At(t, "done") PROVE At(t, "done")'
    BY <2>1 DEF At
  <2>2. \A r \in ledger : r.by \in Session
    BY <1>1 DEF TypeOK, Row
  <2> QED
    BY <2>1, <2>2 DEF IInv, LedgerFit
<1> QED
  BY <1>1, <1>2, <1>5, <1>6, <1>7 DEF IInv

\* A step that posts rows to an account.
LEMMA PostFit ==
    ASSUME IInv, NEW s \in Session, ~ At(s, "done"), NEW a \in Agent, NEW R \in SUBSET Row,
           IsFiniteSet(R), R \cap txn[s].rows = {}, Post(s, a, R),
           \A r \in R :
              /\ r.accountid = a /\ r.orderid = OrderOf[s]
              /\ IF Kind[s] = "revoke" THEN r.mark = "reversal" /\ r.undoneBy = s
                 ELSE r.mark = "plain" /\ r.by = s /\ r.undoneBy = NULL,
           txn' \in [Session -> Transaction], \A t \in Session \ {s} : txn'[t] = txn[t],
           txn'[s].rows = txn[s].rows \cup R, CursorFit(s)', StepFit(s)'
    PROVE  IInv'
<1>0. TypeOK /\ SessionsFit /\ AccountsFit /\ s # NULL
  BY RowsAreRows DEF IInv
<1>1. /\ lock[a] \in {s, NULL} /\ lock' = [lock EXCEPT ![a] = s]
      /\ draft' = [draft EXCEPT !.account[a] = Posted(s, a, R)]
      /\ UNCHANGED <<table, ledger>>
  BY DEF Post, Acquire
<1>2. a \in Lockable /\ lock'[a] = s /\ \A x \in Lockable \ {a} : lock'[x] = lock[x]
  BY <1>0, <1>1 DEF TypeOK, Lockable
<1>3. \A c \in Column : draft.account[a][c] \in Int /\ table.account[a][c] \in Int
  BY <1>0 DEF TypeOK, Table
<1>4. Posted(s, a, R) \in [Column -> Int]
  BY <1>3, TotalOf DEF Posted
<1>5. /\ draft' \in Table /\ draft'.account[a] = Posted(s, a, R)
      /\ \A b \in Agent \ {a} : draft'.account[b] = draft.account[b]
  BY <1>0, <1>1, <1>4 DEF TypeOK, Table
<1>6. TypeOK'
  BY <1>0, <1>1, <1>5 DEF TypeOK, Lockable
<1>7. LedgerMatchesBalances'
  BY <1>1 DEF IInv, LedgerMatchesBalances, Opening
<1>8. RowsFit(s) /\ txn[s].rows \in SUBSET Row
  BY <1>0, RowsAreRows DEF SessionsFit
<1>9. RowsFit(s)'
  <2>1. \A r \in txn[s].rows : r.accountid \in Lockable
    BY <1>8 DEF Row, Lockable
  <2>2. IsFiniteSet(txn[s].rows \cup R)
    BY <1>8, FS_Union DEF RowsFit
  <2> QED
    BY <1>2, <1>8, <2>1, <2>2 DEF RowsFit
<1>10. SessionsFit'
  <2>1. ASSUME NEW t \in Session, t # s PROVE (RowsFit(t) /\ CursorFit(t) /\ StepFit(t))'
    <3>1. \A b \in Agent : lock[b] = t => lock'[b] = t
      BY <1>0, <1>1, <1>2, <2>1, RowsAreRows DEF Lockable
    <3>2. txn'[t] = txn[t]
      BY <2>1
    <3> QED
      BY <1>1, <2>1, <3>1, <3>2, OthersFit
  <2> QED
    BY <1>9, <2>1 DEF SessionsFit
<1>11. AccountsFit'
  <2>1. ASSUME NEW c \in Column
        PROVE  draft'.account[a][c] = table'.account[a][c] + Total(RowsAt(txn'[s].rows, a), c)
    <3>1. RowsAt(txn'[s].rows, a) = RowsAt(txn[s].rows, a) \cup R
      BY DEF RowsAt
    <3>2. /\ RowsAt(txn[s].rows, a) \in SUBSET Row /\ IsFiniteSet(RowsAt(txn[s].rows, a))
          /\ RowsAt(txn[s].rows, a) \cap R = {}
      BY <1>8, FS_Subset DEF RowsAt, RowsFit
    <3>3. /\ Total(RowsAt(txn[s].rows, a) \cup R, c) = Total(RowsAt(txn[s].rows, a), c) + Total(R, c)
          /\ Total(RowsAt(txn[s].rows, a), c) \in Int /\ Total(R, c) \in Int
      BY <3>2, TotalUnion
    <3>4. draft.account[a][c] = table.account[a][c] + Total(RowsAt(txn[s].rows, a), c)
      <4>1. CASE lock[a] = s
        BY <1>0, <4>1 DEF AccountsFit
      <4>2. CASE lock[a] = NULL
        <5>1. RowsAt(txn[s].rows, a) = {}
          BY <1>0, <1>8, <4>2 DEF RowsAt, RowsFit
        <5>2. draft.account[a][c] = table.account[a][c]
          BY <1>0, <4>2 DEF AccountsFit
        <5> QED
          BY <1>3, <5>1, <5>2, TotalEmpty
      <4> QED
        BY <1>1, <4>1, <4>2
    <3>5. draft'.account[a][c] = draft.account[a][c] + Total(R, c)
      <4>1. Posted(s, a, R)[c] = draft.account[a][c] + Total(R, c)
        BY DEF Posted
      <4>2. draft'.account[a][c] = Posted(s, a, R)[c]
        BY <1>5, Zenon
      <4> QED
        BY <4>1, <4>2
    <3>6. Total(RowsAt(txn'[s].rows, a), c) = Total(RowsAt(txn[s].rows, a), c) + Total(R, c)
      BY <3>1, <3>3, Zenon
    <3>7. table'.account[a][c] = table.account[a][c] /\ table.account[a][c] \in Int
      BY <1>1, <1>3
    <3> QED
      BY <3>3, <3>4, <3>5, <3>6, <3>7
  <2>2. ASSUME NEW b \in Agent, b # a
        PROVE  /\ lock'[b] = lock[b] /\ draft'.account[b] = draft.account[b]
               /\ RowsAt(txn'[s].rows, b) = RowsAt(txn[s].rows, b)
    <3>1. RowsAt(R, b) = {}
      BY <2>2 DEF RowsAt
    <3> QED
      BY <1>2, <1>5, <2>2, <3>1 DEF RowsAt, Lockable
  <2>3. ASSUME NEW b \in Agent, lock'[b] = NULL PROVE draft'.account[b] = table'.account[b]
    BY <1>0, <1>1, <1>2, <2>2, <2>3 DEF AccountsFit
  <2>4. ASSUME NEW b \in Agent, NEW t \in Session, lock'[b] = t, NEW c \in Column
        PROVE  draft'.account[b][c] = table'.account[b][c] + Total(RowsAt(txn'[t].rows, b), c)
    <3>1. CASE b = a
      BY <1>2, <2>1, <2>4, <3>1
    <3>2. CASE b # a
      <4>1. RowsAt(txn'[t].rows, b) = RowsAt(txn[t].rows, b)
        BY <2>2, <3>2
      <4>2. draft.account[b][c] = table.account[b][c] + Total(RowsAt(txn[t].rows, b), c)
        BY <1>0, <2>2, <2>4, <3>2 DEF AccountsFit
      <4> QED
        BY <1>1, <2>2, <3>2, <4>1, <4>2
    <3> QED
      BY <3>1, <3>2
  <2> QED
    BY <2>3, <2>4 DEF AccountsFit
<1>12. LedgerFit'
  BY <1>0, <1>1 DEF IInv, LedgerFit, At, TypeOK, Row
<1> QED
  BY <1>6, <1>7, <1>10, <1>11, <1>12 DEF IInv

-----------------------------------------------------------------------------
(* Transactions end.                                                       *)

LEMMA EndFit ==
    ASSUME IInv, NEW s \in Session, NEW step \in {"done", "aborted"}, NEW t \in Table, NEW d \in Table,
           lock' = Released(s), txn' = Ended(s, step)
    PROVE  /\ Copy(t, d, s) \in Table
           /\ lock' \in [Lockable -> Session \cup {NULL}] /\ txn' \in [Session -> Transaction]
           /\ txn'[s].step = step /\ txn'[s].rows = {}
           /\ \A u \in Session \ {s} : txn'[u] = txn[u]
           /\ \A x \in Lockable : lock'[x] = IF lock[x] = s THEN NULL ELSE lock[x]
           /\ (RowsFit(s) /\ CursorFit(s) /\ StepFit(s))'
<1>1. TypeOK /\ s # NULL
  BY RowsAreRows DEF IInv
<1>2. Copy(t, d, s) \in Table
  BY DEF Copy, Table
<1>3. lock' \in [Lockable -> Session \cup {NULL}]
  BY <1>1 DEF TypeOK, Released
<1>4. [step |-> step, status |-> NULL, n |-> 0, owed |-> 0, todo |-> {}, rows |-> {}, prefixed |-> {}]
        \in Transaction
  BY DEF Transaction, Step
<1>5. /\ txn'[s] = [step |-> step, status |-> NULL, n |-> 0, owed |-> 0, todo |-> {}, rows |-> {},
                    prefixed |-> {}]
      /\ txn' \in [Session -> Transaction] /\ \A u \in Session \ {s} : txn'[u] = txn[u]
  BY <1>1, <1>4 DEF TypeOK, Ended
<1>6. \A x \in Lockable : lock'[x] = IF lock[x] = s THEN NULL ELSE lock[x]
  BY DEF Released
<1>7. txn'[s].step = step /\ txn'[s].rows = {} /\ txn'[s].todo = {} /\ txn'[s].prefixed = {}
  BY <1>5
<1>8. RowsFit(s)' /\ CursorFit(s)'
  BY <1>7, FS_EmptySet DEF RowsFit, CursorFit, Seen
<1>9. StepFit(s)'
  BY <1>7 DEF StepFit
<1> QED
  BY <1>2, <1>3, <1>5, <1>6, <1>7, <1>8, <1>9

LEMMA RollbackFit ==
    ASSUME IInv, NEW s \in Session, ~ At(s, "done"), Rollback(s)
    PROVE  IInv'
<1>0. TypeOK /\ SessionsFit /\ AccountsFit /\ s # NULL
  BY RowsAreRows DEF IInv
<1>1. /\ draft' = Copy(draft, table, s) /\ lock' = Released(s) /\ txn' = Ended(s, "aborted")
      /\ UNCHANGED <<table, ledger>>
  BY DEF Rollback
<1>2. draft \in Table /\ table \in Table
  BY <1>0 DEF TypeOK
<1>3. /\ draft' \in Table
      /\ lock' \in [Lockable -> Session \cup {NULL}] /\ txn' \in [Session -> Transaction]
      /\ txn'[s].step = "aborted" /\ txn'[s].rows = {}
      /\ \A u \in Session \ {s} : txn'[u] = txn[u]
      /\ \A x \in Lockable : lock'[x] = IF lock[x] = s THEN NULL ELSE lock[x]
      /\ (RowsFit(s) /\ CursorFit(s) /\ StepFit(s))'
  BY <1>1, <1>2, EndFit
<1>4. TypeOK'
  BY <1>0, <1>1, <1>3 DEF TypeOK
<1>5. LedgerMatchesBalances'
  BY <1>1 DEF IInv, LedgerMatchesBalances, Opening
<1>6. SessionsFit'
  <2>1. ASSUME NEW t \in Session, t # s PROVE (RowsFit(t) /\ CursorFit(t) /\ StepFit(t))'
    <3>1. \A b \in Agent : lock[b] = t => lock'[b] = t
      BY <1>3, <2>1 DEF Lockable
    <3>2. txn'[t] = txn[t]
      BY <1>3, <2>1
    <3> QED
      BY <1>1, <2>1, <3>1, <3>2, OthersFit
  <2> QED
    BY <1>3, <2>1 DEF SessionsFit
<1>7. AccountsFit'
  <2>1. ASSUME NEW a \in Agent
        PROVE  draft'.account[a] = IF lock[a] = s THEN table.account[a] ELSE draft.account[a]
    BY <1>1 DEF Copy
  <2>2. ASSUME NEW a \in Agent, lock'[a] = NULL PROVE draft'.account[a] = table'.account[a]
    BY <1>0, <1>1, <1>3, <2>1, <2>2 DEF AccountsFit, Lockable
  <2>3. ASSUME NEW a \in Agent, NEW t \in Session, lock'[a] = t, NEW c \in Column
        PROVE  draft'.account[a][c] = table'.account[a][c] + Total(RowsAt(txn'[t].rows, a), c)
    <3>1. lock[a] = t /\ t # s
      BY <1>3, <2>3, RowsAreRows, <1>0 DEF Lockable
    <3>2. txn'[t].rows = txn[t].rows
      BY <1>3, <3>1
    <3>3. draft'.account[a][c] = draft.account[a][c] /\ table'.account[a][c] = table.account[a][c]
      BY <1>1, <2>1, <3>1
    <3>4. draft.account[a][c] = table.account[a][c] + Total(RowsAt(txn[t].rows, a), c)
      BY <1>0, <3>1 DEF AccountsFit
    <3> QED
      BY <3>2, <3>3, <3>4
  <2> QED
    BY <2>2, <2>3 DEF AccountsFit
<1>8. LedgerFit'
  <2>1. ASSUME NEW t \in Session, At(t, "done") PROVE At(t, "done")'
    BY <1>3, <2>1 DEF At
  <2>2. \A r \in ledger : r.by \in Session
    BY <1>0 DEF TypeOK, Row
  <2> QED
    BY <1>1, <2>1, <2>2 DEF IInv, LedgerFit
<1> QED
  BY <1>4, <1>5, <1>6, <1>7, <1>8 DEF IInv

\* The ledger after a commit: what was read as plain is revoked, and the rows are new.
Marked(s) == [r \in ledger |-> IF r \in txn[s].prefixed THEN Revoked(r) ELSE r]

LEMMA RevokedRow ==
    ASSUME NEW r \in Row
    PROVE  /\ Revoked(r) \in Row /\ Revoked(r).mark = "revoked"
           /\ Revoked(r).orderid = r.orderid /\ Revoked(r).accountid = r.accountid
           /\ Revoked(r).source = r.source /\ Revoked(r).amount = r.amount
           /\ Revoked(r).by = r.by /\ Revoked(r).undoneBy = r.undoneBy
           /\ r.mark = "revoked" => Revoked(r) = r
BY DEF Row, Revoked

LEMMA RevokedOnce ==
    ASSUME NEW r \in Row, NEW q \in Row, r.mark = "plain", q.mark = "plain", Revoked(r) = Revoked(q)
    PROVE  r = q
<1>1. /\ r.orderid = q.orderid /\ r.accountid = q.accountid /\ r.source = q.source
      /\ r.amount = q.amount /\ r.by = q.by /\ r.undoneBy = q.undoneBy
  BY RevokedRow
<1> QED
  BY <1>1 DEF Row

LEMMA LedgerCommits ==
    ASSUME IInv, NEW s \in Session, Commit(s)
    PROVE  /\ ledger' = {Marked(s)[r] : r \in ledger} \cup txn[s].rows
           /\ \A r \in ledger : /\ Marked(s)[r] \in Row /\ Marked(s)[r].amount = r.amount
                                /\ Marked(s)[r].source = r.source
                                /\ Marked(s)[r].accountid = r.accountid
                                /\ Marked(s)[r].by = r.by /\ Marked(s)[r].undoneBy = r.undoneBy
                                /\ Marked(s)[r] = r \/ (Marked(s)[r] = Revoked(r) /\ r.mark = "plain")
           /\ \A r, q \in ledger : Marked(s)[r] = Marked(s)[q] => r = q
           /\ {Marked(s)[r] : r \in ledger} \cap txn[s].rows = {}
<1> DEFINE P == txn[s].prefixed
           m == Marked(s)
<1>0. /\ ledger \subseteq Row /\ P \subseteq Row /\ txn[s].rows \subseteq Row
      /\ RowsFit(s) /\ Seen(P) /\ LedgerFit /\ ~ At(s, "done")
  BY RowsAreRows DEF IInv, SessionsFit, CursorFit, TypeOK, Commit, At
<1>1. ledger' = (ledger \ P) \cup {Revoked(r) : r \in P} \cup txn[s].rows
  BY Zenon DEF Commit, Revoked
<1>2. \A r \in ledger : m[r] = IF r \in P THEN Revoked(r) ELSE r
  BY DEF Marked
<1>3. \A r \in P : r.mark = "plain" /\ (r \in ledger \/ Revoked(r) \in ledger)
  BY <1>0 DEF Seen
<1>4. (ledger \ P) \cup {Revoked(r) : r \in P} = {m[r] : r \in ledger}
  <2>1. ASSUME NEW r \in P PROVE Revoked(r) \in {m[q] : q \in ledger}
    <3>1. CASE r \in ledger
      BY <1>2, <3>1
    <3>2. CASE Revoked(r) \in ledger
      <4>1. Revoked(r).mark = "revoked"
        BY <1>0, RevokedRow
      <4>2. Revoked(r) \notin P
        BY <1>3, <4>1
      <4> QED
        BY <1>2, <3>2, <4>2
    <3> QED
      BY <1>3, <3>1, <3>2
  <2>2. \A r \in ledger \ P : r \in {m[q] : q \in ledger}
    BY <1>2
  <2>3. \A r \in ledger : m[r] \in (ledger \ P) \cup {Revoked(q) : q \in P}
    BY <1>2
  <2> HIDE DEF P, m
  <2> QED
    BY <2>1, <2>2, <2>3
<1>5. ASSUME NEW r \in ledger
      PROVE  /\ m[r] \in Row /\ m[r].amount = r.amount /\ m[r].source = r.source
             /\ m[r].accountid = r.accountid /\ m[r].by = r.by /\ m[r].undoneBy = r.undoneBy
             /\ m[r] = r \/ (m[r] = Revoked(r) /\ r.mark = "plain")
  <2>1. r \in Row
    BY <1>0
  <2>2. CASE r \in P
    <3>1. m[r] = Revoked(r) /\ r.mark = "plain"
      BY <1>2, <1>3, <2>2
    <3> HIDE DEF m
    <3> QED
      BY <2>1, <3>1, RevokedRow
  <2>3. CASE r \notin P
    <3>1. m[r] = r
      BY <1>2, <2>3
    <3> HIDE DEF m
    <3> QED
      BY <2>1, <3>1, Zenon
  <2> QED
    BY <2>2, <2>3
<1>6. ASSUME NEW r \in ledger, NEW q \in ledger, m[r] = m[q] PROVE r = q
  <2>1. r \in Row /\ q \in Row
    BY <1>0
  <2>2. CASE r \in P /\ q \in P
    BY <1>2, <1>3, <1>6, <2>1, <2>2, RevokedOnce
  <2>3. CASE r \in P /\ q \notin P
    BY <1>0, <1>2, <1>3, <1>6, <2>3 DEF LedgerFit
  <2>4. CASE r \notin P /\ q \in P
    BY <1>0, <1>2, <1>3, <1>6, <2>4 DEF LedgerFit
  <2>5. CASE r \notin P /\ q \notin P
    BY <1>2, <1>6, <2>5
  <2> QED
    BY <2>2, <2>3, <2>4, <2>5
<1>7. ASSUME NEW r \in ledger, m[r] \in txn[s].rows PROVE FALSE
  <2>1. m[r].mark # "revoked"
    BY <1>0, <1>7 DEF RowsFit
  <2>2. m[r] = r
    BY <1>0, <1>2, <2>1, RevokedRow
  <2> QED
    BY <1>0, <1>7, <2>2 DEF RowsFit, LedgerFit
<1> HIDE DEF m
<1>8. {m[r] : r \in ledger} \cap txn[s].rows = {}
  BY <1>7
<1>9. ledger' = {m[r] : r \in ledger} \cup txn[s].rows
  BY <1>1, <1>4
<1> QED
  BY <1>5, <1>6, <1>8, <1>9 DEF m

LEMMA CommitFit ==
    ASSUME IInv, NEW s \in Session, Commit(s)
    PROVE  IInv'
<1> DEFINE m == Marked(s)
           old == {m[r] : r \in ledger}
           rows == txn[s].rows
<1>0. TypeOK /\ SessionsFit /\ AccountsFit /\ LedgerFit /\ s # NULL /\ ~ At(s, "done")
  BY RowsAreRows DEF IInv, Commit, At
<1>1. /\ table' = Copy(table, draft, s) /\ lock' = Released(s) /\ txn' = Ended(s, "done")
      /\ draft' = draft
  BY Zenon DEF Commit
<1>2. draft \in Table /\ table \in Table
  BY <1>0 DEF TypeOK
<1>3. /\ table' \in Table
      /\ lock' \in [Lockable -> Session \cup {NULL}] /\ txn' \in [Session -> Transaction]
      /\ txn'[s].step = "done" /\ txn'[s].rows = {}
      /\ \A u \in Session \ {s} : txn'[u] = txn[u]
      /\ \A x \in Lockable : lock'[x] = IF lock[x] = s THEN NULL ELSE lock[x]
      /\ (RowsFit(s) /\ CursorFit(s) /\ StepFit(s))'
  BY <1>1, <1>2, EndFit
<1>4. /\ ledger' = old \cup rows
      /\ \A r \in ledger : /\ m[r] \in Row /\ m[r].amount = r.amount
                           /\ m[r].source = r.source /\ m[r].accountid = r.accountid
                           /\ m[r].by = r.by /\ m[r].undoneBy = r.undoneBy
                           /\ m[r] = r \/ (m[r] = Revoked(r) /\ r.mark = "plain")
      /\ \A r, q \in ledger : m[r] = m[q] => r = q
      /\ old \cap rows = {}
  BY LedgerCommits
<1>5. rows \in SUBSET Row /\ RowsFit(s) /\ IsFiniteSet(rows) /\ ledger \in SUBSET Row /\ IsFiniteSet(ledger)
  BY <1>0, RowsAreRows DEF SessionsFit, RowsFit, TypeOK, LedgerFit
<1> HIDE DEF m
<1>6. old \in SUBSET Row
  BY <1>4
<1>7. TypeOK'
  BY <1>1, <1>2, <1>3, <1>4, <1>5, <1>6 DEF TypeOK
<1>8. ASSUME NEW a \in Agent
      PROVE  table'.account[a] = IF lock[a] = s THEN draft.account[a] ELSE table.account[a]
  BY <1>1 DEF Copy
<1>9. LedgerMatchesBalances'
  <2> SUFFICES ASSUME NEW a \in Agent, NEW c \in Column
               PROVE  table'.account[a][c] = Opening.account[a][c] + Total(RowsAt(ledger', a), c)
    BY DEF LedgerMatchesBalances, Opening, RowsAt
  <2>1. table.account[a][c] = Opening.account[a][c] + Total(RowsAt(ledger, a), c)
    BY DEF IInv, LedgerMatchesBalances, RowsAt
  <2>2. /\ RowsAt(ledger, a) \in SUBSET Row /\ IsFiniteSet(RowsAt(ledger, a))
        /\ RowsAt(rows, a) \in SUBSET Row /\ IsFiniteSet(RowsAt(rows, a))
    BY <1>5, FS_Subset DEF RowsAt
  <2> DEFINE A == {m[r] : r \in RowsAt(ledger, a)}
  <2>3. RowsAt(ledger', a) = A \cup RowsAt(rows, a)
    BY <1>4 DEF RowsAt
  <2>4. /\ \A r \in RowsAt(ledger, a) : m[r] \in Row /\ m[r].amount = r.amount /\ m[r].source = r.source
        /\ \A r, q \in RowsAt(ledger, a) : m[r] = m[q] => r = q
    BY <1>4 DEF RowsAt
  <2>5. IsFiniteSet(A) /\ Total(A, c) = Total(RowsAt(ledger, a), c)
    <3> DEFINE R == RowsAt(ledger, a)
    <3>1. R \in SUBSET Row /\ IsFiniteSet(R)
      BY <2>2
    <3>2. \A r \in R : m[r] \in Row /\ m[r].amount = r.amount /\ m[r].source = r.source
      BY <2>4
    <3>3. \A r, q \in R : m[r] = m[q] => r = q
      BY <2>4
    <3> HIDE DEF R
    <3>4. IsFiniteSet({m[r] : r \in R}) /\ Total({m[r] : r \in R}, c) = Total(R, c)
      BY ONLY <3>1, <3>2, <3>3, TotalImage
    <3> QED
      BY <3>4 DEF R
  <2>6. A \in SUBSET Row /\ A \cap RowsAt(rows, a) = {}
    BY <1>4, <2>4 DEF RowsAt
  <2> HIDE DEF A, rows, old
  <2>7. /\ Total(A \cup RowsAt(rows, a), c) = Total(A, c) + Total(RowsAt(rows, a), c)
        /\ Total(A, c) \in Int /\ Total(RowsAt(rows, a), c) \in Int
    BY <2>2, <2>5, <2>6, TotalUnion
  <2>8. Total(RowsAt(ledger', a), c) = Total(RowsAt(ledger, a), c) + Total(RowsAt(rows, a), c)
    BY <2>3, <2>5, <2>7, Zenon
  <2>9. table'.account[a][c] = table.account[a][c] + Total(RowsAt(rows, a), c)
    <3>1. CASE lock[a] = s
      BY <1>0, <1>8, <3>1 DEF AccountsFit, rows
    <3>2. CASE lock[a] # s
      <4>1. RowsAt(rows, a) = {}
        BY <1>5, <3>2 DEF RowsAt, RowsFit, rows
      <4>2. table.account[a][c] \in Int
        BY <1>2 DEF Table
      <4> QED
        BY <1>8, <3>2, <4>1, <4>2, TotalEmpty
    <3> QED
      BY <3>1, <3>2
  <2>10. Opening.account[a][c] \in Int
    BY RaceAssumption DEF Opening
  <2>11. Total(RowsAt(ledger, a), c) \in Int
    BY <2>2, TotalOf
  <2> QED
    BY <2>1, <2>7, <2>8, <2>9, <2>10, <2>11
<1>10. SessionsFit'
  <2>1. ASSUME NEW t \in Session, t # s PROVE (RowsFit(t) /\ CursorFit(t) /\ StepFit(t))'
    <3>1. \A b \in Agent : lock[b] = t => lock'[b] = t
      BY <1>3, <2>1 DEF Lockable
    <3>2. txn'[t] = txn[t]
      BY <1>3, <2>1
    <3>3. \A r \in ledger : m[r] \in ledger'
      BY <1>4
    <3>4. \A r \in ledger : r \in ledger' \/ Revoked(r) \in ledger'
      BY <1>4, <3>3
    <3>5. \A r \in ledger : r.mark = "revoked" => r \in ledger'
      BY <1>4, <3>3
    <3> QED
      BY <2>1, <3>1, <3>2, <3>4, <3>5, OthersFit
  <2> QED
    BY <1>3, <2>1 DEF SessionsFit
<1>11. AccountsFit'
  <2>2. ASSUME NEW a \in Agent, lock'[a] = NULL PROVE draft'.account[a] = table'.account[a]
    BY <1>0, <1>1, <1>3, <1>8, <2>2 DEF AccountsFit, Lockable
  <2>3. ASSUME NEW a \in Agent, NEW t \in Session, lock'[a] = t, NEW c \in Column
        PROVE  draft'.account[a][c] = table'.account[a][c] + Total(RowsAt(txn'[t].rows, a), c)
    <3>1. lock[a] = t /\ t # s
      BY <1>3, <2>3, RowsAreRows, <1>0 DEF Lockable
    <3>2. txn'[t].rows = txn[t].rows
      BY <1>3, <3>1
    <3>3. draft'.account[a][c] = draft.account[a][c] /\ table'.account[a][c] = table.account[a][c]
      BY <1>1, <1>8, <3>1
    <3>4. draft.account[a][c] = table.account[a][c] + Total(RowsAt(txn[t].rows, a), c)
      BY <1>0, <3>1 DEF AccountsFit
    <3> QED
      BY <3>2, <3>3, <3>4
  <2> QED
    BY <2>2, <2>3 DEF AccountsFit
<1>12. LedgerFit'
  <2>1. ASSUME NEW t \in Session, At(t, "done") \/ t = s PROVE txn'[t].step = "done"
    BY <1>3, <2>1 DEF At
  <2>2. \A r \in ledger : r.by \in Session
    BY <1>5 DEF Row
  <2>3. IsFiniteSet(ledger')
    <3>1. IsFiniteSet(old)
      BY <1>5, ImageFinite
    <3> QED
      BY <1>4, <1>5, <3>1, FS_Union
  <2>4. ASSUME NEW r \in rows
        PROVE  IF r.mark = "reversal" THEN r.undoneBy \in Session /\ txn'[r.undoneBy].step = "done"
               ELSE /\ r.undoneBy = NULL /\ txn'[r.by].step = "done"
                    /\ r.mark = "plain" => Revoked(r) \notin ledger'
    <3>1. CASE r.mark = "reversal"
      BY <1>5, <2>1, <3>1 DEF RowsFit
    <3>2. CASE r.mark # "reversal"
      <4>1. r.mark = "plain" /\ r.by = s /\ r.undoneBy = NULL
        BY <1>5, <3>2 DEF RowsFit
      <4>2. r \in Row /\ Revoked(r).mark = "revoked" /\ Revoked(r).by = s
        BY <1>5, <4>1, RevokedRow
      <4>3. Revoked(r) \notin rows
        BY <1>5, <4>2 DEF RowsFit
      <4>4. ASSUME NEW q \in ledger, m[q] = Revoked(r) PROVE FALSE
        <5>1. q.by = s /\ q.mark # "reversal"
          BY <1>4, <4>2, <4>4
        <5> QED
          BY <1>0, <5>1 DEF LedgerFit
      <4> QED
        BY <1>4, <2>1, <3>2, <4>1, <4>3, <4>4
    <3> QED
      BY <3>1, <3>2
  <2>5. ASSUME NEW r \in ledger
        PROVE  IF m[r].mark = "reversal" THEN m[r].undoneBy \in Session /\ txn'[m[r].undoneBy].step = "done"
               ELSE /\ m[r].undoneBy = NULL /\ txn'[m[r].by].step = "done"
                    /\ m[r].mark = "plain" => Revoked(m[r]) \notin ledger'
    <3>0. r \in Row
      BY <1>5
    <3>1. CASE m[r].mark = "reversal"
      <4>1. m[r] = r
        BY <1>4, <3>0, <3>1, RevokedRow
      <4> QED
        BY <1>0, <2>1, <3>1, <4>1 DEF LedgerFit
    <3>2. CASE m[r].mark # "reversal"
      <4>1. r.mark # "reversal"
        BY <1>4, <3>2
      <4>2. m[r].undoneBy = NULL /\ txn'[m[r].by].step = "done"
        BY <1>0, <1>4, <2>1, <2>2, <4>1 DEF LedgerFit
      <4>3. ASSUME m[r].mark = "plain", Revoked(m[r]) \in ledger' PROVE FALSE
        <5>1. m[r] = r
          BY <1>4, <3>0, <4>3, RevokedRow
        <5>2. Revoked(r).mark = "revoked" /\ Revoked(r) \notin rows
          BY <1>5, <3>0, RevokedRow DEF RowsFit
        <5>3. PICK q \in ledger : m[q] = Revoked(r)
          BY <1>4, <4>3, <5>1, <5>2
        <5>4. m[q] # q
          BY <1>0, <4>3, <5>1, <5>3 DEF LedgerFit
        <5>5. m[q] = Revoked(q) /\ q.mark = "plain" /\ q \in Row
          BY <1>4, <1>5, <5>4
        <5>6. q = r
          BY <3>0, <4>3, <5>1, <5>3, <5>5, RevokedOnce
        <5> QED
          BY <5>1, <5>4, <5>6
      <4> QED
        BY <3>2, <4>2, <4>3
    <3> QED
      BY <3>1, <3>2
  <2> HIDE DEF rows
  <2> QED
    BY <1>4, <2>3, <2>4, <2>5 DEF LedgerFit, At
<1> QED
  BY <1>7, <1>9, <1>10, <1>11, <1>12 DEF IInv

-----------------------------------------------------------------------------
(* Every step keeps the tables in balance.                                 *)

LEMMA GoShape ==
    ASSUME TypeOK, NEW s \in Session, NEW step \in Step, Go(s, step)
    PROVE  /\ txn' \in [Session -> Transaction] /\ \A t \in Session \ {s} : txn'[t] = txn[t]
           /\ txn'[s].step = step /\ txn'[s].status = txn[s].status /\ txn'[s].n = txn[s].n
           /\ txn'[s].owed = txn[s].owed /\ txn'[s].todo = txn[s].todo
           /\ txn'[s].rows = txn[s].rows /\ txn'[s].prefixed = txn[s].prefixed
<1>1. txn[s] \in Transaction /\ txn \in [Session -> Transaction]
  BY DEF TypeOK
<1>2. [txn[s] EXCEPT !.step = step] \in Transaction
  BY <1>1 DEF Transaction
<1> QED
  BY <1>1, <1>2 DEF Go, Transaction

LEMMA AcquireShape ==
    ASSUME TypeOK, NEW s \in Session, NEW x \in Order \cup Student, Acquire(s, x)
    PROVE  /\ lock' \in [Lockable -> Session \cup {NULL}]
           /\ \A a \in Agent : lock'[a] = lock[a]
           /\ lock'[x] = s /\ \A y \in Lockable \ {x} : lock'[y] = lock[y]
           /\ lock[x] \in {s, NULL} /\ x \in Lockable
BY RaceAssumption, TreeAssumption DEF TypeOK, Acquire, Lockable

LEMMA StatusShape ==
    ASSUME TypeOK, NEW o \in Order, NEW st \in Status, draft' = [draft EXCEPT !.status[o] = st]
    PROVE  /\ draft' \in Table /\ draft'.account = draft.account /\ draft'.granted = draft.granted
           /\ draft'.status = [draft.status EXCEPT ![o] = st]
BY DEF TypeOK, Table

LEMMA GrantedShape ==
    ASSUME TypeOK, NEW x \in Student, NEW k \in Int, draft' = [draft EXCEPT !.granted[x] = k]
    PROVE  /\ draft' \in Table /\ draft'.account = draft.account /\ draft'.status = draft.status
           /\ draft'.granted = [draft.granted EXCEPT ![x] = k]
BY DEF TypeOK, Table

\* A step that changes no more of what s remembers than where it is.
LEMMA GoFit ==
    ASSUME IInv, NEW s \in Session, ~ At(s, "done"), UNCHANGED <<table, ledger>>,
           draft' \in Table, draft'.account = draft.account,
           lock' \in [Lockable -> Session \cup {NULL}], \A a \in Agent : lock'[a] = lock[a],
           NEW step \in Step, Go(s, step), StepFit(s)'
    PROVE  IInv'
<1>1. TypeOK /\ CursorFit(s)
  BY DEF IInv, SessionsFit
<1>2. /\ txn' \in [Session -> Transaction] /\ \A t \in Session \ {s} : txn'[t] = txn[t]
      /\ txn'[s].rows = txn[s].rows /\ txn'[s].todo = txn[s].todo /\ txn'[s].prefixed = txn[s].prefixed
  BY <1>1, GoShape
<1>3. CursorFit(s)'
  BY <1>1, <1>2 DEF CursorFit, Seen
<1> QED
  BY <1>2, <1>3, QuietFit

\* The steps of pay_success and revoke_pay that post nothing.
LEMMA BeginFit == ASSUME IInv, NEW s \in Session, Begin(s) PROVE IInv'
<1>1. TypeOK /\ StepFit(s) /\ Kind[s] \in SessionKind
  BY RowsAreRows DEF IInv, SessionsFit
<1>2. At(s, "begin") /\ Go(s, FirstStep(s)) /\ UNCHANGED <<table, draft, ledger, lock>>
  BY DEF Begin
<1>3. FirstStep(s) \in Step /\ FirstStep(s) \in {"lock", "read"} /\ (FirstStep(s) = "lock" => Kind[s] # "revoke")
  BY <1>1 DEF FirstStep, Step
<1>4. StepFit(s)'
  BY <1>1, <1>2, <1>3, GoShape DEF StepFit, At
<1> QED
  BY <1>1, <1>2, <1>3, <1>4, GoFit DEF At, TypeOK

LEMMA LockOrderFit == ASSUME IInv, NEW s \in Session, LockOrder(s) PROVE IInv'
<1>1. TypeOK /\ StepFit(s) /\ OrderOf[s] \in Order
  BY RowsAreRows DEF IInv, SessionsFit
<1>2. At(s, "lock") /\ Acquire(s, OrderOf[s]) /\ Go(s, "read") /\ UNCHANGED <<table, draft, ledger>>
  BY DEF LockOrder
<1>3. StepFit(s)'
  BY <1>1, <1>2, GoShape DEF StepFit, At, Step
<1> QED
  BY <1>1, <1>2, <1>3, AcquireShape, GoFit DEF At, TypeOK, Step

LEMMA ReadFit == ASSUME IInv, NEW s \in Session, Read(s) PROVE IInv'
<1>1. TypeOK /\ StepFit(s) /\ CursorFit(s) /\ OrderOf[s] \in Order
  BY RowsAreRows DEF IInv, SessionsFit
<1> DEFINE st == VisibleStatus(s, OrderOf[s])
<1>2. At(s, "read") /\ txn' = [txn EXCEPT ![s].step = "check", ![s].status = st]
      /\ UNCHANGED <<table, draft, ledger, lock>>
  BY DEF Read
<1>3. st \in Status
  BY <1>1 DEF VisibleStatus, Version, TypeOK, Table
<1> HIDE DEF st
<1>4. [txn[s] EXCEPT !.step = "check", !.status = st] \in Transaction
  BY <1>1, <1>3 DEF TypeOK, Transaction, Step
<1>5. /\ txn' \in [Session -> Transaction] /\ \A t \in Session \ {s} : txn'[t] = txn[t]
      /\ txn'[s].step = "check" /\ txn'[s].rows = txn[s].rows /\ txn'[s].todo = txn[s].todo
      /\ txn'[s].prefixed = txn[s].prefixed
  BY <1>1, <1>2, <1>4 DEF TypeOK, Transaction
<1>6. CursorFit(s)' /\ StepFit(s)'
  BY <1>1, <1>2, <1>5 DEF CursorFit, Seen, StepFit, At
<1> QED
  BY <1>1, <1>2, <1>5, <1>6, QuietFit DEF At, TypeOK

LEMMA CheckFit == ASSUME IInv, NEW s \in Session, Check(s) PROVE IInv'
<1>1. TypeOK /\ StepFit(s) /\ CursorFit(s) /\ OrderOf[s] \in Order
  BY RowsAreRows DEF IInv, SessionsFit
<1> DEFINE step == IF Kind[s] = "revoke" THEN "fetch"
                   ELSE IF txn[s].status = "paid" THEN "owed" ELSE "entitle"
<1>2. At(s, "check") /\ txn' = [txn EXCEPT ![s].step = step, ![s].n = 2]
      /\ UNCHANGED <<table, draft, ledger, lock>>
  BY DEF Check
<1>3. step \in {"fetch", "owed", "entitle"} /\ (step = "fetch" <=> Kind[s] = "revoke")
  OBVIOUS
<1> HIDE DEF step
<1>4. [txn[s] EXCEPT !.step = step, !.n = 2] \in Transaction
  BY <1>1, <1>3 DEF TypeOK, Transaction, Step
<1>5. /\ txn' \in [Session -> Transaction] /\ \A t \in Session \ {s} : txn'[t] = txn[t]
      /\ txn'[s].step = step /\ txn'[s].rows = txn[s].rows /\ txn'[s].todo = txn[s].todo
      /\ txn'[s].prefixed = txn[s].prefixed /\ txn'[s].n = 2
  BY <1>1, <1>2, <1>4 DEF TypeOK, Transaction
<1>6. CursorFit(s)'
  BY <1>1, <1>2, <1>5 DEF CursorFit, Seen
<1>7. txn[s].rows = {} /\ 2 \in Rewarded(OrderOf[s])
  BY <1>1, <1>2, RewardedRows DEF StepFit, At
<1>8. StepFit(s)'
  BY <1>3, <1>5, <1>7 DEF StepFit
<1> QED
  BY <1>1, <1>2, <1>5, <1>6, <1>8, QuietFit DEF At, TypeOK

LEMMA EntitleFit == ASSUME IInv, NEW s \in Session, Entitle(s) PROVE IInv'
<1> DEFINE x == StudentOf[OrderOf[s]]
<1>1. TypeOK /\ StepFit(s) /\ OrderOf[s] \in Order /\ x \in Student
  BY RowsAreRows DEF IInv, SessionsFit
<1>2. At(s, "entitle") /\ Acquire(s, x) /\ Go(s, "owed") /\ UNCHANGED <<table, ledger>>
      /\ draft' = [draft EXCEPT !.granted[x] = draft.granted[x] + 1]
  BY DEF Entitle
<1>3. draft.granted[x] + 1 \in Int
  BY <1>1 DEF TypeOK, Table
<1>4. 2 \in Rewarded(OrderOf[s])
  BY <1>1, RewardedRows
<1> HIDE DEF x
<1>5. StepFit(s)'
  BY <1>1, <1>2, <1>4, GoShape DEF StepFit, At, Step
<1> QED
  BY <1>1, <1>2, <1>3, <1>5, AcquireShape, GrantedShape, GoFit DEF At, Step

LEMMA ReadOwedFit == ASSUME IInv, NEW s \in Session, ReadOwed(s) PROVE IInv'
<1> DEFINE a == Payee(OrderOf[s], txn[s].n)
           w == Version(s, a).account[a]["pendingreturn"]
<1>1. TypeOK /\ StepFit(s) /\ CursorFit(s) /\ OrderOf[s] \in Order
  BY RowsAreRows DEF IInv, SessionsFit
<1>2. At(s, "owed") /\ txn' = [txn EXCEPT ![s].step = "post", ![s].owed = w]
      /\ UNCHANGED <<table, draft, ledger, lock>>
  BY DEF ReadOwed
<1>3. a \in Agent
  BY <1>1, <1>2, RewardedRows, PayeeRow DEF StepFit, At
<1>4. w \in Int
  <2>1. Version(s, a) \in Table
    BY <1>1 DEF Version, TypeOK
  <2> HIDE DEF a
  <2> QED
    BY <1>3, <2>1 DEF Table, Column
<1> HIDE DEF w
<1>5. [txn[s] EXCEPT !.step = "post", !.owed = w] \in Transaction
  BY <1>1, <1>4 DEF TypeOK, Transaction, Step
<1>6. /\ txn' \in [Session -> Transaction] /\ \A t \in Session \ {s} : txn'[t] = txn[t]
      /\ txn'[s].step = "post" /\ txn'[s].rows = txn[s].rows /\ txn'[s].todo = txn[s].todo
      /\ txn'[s].prefixed = txn[s].prefixed /\ txn'[s].n = txn[s].n
  BY <1>1, <1>2, <1>5 DEF TypeOK, Transaction
<1>7. CursorFit(s)'
  BY <1>1, <1>2, <1>6 DEF CursorFit, Seen
<1>8. StepFit(s)'
  BY <1>1, <1>2, <1>6 DEF StepFit, At
<1> QED
  BY <1>1, <1>2, <1>6, <1>7, <1>8, QuietFit DEF At, TypeOK

LEMMA SettleFit == ASSUME IInv, NEW s \in Session, Settle(s) PROVE IInv'
<1>1. TypeOK /\ StepFit(s) /\ OrderOf[s] \in Order
  BY RowsAreRows DEF IInv, SessionsFit
<1>2. PICK step \in {"crowd", "commit"} :
      /\ At(s, "settle") /\ Acquire(s, OrderOf[s]) /\ Go(s, step) /\ UNCHANGED <<table, ledger>>
      /\ draft' = [draft EXCEPT !.status[OrderOf[s]] = PaidStatus(s)]
  BY Zenon DEF Settle
<1>3. PaidStatus(s) \in Status /\ step \in Step
  BY DEF PaidStatus, Status, PurchasedStatus, Step
<1>4. StepFit(s)'
  BY <1>1, <1>2, <1>3, GoShape DEF StepFit, At
<1> QED
  BY <1>1, <1>2, <1>3, <1>4, AcquireShape, StatusShape, GoFit DEF At

LEMMA FailOtherFit == ASSUME IInv, NEW s \in Session, FailOther(s) PROVE IInv'
<1>1. TypeOK /\ StepFit(s) /\ CursorFit(s)
  BY DEF IInv, SessionsFit
<1>2. PICK x \in Order : /\ Acquire(s, x) /\ draft' = [draft EXCEPT !.status[x] = "failed"]
                         /\ At(s, "crowd") /\ UNCHANGED <<table, ledger, txn>>
  BY DEF FailOther, Crowded, Siblings
<1>3. "failed" \in Status
  BY DEF Status, FinalStatus
<1>4. CursorFit(s)' /\ StepFit(s)' /\ txn' \in [Session -> Transaction]
  BY <1>1, <1>2 DEF CursorFit, Seen, StepFit, TypeOK
<1> QED
  BY <1>1, <1>2, <1>3, <1>4, AcquireShape, StatusShape, QuietFit DEF At

LEMMA FailedAllFit == ASSUME IInv, NEW s \in Session, FailedAll(s) PROVE IInv'
<1>1. TypeOK /\ StepFit(s)
  BY DEF IInv, SessionsFit
<1>2. At(s, "crowd") /\ Go(s, "commit") /\ UNCHANGED <<table, draft, ledger, lock>>
  BY DEF FailedAll
<1>3. StepFit(s)'
  BY <1>1, <1>2, GoShape DEF StepFit, At, Step
<1> QED
  BY <1>1, <1>2, <1>3, GoFit DEF At, TypeOK, Step

LEMMA PlainSeen ==
    ASSUME IInv, NEW o
    PROVE  /\ PlainRows(o) \in SUBSET Row /\ Seen(PlainRows(o))
           /\ \A r \in PlainRows(o) : r.orderid = o
BY DEF IInv, TypeOK, LedgerFit, PlainRows, Seen

LEMMA FetchFit == ASSUME IInv, NEW s \in Session, Fetch(s) PROVE IInv'
<1> DEFINE R == PlainRows(OrderOf[s])
<1>1. TypeOK /\ StepFit(s) /\ CursorFit(s)
  BY DEF IInv, SessionsFit
<1>2. At(s, "fetch") /\ txn' = [txn EXCEPT ![s].step = "undo", ![s].todo = R]
      /\ UNCHANGED <<table, draft, ledger, lock>>
  BY DEF Fetch
<1>3. R \in SUBSET Row /\ Seen(R) /\ \A r \in R : r.orderid = OrderOf[s]
  BY PlainSeen
<1> HIDE DEF R
<1>4. [txn[s] EXCEPT !.step = "undo", !.todo = R] \in Transaction
  BY <1>1, <1>3 DEF TypeOK, Transaction, Step
<1>5. /\ txn' \in [Session -> Transaction] /\ \A t \in Session \ {s} : txn'[t] = txn[t]
      /\ txn'[s].step = "undo" /\ txn'[s].rows = txn[s].rows /\ txn'[s].todo = R
      /\ txn'[s].prefixed = txn[s].prefixed
  BY <1>1, <1>2, <1>4 DEF TypeOK, Transaction
<1>6. txn[s].rows = {} /\ Kind[s] = "revoke"
  BY <1>1, <1>2 DEF StepFit, At
<1>7. CursorFit(s)'
  BY <1>1, <1>2, <1>3, <1>5, <1>6 DEF CursorFit, Seen
<1>8. StepFit(s)'
  BY <1>5, <1>6 DEF StepFit
<1> QED
  BY <1>1, <1>2, <1>5, <1>7, <1>8, QuietFit DEF At, TypeOK

LEMMA UndoneAllFit == ASSUME IInv, NEW s \in Session, UndoneAll(s) PROVE IInv'
<1>1. TypeOK /\ StepFit(s)
  BY DEF IInv, SessionsFit
<1>2. At(s, "undo") /\ Go(s, "prefix") /\ UNCHANGED <<table, draft, ledger, lock>>
  BY DEF UndoneAll
<1>3. StepFit(s)'
  BY <1>1, <1>2, GoShape DEF StepFit, At, Step
<1> QED
  BY <1>1, <1>2, <1>3, GoFit DEF At, TypeOK, Step

LEMMA PrefixFit == ASSUME IInv, NEW s \in Session, Prefix(s) PROVE IInv'
<1> DEFINE R == PlainRows(OrderOf[s])
<1>1. TypeOK /\ StepFit(s) /\ CursorFit(s)
  BY DEF IInv, SessionsFit
<1>2. At(s, "prefix") /\ txn' = [txn EXCEPT ![s].step = "withdraw", ![s].prefixed = R]
      /\ UNCHANGED <<table, draft, ledger, lock>>
  BY DEF Prefix
<1>3. R \in SUBSET Row /\ Seen(R) /\ \A r \in R : r.orderid = OrderOf[s]
  BY PlainSeen
<1> HIDE DEF R
<1>4. [txn[s] EXCEPT !.step = "withdraw", !.prefixed = R] \in Transaction
  BY <1>1, <1>3 DEF TypeOK, Transaction, Step
<1>5. /\ txn' \in [Session -> Transaction] /\ \A t \in Session \ {s} : txn'[t] = txn[t]
      /\ txn'[s].step = "withdraw" /\ txn'[s].rows = txn[s].rows /\ txn'[s].todo = txn[s].todo
      /\ txn'[s].prefixed = R
  BY <1>1, <1>2, <1>4 DEF TypeOK, Transaction
<1>6. Kind[s] = "revoke"
  BY <1>1, <1>2 DEF StepFit, At
<1>7. CursorFit(s)'
  BY <1>1, <1>2, <1>3, <1>5, <1>6 DEF CursorFit, Seen
<1>8. StepFit(s)'
  BY <1>5, <1>6 DEF StepFit
<1> QED
  BY <1>1, <1>2, <1>5, <1>7, <1>8, QuietFit DEF At, TypeOK

LEMMA WithdrawFit == ASSUME IInv, NEW s \in Session, Withdraw(s) PROVE IInv'
<1> DEFINE x == StudentOf[OrderOf[s]]
<1>1. TypeOK /\ StepFit(s) /\ OrderOf[s] \in Order /\ x \in Student
  BY RowsAreRows DEF IInv, SessionsFit
<1>2. At(s, "withdraw") /\ Acquire(s, x) /\ Go(s, "close") /\ UNCHANGED <<table, ledger>>
      /\ draft' = [draft EXCEPT !.granted[x] = draft.granted[x] - 1]
  BY DEF Withdraw
<1>3. draft.granted[x] - 1 \in Int
  BY <1>1 DEF TypeOK, Table
<1> HIDE DEF x
<1>5. StepFit(s)'
  BY <1>1, <1>2, GoShape DEF StepFit, At, Step
<1> QED
  BY <1>1, <1>2, <1>3, <1>5, AcquireShape, GrantedShape, GoFit DEF At, Step

LEMMA CloseFit == ASSUME IInv, NEW s \in Session, Close(s) PROVE IInv'
<1>1. TypeOK /\ StepFit(s) /\ OrderOf[s] \in Order
  BY RowsAreRows DEF IInv, SessionsFit
<1>2. /\ At(s, "close") /\ Acquire(s, OrderOf[s]) /\ Go(s, "commit") /\ UNCHANGED <<table, ledger>>
      /\ draft' = [draft EXCEPT !.status[OrderOf[s]] = "refunded"]
  BY Zenon DEF Close
<1>3. "refunded" \in Status /\ "commit" \in Step
  BY DEF Status, FinalStatus, Step
<1>4. StepFit(s)'
  BY <1>1, <1>2, <1>3, GoShape DEF StepFit, At
<1> QED
  BY <1>1, <1>2, <1>3, <1>4, AcquireShape, StatusShape, GoFit DEF At

\* The steps that post rows.
LEMMA UndoneRow ==
    ASSUME NEW r \in Row, NEW s \in Session
    PROVE  /\ Undone(r, s) \in Row /\ Undone(r, s).mark = "reversal" /\ Undone(r, s).undoneBy = s
           /\ Undone(r, s).orderid = r.orderid /\ Undone(r, s).accountid = r.accountid
           /\ Undone(r, s).source = r.source /\ Undone(r, s).by = r.by
           /\ Undone(r, s).amount = -r.amount /\ r.amount \in Int
<1>1. r.amount \in Int /\ -r.amount \in Int
  BY DEF Row
<1>2. Undone(r, s) \in Row
  BY <1>1 DEF Row, Undone
<1> QED
  BY <1>1, <1>2 DEF Row, Undone

LEMMA UndoneOnce ==
    ASSUME NEW r \in Row, NEW q \in Row, NEW s \in Session, r.mark = q.mark, r.undoneBy = q.undoneBy,
           Undone(r, s) = Undone(q, s)
    PROVE  r = q
<1>1. /\ r.orderid = q.orderid /\ r.accountid = q.accountid /\ r.source = q.source
      /\ r.by = q.by /\ -r.amount = -q.amount /\ r.amount \in Int /\ q.amount \in Int
  BY UndoneRow
<1>2. r.amount = q.amount
  BY <1>1
<1> QED
  BY <1>1, <1>2 DEF Row

LEMMA UndoFit == ASSUME IInv, NEW s \in Session, Undo(s) PROVE IInv'
<1>1. TypeOK /\ StepFit(s) /\ CursorFit(s) /\ txn[s].todo \in SUBSET Row /\ txn[s].rows \in SUBSET Row
  BY RowsAreRows DEF IInv, SessionsFit
<1>2. PICK r \in txn[s].todo :
         /\ At(s, "undo") /\ Post(s, r.accountid, {Undone(r, s)})
         /\ txn' = [txn EXCEPT ![s].todo = txn[s].todo \ {r},
                               ![s].rows = txn[s].rows \cup {Undone(r, s)}]
  BY DEF Undo, Undone
<1>3. r \in Row /\ r.accountid \in Agent /\ Undone(r, s) \in Row
  BY <1>1, UndoneRow DEF Row
<1>4. [txn[s] EXCEPT !.todo = txn[s].todo \ {r}, !.rows = txn[s].rows \cup {Undone(r, s)}] \in Transaction
  BY <1>1, <1>3 DEF TypeOK, Transaction
<1>5. /\ txn' \in [Session -> Transaction] /\ \A t \in Session \ {s} : txn'[t] = txn[t]
      /\ txn'[s].step = "undo" /\ txn'[s].rows = txn[s].rows \cup {Undone(r, s)}
      /\ txn'[s].todo = txn[s].todo \ {r} /\ txn'[s].prefixed = txn[s].prefixed
  BY <1>1, <1>2, <1>4 DEF TypeOK, Transaction, At
<1>6. Kind[s] = "revoke" /\ ledger' = ledger
  BY <1>1, <1>2 DEF StepFit, At, Post
<1>7. CursorFit(s)'
  <2>1. Seen(txn[s].todo)' /\ Seen(txn[s].prefixed)'
    BY <1>1, <1>5, <1>6 DEF CursorFit, Seen
  <2>2. ASSUME NEW q \in txn[s].todo, q # r PROVE Undone(q, s) # Undone(r, s)
    <3>1. q \in Row /\ q.mark = r.mark /\ q.undoneBy = r.undoneBy
      BY <1>1 DEF CursorFit, Seen
    <3> QED
      BY <1>3, <2>2, <3>1, UndoneOnce
  <2> QED
    BY <1>1, <1>5, <2>1, <2>2 DEF CursorFit
<1>8. StepFit(s)'
  BY <1>5, <1>6 DEF StepFit
<1>9. r.orderid = OrderOf[s] /\ Undone(r, s) \notin txn[s].rows /\ ~ At(s, "done")
  BY <1>1, <1>2 DEF CursorFit, At
<1> DEFINE R == {Undone(r, s)}
<1>10. /\ R \in SUBSET Row /\ IsFiniteSet(R) /\ R \cap txn[s].rows = {}
       /\ Post(s, r.accountid, R) /\ txn'[s].rows = txn[s].rows \cup R
  BY <1>2, <1>3, <1>5, <1>9, FS_Singleton
<1>11. ASSUME NEW q \in R
       PROVE  q.accountid = r.accountid /\ q.orderid = OrderOf[s] /\ q.mark = "reversal" /\ q.undoneBy = s
  BY <1>3, <1>9, UndoneRow
<1> HIDE DEF R
<1> QED
  BY <1>3, <1>5, <1>6, <1>7, <1>8, <1>9, <1>10, <1>11, PostFit

\* The payer's session after rows R of row n, and the loop's next row.
LEMMA NextRowShape ==
    ASSUME TypeOK, NEW s \in Session, NEW R \in SUBSET Row, txn[s].n \in Rewarded(OrderOf[s]),
           txn' = NextRow(s, R)
    PROVE  /\ txn' \in [Session -> Transaction] /\ \A t \in Session \ {s} : txn'[t] = txn[t]
           /\ txn'[s].rows = txn[s].rows \cup R /\ txn'[s].todo = txn[s].todo
           /\ txn'[s].prefixed = txn[s].prefixed /\ txn'[s].status = txn[s].status
           /\ \/ txn'[s].step = "settle"
              \/ /\ txn'[s].step = "owed" /\ txn'[s].n \in Rewarded(OrderOf[s])
                 /\ txn'[s].n > txn[s].n
<1> DEFINE o == OrderOf[s]
           above == Above(o, txn[s].n)
           step == IF above = {} THEN "settle" ELSE "owed"
           n == IF above = {} THEN txn[s].n ELSE Min(above)
<1>1. /\ o \in Order /\ txn[s].rows \in SUBSET Row /\ txn[s] \in Transaction
      /\ txn \in [Session -> Transaction]
  BY RowsAreRows DEF TypeOK
<1>2. txn' = [txn EXCEPT ![s].rows = txn[s].rows \cup R, ![s].step = step, ![s].n = n]
  BY DEF NextRow
<1>3. n \in Rewarded(o) /\ (step = "owed" => n > txn[s].n) /\ step \in {"settle", "owed"}
  BY <1>1, RewardedRows
<1>4. n \in Nat
  BY <1>1, <1>3, RewardedRows, PayeeRow
<1> HIDE DEF n, step
<1>5. [txn[s] EXCEPT !.rows = txn[s].rows \cup R, !.step = step, !.n = n] \in Transaction
  BY <1>1, <1>3, <1>4 DEF Transaction, Step
<1>6. /\ txn' \in [Session -> Transaction] /\ \A t \in Session \ {s} : txn'[t] = txn[t]
      /\ txn'[s].rows = txn[s].rows \cup R /\ txn'[s].todo = txn[s].todo
      /\ txn'[s].prefixed = txn[s].prefixed /\ txn'[s].status = txn[s].status
      /\ txn'[s].step = step /\ txn'[s].n = n
  BY <1>1, <1>2, <1>5 DEF Transaction
<1> QED
  BY <1>3, <1>6

\* Plain rows are not what a cursor will post.
LEMMA PlainCursor ==
    ASSUME TypeOK, NEW s \in Session, CursorFit(s), NEW R, \A r \in R : r.mark = "plain",
           txn'[s].rows = txn[s].rows \cup R, txn'[s].todo = txn[s].todo,
           txn'[s].prefixed = txn[s].prefixed, ledger' = ledger
    PROVE  CursorFit(s)'
<1>1. Seen(txn[s].todo)' /\ Seen(txn[s].prefixed)'
  BY DEF CursorFit, Seen
<1>2. ASSUME NEW r \in txn[s].todo PROVE Undone(r, s) \notin R
  BY <1>2, RowsAreRows, UndoneRow
<1> QED
  BY <1>1, <1>2 DEF CursorFit

LEMMA PostAwardsFit == ASSUME IInv, NEW s \in Session, PostAwards(s) PROVE IInv'
<1> DEFINE o == OrderOf[s]
           n == txn[s].n
           R == Awards(s, n, txn[s].owed)
<1>1. TypeOK /\ StepFit(s) /\ CursorFit(s) /\ o \in Order /\ txn[s].rows \in SUBSET Row
  BY RowsAreRows DEF IInv, SessionsFit
<1>2. /\ At(s, "post") /\ Post(s, Payee(o, n), R)
      /\ txn' = IF n = 2 THEN [txn EXCEPT ![s].step = "convert", ![s].rows = txn[s].rows \cup R]
                ELSE NextRow(s, R)
  BY DEF PostAwards
<1>3. /\ Kind[s] # "revoke" /\ n \in Rewarded(o) /\ (n = 2 => txn[s].rows = {})
      /\ \A r \in txn[s].rows :
            \/ r.source = "conversion"
            \/ \E m \in AgentRows(StudentOf[o]) : m < n /\ r.accountid = Payee(o, m)
  BY <1>1, <1>2 DEF StepFit, At
<1>4. n \in AgentRows(StudentOf[o]) /\ n \in Nat /\ Payee(o, n) \in Agent
  BY <1>1, <1>3, RewardedRows, PayeeRow
<1>5. /\ IsFiniteSet(R) /\ R \in SUBSET Row
      /\ \A r \in R : /\ r.orderid = o /\ r.accountid = Payee(o, n) /\ r.mark = "plain"
                      /\ r.by = s /\ r.undoneBy = NULL /\ r.source # "conversion"
  BY <1>4, AwardsShape
<1> HIDE DEF R
<1>6. R \cap txn[s].rows = {}
  <2> SUFFICES ASSUME NEW r \in R, r \in txn[s].rows PROVE FALSE
    OBVIOUS
  <2>1. PICK m \in AgentRows(StudentOf[o]) : m < n /\ Payee(o, n) = Payee(o, m)
    BY <1>3, <1>5
  <2>2. StudentOf[o] \in Student /\ IsFiniteSet(Agent)
    BY RaceAssumption, RowsAreRows, <1>1
  <2>3. n = m
    BY <1>4, <2>1, <2>2, ChainOnce DEF Payee
  <2> QED
    BY <1>4, <2>1, <2>3
<1>7. /\ txn' \in [Session -> Transaction] /\ \A t \in Session \ {s} : txn'[t] = txn[t]
      /\ txn'[s].rows = txn[s].rows \cup R /\ txn'[s].todo = txn[s].todo
      /\ txn'[s].prefixed = txn[s].prefixed
      /\ StepFit(s)'
  <2>1. CASE n = 2
    <3>1. [txn[s] EXCEPT !.step = "convert", !.rows = txn[s].rows \cup R] \in Transaction
      BY <1>1, <1>5 DEF TypeOK, Transaction, Step
    <3>2. /\ txn' \in [Session -> Transaction] /\ \A t \in Session \ {s} : txn'[t] = txn[t]
          /\ txn'[s].rows = txn[s].rows \cup R /\ txn'[s].todo = txn[s].todo
          /\ txn'[s].prefixed = txn[s].prefixed /\ txn'[s].step = "convert" /\ txn'[s].n = n
      BY <1>1, <1>2, <2>1, <3>1 DEF TypeOK, Transaction
    <3>3. txn'[s].rows = R
      BY <1>3, <2>1, <3>2
    <3>4. StepFit(s)'
      BY <1>3, <1>5, <2>1, <3>2, <3>3 DEF StepFit
    <3> QED
      BY <3>2, <3>4
  <2>2. CASE n # 2
    <3>1. /\ txn' \in [Session -> Transaction] /\ \A t \in Session \ {s} : txn'[t] = txn[t]
          /\ txn'[s].rows = txn[s].rows \cup R /\ txn'[s].todo = txn[s].todo
          /\ txn'[s].prefixed = txn[s].prefixed
          /\ \/ txn'[s].step = "settle"
             \/ txn'[s].step = "owed" /\ txn'[s].n \in Rewarded(o) /\ txn'[s].n > n
      BY <1>1, <1>2, <1>3, <1>5, <2>2, NextRowShape
    <3>2. CASE txn'[s].step = "settle"
      BY <1>3, <3>1, <3>2 DEF StepFit
    <3>3. CASE txn'[s].step = "owed" /\ txn'[s].n \in Rewarded(o) /\ txn'[s].n > n
      <4>1. txn'[s].n \in AgentRows(StudentOf[o]) /\ txn'[s].n \in Nat
        BY <1>1, <3>3, RewardedRows, PayeeRow
      <4>2. \A m \in AgentRows(StudentOf[o]) : m \in Nat
        BY <1>1, PayeeRow
      <4>3. txn'[s].n # 2
        BY <1>1, <1>4, <3>3, <4>1, PayeeRow
      <4>4. ASSUME NEW r \in txn'[s].rows
            PROVE  \/ r.source = "conversion"
                   \/ \E m \in AgentRows(StudentOf[o]) : m < txn'[s].n /\ r.accountid = Payee(o, m)
        <5>1. CASE r \in R
          BY <1>4, <1>5, <3>3, <5>1
        <5>2. CASE r \in txn[s].rows
          <6>1. CASE r.source = "conversion"
            BY <6>1
          <6>2. CASE r.source # "conversion"
            <7>1. PICK m \in AgentRows(StudentOf[o]) : m < n /\ r.accountid = Payee(o, m)
              BY <1>3, <5>2, <6>2
            <7>2. m < txn'[s].n
              BY <1>4, <3>3, <4>1, <4>2, <7>1
            <7> QED
              BY <7>1, <7>2
          <6> QED
            BY <6>1, <6>2
        <5> QED
          BY <3>1, <5>1, <5>2
      <4> QED
        BY <1>3, <3>1, <3>3, <4>3, <4>4 DEF StepFit
    <3> QED
      BY <3>1, <3>2, <3>3
  <2> QED
    BY <2>1, <2>2
<1>8. ledger' = ledger /\ ~ At(s, "done")
  BY <1>2 DEF Post, At
<1>9. CursorFit(s)'
  BY <1>1, <1>5, <1>7, <1>8, PlainCursor
<1> HIDE DEF n, o
<1>10. \A r \in R : r.accountid = Payee(o, n) /\ r.orderid = OrderOf[s]
                      /\ r.mark = "plain" /\ r.by = s /\ r.undoneBy = NULL
  BY <1>5 DEF o
<1>11. Post(s, Payee(o, n), R) /\ Payee(o, n) \in Agent
  BY <1>2, <1>4
<1> QED
  BY <1>3, <1>5, <1>6, <1>7, <1>8, <1>9, <1>10, <1>11, PostFit

LEMMA ConvertFit == ASSUME IInv, NEW s \in Session, Convert(s) PROVE IInv'
<1> DEFINE o == OrderOf[s]
           R == Conversion(s)
<1>1. /\ TypeOK /\ StepFit(s) /\ CursorFit(s) /\ o \in Order /\ txn[s].rows \in SUBSET Row
      /\ CouponAgent[o] \in Agent
  BY RowsAreRows DEF IInv, SessionsFit
<1>2. At(s, "convert") /\ Post(s, CouponAgent[o], R) /\ txn' = NextRow(s, R)
  BY DEF Convert
<1>3. /\ Kind[s] # "revoke" /\ txn[s].n = 2
      /\ \A r \in txn[s].rows : r.source # "conversion" /\ r.accountid = Payee(o, 2)
  BY <1>1, <1>2 DEF StepFit, At
<1>4. 2 \in Rewarded(o) /\ 2 \in AgentRows(StudentOf[o])
  BY <1>1, RewardedRows
<1>5. /\ IsFiniteSet(R) /\ R \in SUBSET Row
      /\ \A r \in R : /\ r.orderid = o /\ r.accountid = CouponAgent[o] /\ r.mark = "plain"
                      /\ r.by = s /\ r.undoneBy = NULL /\ r.source = "conversion"
  BY ConversionShape
<1> HIDE DEF R
<1>6. R \cap txn[s].rows = {}
  BY <1>3, <1>5
<1>7. /\ txn' \in [Session -> Transaction] /\ \A t \in Session \ {s} : txn'[t] = txn[t]
      /\ txn'[s].rows = txn[s].rows \cup R /\ txn'[s].todo = txn[s].todo
      /\ txn'[s].prefixed = txn[s].prefixed
      /\ \/ txn'[s].step = "settle"
         \/ txn'[s].step = "owed" /\ txn'[s].n \in Rewarded(o) /\ txn'[s].n > 2
  BY <1>1, <1>2, <1>3, <1>4, <1>5, NextRowShape
<1>8. StepFit(s)'
  <2>1. CASE txn'[s].step = "settle"
    BY <1>3, <2>1 DEF StepFit
  <2>2. CASE txn'[s].step = "owed" /\ txn'[s].n \in Rewarded(o) /\ txn'[s].n > 2
    <3>1. txn'[s].n # 2
      BY <2>2
    <3>2. \A r \in txn'[s].rows :
             \/ r.source = "conversion"
             \/ \E m \in AgentRows(StudentOf[o]) : m < txn'[s].n /\ r.accountid = Payee(o, m)
      BY <1>3, <1>4, <1>5, <1>7, <2>2
    <3> QED
      BY <1>3, <2>2, <3>1, <3>2 DEF StepFit
  <2> QED
    BY <1>7, <2>1, <2>2
<1>9. ledger' = ledger /\ ~ At(s, "done")
  BY <1>2 DEF Post, At
<1>10. CursorFit(s)'
  BY <1>1, <1>5, <1>7, <1>9, PlainCursor
<1>11. \A r \in R : r.accountid = CouponAgent[o] /\ r.orderid = OrderOf[s]
                      /\ r.mark = "plain" /\ r.by = s /\ r.undoneBy = NULL
  BY <1>5
<1> QED
  BY <1>1, <1>2, <1>3, <1>5, <1>6, <1>7, <1>8, <1>9, <1>10, <1>11, PostFit

LEMMA InitFit == Init => IInv
<1> SUFFICES ASSUME Init PROVE IInv
  OBVIOUS
<1>1. Opening \in Table
  BY RaceAssumption DEF Opening, Table, Status, OpenStatus, PurchasedStatus
<1>2. ASSUME NEW s \in Session
      PROVE  /\ txn[s].step = "begin" /\ txn[s].rows = {} /\ txn[s].todo = {} /\ txn[s].prefixed = {}
             /\ txn[s] \in Transaction
  BY DEF Init, Transaction, Step
<1>3. txn \in [Session -> Transaction]
  BY <1>2 DEF Init
<1>4. TypeOK
  BY <1>1, <1>3 DEF Init, TypeOK
<1>5. LedgerMatchesBalances
  <2> SUFFICES ASSUME NEW a \in Agent, NEW c \in Column
               PROVE  table.account[a][c] = Opening.account[a][c] + Total({r \in ledger : r.accountid = a}, c)
    BY DEF LedgerMatchesBalances
  <2>1. {r \in ledger : r.accountid = a} = {}
    BY DEF Init
  <2>2. Opening.account[a][c] \in Int /\ table = Opening
    BY <1>1 DEF Table, Init
  <2> QED
    BY <2>1, <2>2, TotalEmpty
<1>6. SessionsFit
  BY <1>2, FS_EmptySet DEF SessionsFit, RowsFit, CursorFit, Seen, StepFit
<1>7. AccountsFit
  <2>1. \A a \in Agent : lock[a] = NULL
    BY DEF Init, Lockable
  <2> QED
    BY <2>1, RaceAssumption DEF AccountsFit, Init
<1>8. LedgerFit
  BY FS_EmptySet DEF LedgerFit, Init
<1> QED
  BY <1>4, <1>5, <1>6, <1>7, <1>8 DEF IInv

\* A session that is done waits for nobody.
LEMMA VictimWaits ==
    ASSUME NEW s \in Session, Deadlocked(s)
    PROVE  ~ At(s, "done") /\ ~ At(s, "aborted") /\ ~ At(s, "begin")
<1>1. {} \in SUBSET Session
  OBVIOUS
<1>2. ~ \A t \in Session : WaitsFor(s, t) => t \in {}
  BY <1>1 DEF Deadlocked
<1>3. Wanted(s) # {}
  BY <1>2 DEF WaitsFor
<1> QED
  BY <1>3 DEF Wanted, At

LEMMA StepKeepsBalance ==
    ASSUME IInv, [Next]_vars
    PROVE  IInv'
<1>1. CASE UNCHANGED vars
  <2>1. UNCHANGED <<table, draft, ledger, lock, txn>>
    BY <1>1 DEF vars
  <2>2. TypeOK' /\ LedgerMatchesBalances' /\ AccountsFit' /\ LedgerFit'
    BY <2>1 DEF IInv, TypeOK, LedgerMatchesBalances, Opening, AccountsFit, LedgerFit, At
  <2>3. SessionsFit'
    BY <2>1 DEF IInv, SessionsFit, RowsFit, CursorFit, Seen, StepFit
  <2> QED
    BY <2>2, <2>3 DEF IInv
<1>2. ASSUME NEW s \in Session, Begin(s) \/ Statement(s) \/ Victim(s)
      PROVE  IInv'
  <2>1. CASE Begin(s)
    BY <2>1, BeginFit
  <2>2. CASE Victim(s)
    BY <2>2, VictimWaits, RollbackFit DEF Victim
  <2>3. CASE LockOrder(s)
    BY <2>3, LockOrderFit
  <2>4. CASE Read(s)
    BY <2>4, ReadFit
  <2>5. CASE Check(s)
    BY <2>5, CheckFit
  <2>6. CASE Raise(s)
    BY <2>6, RollbackFit DEF Raise, At
  <2>7. CASE Entitle(s)
    BY <2>7, EntitleFit
  <2>8. CASE ReadOwed(s)
    BY <2>8, ReadOwedFit
  <2>9. CASE PostAwards(s)
    BY <2>9, PostAwardsFit
  <2>10. CASE Convert(s)
    BY <2>10, ConvertFit
  <2>11. CASE Settle(s)
    BY <2>11, SettleFit
  <2>12. CASE FailOther(s)
    BY <2>12, FailOtherFit
  <2>13. CASE FailedAll(s)
    BY <2>13, FailedAllFit
  <2>14. CASE Fetch(s)
    BY <2>14, FetchFit
  <2>15. CASE Undo(s)
    BY <2>15, UndoFit
  <2>16. CASE UndoneAll(s)
    BY <2>16, UndoneAllFit
  <2>17. CASE Prefix(s)
    BY <2>17, PrefixFit
  <2>18. CASE Withdraw(s)
    BY <2>18, WithdrawFit
  <2>19. CASE Close(s)
    BY <2>19, CloseFit
  <2>20. CASE Commit(s)
    BY <2>20, CommitFit
  <2> QED
    BY <1>2, <2>1, <2>2, <2>3, <2>4, <2>5, <2>6, <2>7, <2>8, <2>9, <2>10, <2>11, <2>12, <2>13,
       <2>14, <2>15, <2>16, <2>17, <2>18, <2>19, <2>20 DEF Statement
<1> QED
  BY <1>1, <1>2 DEF Next

LEMMA AlwaysFit == Spec => []IInv
BY InitFit, StepKeepsBalance, PTL DEF Spec

\* However the statements of transactions interleave, the rows are of their types and
\* every account holds what it started with plus its rows: no UPDATE of pay_success or
\* revoke_pay is lost, and nothing of a transaction that was rolled back remains.
THEOREM TablesBalance == Spec => []Consistent
<1>1. IInv => Consistent
  BY DEF IInv, Consistent
<1> QED
  BY <1>1, AlwaysFit, PTL

-----------------------------------------------------------------------------
(***************************************************************************)
(* Sessions that are serialised by the row of their order                  *)
(***************************************************************************)

Payer(s) == Kind[s] # "revoke"

\* An order that is paid by a session that does not lock it first is paid by no other.
PaidAlone ==
    \A s, t \in Session :
        s # t /\ OrderOf[s] = OrderOf[t] /\ Kind[s] \in {"confirm", "statement"} => ~ Payer(t)

\* An order is revoked by one session: revoke_pay reads the status without a lock, and two
\* of them would undo the rows twice.
RevokedByOne ==
    \A s, t \in Session : ~ Payer(s) /\ ~ Payer(t) /\ OrderOf[s] = OrderOf[t] => s = t

Serialised == PaidAlone /\ RevokedByOne

Owing == {"owed", "post", "convert", "settle", "crowd", "commit"}
Paying == {"entitle"} \cup Owing
Revoking == {"fetch", "undo", "prefix", "withdraw", "close", "commit"}

\* The rows of orders and entitlements that a session holds, and what it has written there.
HeldOrder(s, x) ==
    IF x # OrderOf[s]
    THEN /\ x \in Siblings(OrderOf[s]) /\ Payer(s) /\ txn[s].step \in {"crowd", "commit"}
         /\ draft.status[x] = "failed" /\ table.status[x] \in OpenStatus
    ELSE IF ~ Payer(s)
    THEN txn[s].step = "commit" /\ draft.status[x] = "refunded"
    ELSE IF txn[s].step \in {"crowd", "commit"}
    THEN draft.status[x] = PaidStatus(s)
    ELSE /\ Kind[s] = "approve" /\ txn[s].step \in {"read", "check"} \cup Paying
         /\ draft.status[x] = table.status[x]

HeldStudent(s, x) ==
    /\ x = StudentOf[OrderOf[s]]
    /\ IF Payer(s)
       THEN /\ txn[s].step \in Owing /\ txn[s].status \in OpenStatus
            /\ draft.granted[x] = table.granted[x] + 1
       ELSE /\ txn[s].step \in {"close", "commit"}
            /\ draft.granted[x] = table.granted[x] - 1

LocksFit ==
    /\ \A x \in Order :
          /\ lock[x] = NULL => draft.status[x] = table.status[x]
          /\ \A s \in Session : lock[x] = s => HeldOrder(s, x)
    /\ \A x \in Student :
          /\ lock[x] = NULL => draft.granted[x] = table.granted[x]
          /\ \A s \in Session : lock[x] = s => HeldStudent(s, x)

\* And those that it must hold by then.
Holds(s) ==
    LET o == OrderOf[s]
        step == txn[s].step
    IN  IF Payer(s)
        THEN /\ \/ step \in {"crowd", "commit"}
                \/ Kind[s] = "approve" /\ step \in {"read", "check"} \cup Paying
                => lock[o] = s
             /\ step \in Owing /\ txn[s].status \in OpenStatus => lock[StudentOf[o]] = s
        ELSE /\ step = "commit" => lock[o] = s
             /\ step \in {"close", "commit"} => lock[StudentOf[o]] = s

\* What a payer knows of its order stays true, except that another order's payment may
\* fail one that it did not lock.
StillTrue(s) ==
    LET o == OrderOf[s] IN
    \/ table.status[o] = txn[s].status
    \/ Kind[s] # "approve" /\ table.status[o] = "failed" /\ txn[s].status \in OpenStatus

RowsOf(o) == {r \in ledger : r.orderid = o}

OneOfEach(R) ==
    \A r1, r2 \in R : r1.accountid = r2.accountid /\ r1.source = r2.source => r1 = r2

PayFit(s) ==
    LET o == OrderOf[s]
        step == txn[s].step
    IN  /\ txn[s].prefixed = {} /\ txn[s].todo = {}
        /\ step = "check" /\ txn[s].status \notin FinalStatus => StillTrue(s)
        /\ step \in Paying => StillTrue(s) /\ txn[s].status \in OpenStatus \cup {"paid"} /\ RowsOf(o) = {}
        /\ step = "lock" => Kind[s] = "approve"
        /\ step = "entitle" => txn[s].status \in OpenStatus
        /\ OneOfEach(txn[s].rows)
        /\ \/ step \in {"settle", "crowd", "commit"}
           \/ step \in {"owed", "post"} /\ txn[s].n # 2
           => txn[s].rows # {}

RevokeFit(s) ==
    LET o == OrderOf[s]
        step == txn[s].step
    IN  /\ \/ step \in Revoking
           \/ step = "check" /\ txn[s].status = "settled"
           => table.status[o] = "settled"
        /\ step \in {"withdraw", "close", "commit"} => txn[s].prefixed = PlainRows(o)

TurnFit(s) == Holds(s) /\ IF Payer(s) THEN PayFit(s) ELSE RevokeFit(s)

\* The status of an order tells what rows it has.
StatusFit ==
    \A o \in Order :
        /\ RowsOf(o) # {} => table.status[o] \in {"paid", "settled", "refunded"}
        /\ (\E r \in RowsOf(o) : r.mark # "plain") => table.status[o] = "refunded"
        /\ table.status[o] = "settled" => PlainRows(o) # {}
        /\ OneOfEach(PlainRows(o))

Purchased(x, status) == {o \in Order : StudentOf[o] = x /\ status[o] \in PurchasedStatus}

SInv == LocksFit /\ (\A s \in Session : TurnFit(s)) /\ StatusFit /\ GrantedPerOrder

-----------------------------------------------------------------------------
(* The limit.                                                              *)

\* Every payer locks its order first.
LocksFirst == \A s \in Session : Payer(s) => Kind[s] = "approve"

\* A student whose order is still open may buy one more.
RoomIn(status) ==
    PurchaseLimit # NULL =>
        \A x \in Student :
            /\ Cardinality(Purchased(x, status)) <= PurchaseLimit
            /\ (\E o \in Order : StudentOf[o] = x /\ status[o] \in OpenStatus) =>
                   Cardinality(Purchased(x, status)) < PurchaseLimit

\* A payment leaves no order open, or room for it.
Bought(s) == {x \in Siblings(OrderOf[s]) : table.status[x] \in PurchasedStatus} \cup {OrderOf[s]}

TurnLeavesRoom(s) ==
    Payer(s) /\ At(s, "commit") /\ txn[s].status \in OpenStatus /\ PurchaseLimit # NULL =>
        \/ \A x \in Siblings(OrderOf[s]) : lock[x] = s \/ table.status[x] \notin OpenStatus
        \/ Cardinality(Bought(s)) < PurchaseLimit

LInv == RoomIn(table.status) /\ \A s \in Session : TurnLeavesRoom(s)

-----------------------------------------------------------------------------
(* Steps that commit nothing.                                              *)

LEMMA StepTurn ==
    ASSUME IInv, SInv, NEW s \in Session, UNCHANGED <<table, ledger>>,
           \A t \in Session \ {s} : txn'[t] = txn[t],
           \A x \in Order \cup Student :
              lock'[x] = lock[x] \/ (lock[x] \in {s, NULL} /\ lock'[x] \in {s, NULL}),
           \A x \in Order : /\ draft'.status[x] = draft.status[x] \/ lock[x] = s \/ lock'[x] = s
                            /\ lock[x] = s /\ lock'[x] = NULL => draft'.status[x] = table.status[x]
                            /\ lock'[x] = s => HeldOrder(s, x)',
           \A x \in Student : /\ draft'.granted[x] = draft.granted[x] \/ lock[x] = s \/ lock'[x] = s
                              /\ lock[x] = s /\ lock'[x] = NULL => draft'.granted[x] = table.granted[x]
                              /\ lock'[x] = s => HeldStudent(s, x)',
           TurnFit(s)'
    PROVE  SInv'
<1>0. TypeOK /\ LocksFit /\ StatusFit /\ GrantedPerOrder /\ \A t \in Session : t # NULL /\ TurnFit(t)
  BY RowsAreRows DEF IInv, SInv
<1>1. ASSUME NEW t \in Session, t # s
      PROVE  /\ txn'[t] = txn[t]
             /\ \A x \in Order \cup Student : lock'[x] = t <=> lock[x] = t
  BY <1>0, <1>1
<1>2. ASSUME NEW x \in Order
      PROVE  /\ lock'[x] = NULL => draft'.status[x] = table'.status[x]
             /\ \A t \in Session : lock'[x] = t => HeldOrder(t, x)'
  <2>1. lock'[x] = NULL => draft'.status[x] = table'.status[x]
    BY <1>0, <1>2 DEF LocksFit
  <2>2. ASSUME NEW t \in Session, lock'[x] = t, t # s PROVE HeldOrder(t, x)'
    <3>1. lock[x] = t /\ txn'[t] = txn[t] /\ HeldOrder(t, x)
      BY <1>0, <1>1, <2>2 DEF LocksFit
    <3>2. draft'.status[x] = draft.status[x] /\ table'.status[x] = table.status[x]
      BY <2>2, <3>1
    <3> QED
      BY <3>1, <3>2 DEF HeldOrder
  <2> QED
    BY <2>1, <2>2
<1>3. ASSUME NEW x \in Student
      PROVE  /\ lock'[x] = NULL => draft'.granted[x] = table'.granted[x]
             /\ \A t \in Session : lock'[x] = t => HeldStudent(t, x)'
  <2>1. lock'[x] = NULL => draft'.granted[x] = table'.granted[x]
    BY <1>0, <1>3 DEF LocksFit
  <2>2. ASSUME NEW t \in Session, lock'[x] = t, t # s PROVE HeldStudent(t, x)'
    <3>1. lock[x] = t /\ txn'[t] = txn[t] /\ HeldStudent(t, x)
      BY <1>0, <1>1, <2>2 DEF LocksFit
    <3>2. draft'.granted[x] = draft.granted[x] /\ table'.granted[x] = table.granted[x]
      BY <2>2, <3>1
    <3> QED
      BY <3>1, <3>2 DEF HeldStudent
  <2> QED
    BY <2>1, <2>2
<1>4. LocksFit'
  BY <1>2, <1>3 DEF LocksFit
<1>5. ASSUME NEW t \in Session PROVE TurnFit(t)'
  <2> SUFFICES ASSUME t # s PROVE TurnFit(t)'
    OBVIOUS
  <2>1. TurnFit(t) /\ txn'[t] = txn[t] /\ OrderOf[t] \in Order /\ StudentOf[OrderOf[t]] \in Student
    BY <1>0, <1>1, RowsAreRows
  <2>2. lock[OrderOf[t]] = t => lock'[OrderOf[t]] = t
    BY <1>1, <2>1
  <2>3. lock[StudentOf[OrderOf[t]]] = t => lock'[StudentOf[OrderOf[t]]] = t
    BY <1>1, <2>1
  <2>4. Holds(t)'
    BY <2>1, <2>2, <2>3 DEF Holds, TurnFit
  <2>5. Payer(t) => PayFit(t)'
    BY <2>1 DEF TurnFit, PayFit, StillTrue, RowsOf
  <2>6. ~ Payer(t) => RevokeFit(t)'
    BY <2>1 DEF TurnFit, RevokeFit, PlainRows
  <2> QED
    BY <2>4, <2>5, <2>6 DEF TurnFit
<1>6. StatusFit'
  BY <1>0 DEF StatusFit, RowsOf, PlainRows
<1>7. GrantedPerOrder'
  BY <1>0 DEF GrantedPerOrder
<1> QED
  BY <1>4, <1>5, <1>6, <1>7 DEF SInv

\* Most of them lock no order and no entitlement either.
LEMMA SeatedTurn ==
    ASSUME IInv, SInv, NEW s \in Session, UNCHANGED <<table, ledger>>,
           \A t \in Session \ {s} : txn'[t] = txn[t],
           \A x \in Order \cup Student : lock'[x] = lock[x],
           draft'.status = draft.status, draft'.granted = draft.granted,
           \A x \in Order : lock[x] = s => HeldOrder(s, x)',
           \A x \in Student : lock[x] = s => HeldStudent(s, x)',
           TurnFit(s)'
    PROVE  SInv'
<1>1. \A x \in Order : s # NULL /\ (lock[x] = s => lock'[x] # NULL)
  BY RowsAreRows DEF IInv
<1>2. \A x \in Student : s # NULL /\ (lock[x] = s => lock'[x] # NULL)
  BY RowsAreRows DEF IInv
<1> QED
  BY <1>1, <1>2, StepTurn

LEMMA SInvFacts ==
    ASSUME IInv, SInv, NEW s \in Session
    PROVE  /\ TypeOK /\ StepFit(s) /\ RowsFit(s) /\ CursorFit(s) /\ Holds(s) /\ s # NULL
           /\ Payer(s) => PayFit(s)
           /\ ~ Payer(s) => RevokeFit(s)
           /\ OrderOf[s] \in Order /\ StudentOf[OrderOf[s]] \in Student
           /\ \A x \in Order : /\ lock[x] = s => HeldOrder(s, x)
                               /\ lock[x] = NULL => draft.status[x] = table.status[x]
           /\ \A x \in Student : /\ lock[x] = s => HeldStudent(s, x)
                                 /\ lock[x] = NULL => draft.granted[x] = table.granted[x]
BY RowsAreRows DEF IInv, SInv, SessionsFit, TurnFit, LocksFit

LEMMA BeginTurn == ASSUME IInv, SInv, NEW s \in Session, Begin(s) PROVE SInv'
<1>1. At(s, "begin") /\ Go(s, FirstStep(s)) /\ UNCHANGED <<table, draft, ledger, lock>>
  BY DEF Begin
<1>2. FirstStep(s) \in Step /\ FirstStep(s) \in {"lock", "read"} /\ (FirstStep(s) = "lock" <=> Kind[s] = "approve")
  BY DEF FirstStep, Step
<1>3. /\ \A t \in Session \ {s} : txn'[t] = txn[t]
      /\ txn'[s].step = FirstStep(s) /\ txn'[s].n = txn[s].n /\ txn'[s].status = txn[s].status
      /\ txn'[s].todo = txn[s].todo /\ txn'[s].rows = txn[s].rows /\ txn'[s].prefixed = txn[s].prefixed
  BY <1>1, <1>2, SInvFacts, GoShape
<1>4. (\A x \in Order : lock[x] # s) /\ (\A x \in Student : lock[x] # s)
  BY <1>1, SInvFacts DEF HeldOrder, HeldStudent, At, Paying, Owing
<1>5. Holds(s)'
  BY <1>2, <1>3 DEF Holds, Paying, Owing
<1>6. Payer(s) => PayFit(s)'
  BY <1>1, <1>2, <1>3, SInvFacts DEF PayFit, Paying, Owing
<1>7. ~ Payer(s) => RevokeFit(s)'
  BY <1>2, <1>3 DEF RevokeFit, Revoking
<1> QED
  BY <1>1, <1>3, <1>4, <1>5, <1>6, <1>7, SeatedTurn DEF TurnFit

LEMMA LockOrderTurn == ASSUME IInv, SInv, NEW s \in Session, LockOrder(s) PROVE SInv'
<1> DEFINE o == OrderOf[s]
<1>0. TypeOK /\ o \in Order
  BY SInvFacts
<1>1. At(s, "lock") /\ Acquire(s, o) /\ Go(s, "read") /\ UNCHANGED <<table, draft, ledger>>
  BY DEF LockOrder
<1>2. /\ \A t \in Session \ {s} : txn'[t] = txn[t]
      /\ txn'[s].step = "read" /\ txn'[s].n = txn[s].n /\ txn'[s].status = txn[s].status
      /\ txn'[s].todo = txn[s].todo /\ txn'[s].rows = txn[s].rows /\ txn'[s].prefixed = txn[s].prefixed
  BY <1>0, <1>1, GoShape DEF Step
<1>3. lock'[o] = s /\ lock[o] \in {s, NULL} /\ \A y \in Lockable \ {o} : lock'[y] = lock[y]
  BY <1>0, <1>1, AcquireShape
<1>4. Payer(s) /\ Kind[s] = "approve"
  BY <1>1, SInvFacts DEF PayFit, StepFit, At, Payer
<1>5. (\A x \in Order : lock[x] # s) /\ (\A x \in Student : lock[x] # s)
  BY <1>1, SInvFacts DEF HeldOrder, HeldStudent, At, Paying, Owing
<1>6. HeldOrder(s, o)'
  BY <1>0, <1>1, <1>2, <1>3, <1>4, <1>5, SInvFacts DEF HeldOrder
<1>7. TurnFit(s)'
  <2>1. Holds(s)'
    BY <1>2, <1>3, <1>4 DEF Holds, Owing
  <2>2. PayFit(s)'
    BY <1>1, <1>2, <1>4, SInvFacts DEF PayFit, Paying, Owing
  <2> QED
    BY <1>4, <2>1, <2>2 DEF TurnFit
<1>8. \A x \in Order \cup Student : x \in Lockable /\ (x \in Student => x # o)
  BY <1>0, RaceAssumption DEF Lockable
<1> HIDE DEF o
<1> QED
  BY <1>1, <1>2, <1>3, <1>5, <1>6, <1>7, <1>8, StepTurn

LEMMA ReadTurn == ASSUME IInv, SInv, NEW s \in Session, Read(s) PROVE SInv'
<1> DEFINE o == OrderOf[s]
<1>0. TypeOK /\ o \in Order
  BY SInvFacts
<1>1. /\ At(s, "read") /\ UNCHANGED <<table, draft, ledger, lock>>
      /\ txn' = [txn EXCEPT ![s].step = "check", ![s].status = VisibleStatus(s, o)]
  BY DEF Read
<1>2. VisibleStatus(s, o) = table.status[o]
  BY <1>0, <1>1, SInvFacts DEF VisibleStatus, Version, HeldOrder, At
<1>3. /\ \A t \in Session \ {s} : txn'[t] = txn[t]
      /\ txn'[s].step = "check" /\ txn'[s].n = txn[s].n /\ txn'[s].status = table.status[o]
      /\ txn'[s].todo = txn[s].todo /\ txn'[s].rows = txn[s].rows /\ txn'[s].prefixed = txn[s].prefixed
  BY <1>0, <1>1, <1>2 DEF TypeOK, Transaction
<1>4. \A x \in Student : lock[x] # s
  BY <1>1, SInvFacts DEF HeldStudent, At, Owing
<1>5. \A x \in Order : lock[x] = s => HeldOrder(s, x)'
  <2> SUFFICES ASSUME NEW x \in Order, lock[x] = s PROVE HeldOrder(s, x)'
    OBVIOUS
  <2>1. HeldOrder(s, x)
    BY SInvFacts
  <2> QED
    BY <1>1, <1>3, <2>1 DEF HeldOrder, At
<1>6. TurnFit(s)'
  <2>1. Holds(s)'
    BY <1>1, <1>3, SInvFacts DEF Holds, Owing, At
  <2>2. Payer(s) => PayFit(s)'
    BY <1>1, <1>3, SInvFacts DEF PayFit, Paying, Owing, StillTrue
  <2>3. ~ Payer(s) => RevokeFit(s)'
    BY <1>1, <1>3 DEF RevokeFit, Revoking
  <2> QED
    BY <2>1, <2>2, <2>3 DEF TurnFit
<1> QED
  BY <1>1, <1>3, <1>4, <1>5, <1>6, SeatedTurn

LEMMA CheckTurn == ASSUME IInv, SInv, NEW s \in Session, Check(s) PROVE SInv'
<1> DEFINE o == OrderOf[s]
           step == IF Kind[s] = "revoke" THEN "fetch"
                   ELSE IF txn[s].status = "paid" THEN "owed" ELSE "entitle"
<1>0. TypeOK /\ o \in Order
  BY SInvFacts
<1>1. /\ At(s, "check") /\ UNCHANGED <<table, draft, ledger, lock>> /\ ~ Refused(s)
      /\ txn' = [txn EXCEPT ![s].step = step, ![s].n = 2]
  BY DEF Check
<1>2. step \in {"fetch", "owed", "entitle"} /\ (step = "fetch" <=> ~ Payer(s))
      /\ (step = "owed" => txn[s].status = "paid") /\ (step = "entitle" => txn[s].status # "paid")
  BY DEF Payer
<1> HIDE DEF step
<1>3. /\ \A t \in Session \ {s} : txn'[t] = txn[t]
      /\ txn'[s].step = step /\ txn'[s].n = 2 /\ txn'[s].status = txn[s].status
      /\ txn'[s].todo = txn[s].todo /\ txn'[s].rows = txn[s].rows /\ txn'[s].prefixed = txn[s].prefixed
  BY <1>0, <1>1 DEF TypeOK, Transaction
<1>4. \A x \in Student : lock[x] # s
  BY <1>1, SInvFacts DEF HeldStudent, At, Owing
<1>5. \A x \in Order : lock[x] = s => HeldOrder(s, x)'
  <2> SUFFICES ASSUME NEW x \in Order, lock[x] = s PROVE HeldOrder(s, x)'
    OBVIOUS
  <2>1. HeldOrder(s, x)
    BY SInvFacts
  <2> QED
    BY <1>1, <1>2, <1>3, <2>1 DEF HeldOrder, At, Paying, Owing
<1>6. txn[s].status \in Status \cup {NULL}
  BY <1>0 DEF TypeOK, Transaction
<1>7. CASE Payer(s)
  <2>0. StillTrue(s) => txn[s].status \in Status
    BY <1>0 DEF StillTrue, TypeOK, Table, Status
  <2>1. /\ \A r \in ledger : r.orderid # o
        /\ txn[s].status \notin FinalStatus
    BY <1>1, <1>7 DEF Refused, Payer
  <2>2. StillTrue(s) /\ RowsOf(o) = {}
    BY <1>1, <1>7, <2>1, SInvFacts DEF PayFit, At, RowsOf
  <2>3. txn[s].status \in OpenStatus \cup {"paid"}
    BY <2>0, <2>1, <2>2 DEF Status, PurchasedStatus, FinalStatus
  <2>4. txn[s].rows = {}
    BY <1>1, SInvFacts DEF StepFit, At
  <2>5. PayFit(s)'
    BY <1>1, <1>2, <1>3, <1>7, <2>2, <2>3, <2>4, SInvFacts DEF PayFit, Paying, Owing, StillTrue, RowsOf
  <2>6. Holds(s)'
    BY <1>1, <1>2, <1>3, <1>7, SInvFacts DEF Holds, Owing, Paying, At, OpenStatus
  <2>7. TurnFit(s)'
    BY <1>7, <2>5, <2>6 DEF TurnFit
  <2> QED
    BY <1>1, <1>3, <1>4, <1>5, <2>7, SeatedTurn
<1>8. CASE ~ Payer(s)
  <2>1. txn[s].status = "settled"
    BY <1>1, <1>8 DEF Refused, Payer
  <2>2. table.status[o] = "settled"
    BY <1>1, <1>8, <2>1, SInvFacts DEF RevokeFit, At
  <2>3. RevokeFit(s)' /\ Holds(s)'
    BY <1>1, <1>2, <1>3, <1>8, <2>2 DEF RevokeFit, Holds, Revoking
  <2>4. TurnFit(s)'
    BY <1>8, <2>3 DEF TurnFit
  <2> QED
    BY <1>1, <1>3, <1>4, <1>5, <2>4, SeatedTurn
<1> QED
  BY <1>7, <1>8

\* A payer goes along the chain with what it holds.
LEMMA PayingOn ==
    ASSUME IInv, SInv, NEW s \in Session, UNCHANGED <<table, ledger>>,
           \A t \in Session \ {s} : txn'[t] = txn[t],
           \A x \in Order \cup Student : lock'[x] = lock[x],
           draft'.status = draft.status, draft'.granted = draft.granted,
           txn[s].step \in {"owed", "post", "convert"},
           txn'[s].step \in {"owed", "post", "convert", "settle"},
           txn'[s].status = txn[s].status, txn'[s].todo = txn[s].todo,
           txn'[s].prefixed = txn[s].prefixed, OneOfEach(txn'[s].rows),
           txn'[s].step = "settle" \/ (txn'[s].step \in {"owed", "post"} /\ txn'[s].n # 2)
               => txn'[s].rows # {}
    PROVE  SInv'
<1>1. Payer(s) /\ PayFit(s) /\ Holds(s)
  BY SInvFacts DEF StepFit, Payer
<1>2. ASSUME NEW x \in Order, lock[x] = s PROVE HeldOrder(s, x)'
  <2>1. HeldOrder(s, x)
    BY <1>2, SInvFacts
  <2> QED
    BY <1>1, <2>1 DEF HeldOrder, Paying, Owing
<1>3. ASSUME NEW x \in Student, lock[x] = s PROVE HeldStudent(s, x)'
  <2>1. HeldStudent(s, x)
    BY <1>3, SInvFacts
  <2> QED
    BY <1>1, <2>1 DEF HeldStudent, Owing
<1>4. OrderOf[s] \in Order /\ StudentOf[OrderOf[s]] \in Student
  BY SInvFacts
<1>5. Holds(s)'
  BY <1>1, <1>4 DEF Holds, Paying, Owing
<1>6. PayFit(s)'
  BY <1>1 DEF PayFit, Paying, Owing, StillTrue, RowsOf
<1> QED
  BY <1>1, <1>2, <1>3, <1>5, <1>6, SeatedTurn DEF TurnFit

LEMMA PostShape ==
    ASSUME TypeOK, NEW s \in Session, NEW a \in Agent, NEW R, Post(s, a, R)
    PROVE  /\ UNCHANGED <<table, ledger>>
           /\ \A x \in Order \cup Student : lock'[x] = lock[x]
           /\ draft'.status = draft.status /\ draft'.granted = draft.granted
<1>1. /\ lock' = [lock EXCEPT ![a] = s] /\ draft' = [draft EXCEPT !.account[a] = Posted(s, a, R)]
      /\ UNCHANGED <<table, ledger>>
  BY DEF Post, Acquire
<1>2. ASSUME NEW x \in Order \cup Student PROVE lock'[x] = lock[x]
  BY <1>1, RaceAssumption, TreeAssumption DEF TypeOK, Lockable
<1>3. draft'.status = draft.status /\ draft'.granted = draft.granted
  BY <1>1 DEF TypeOK, Table
<1> QED
  BY <1>1, <1>2, <1>3

LEMMA ReadOwedTurn == ASSUME IInv, SInv, NEW s \in Session, ReadOwed(s) PROVE SInv'
<1>1. PICK w : /\ At(s, "owed") /\ UNCHANGED <<table, draft, ledger, lock>>
               /\ txn' = [txn EXCEPT ![s].step = "post", ![s].owed = w]
  BY DEF ReadOwed
<1>2. /\ \A t \in Session \ {s} : txn'[t] = txn[t]
      /\ txn'[s].step = "post" /\ txn'[s].n = txn[s].n /\ txn'[s].status = txn[s].status
      /\ txn'[s].todo = txn[s].todo /\ txn'[s].rows = txn[s].rows /\ txn'[s].prefixed = txn[s].prefixed
  BY <1>1, SInvFacts DEF TypeOK, Transaction
<1>3. PayFit(s)
  BY <1>1, SInvFacts DEF StepFit, At, Payer
<1> QED
  BY <1>1, <1>2, <1>3, PayingOn DEF At, PayFit

LEMMA PostAwardsTurn == ASSUME IInv, SInv, NEW s \in Session, PostAwards(s) PROVE SInv'
<1> DEFINE o == OrderOf[s]
           n == txn[s].n
           R == Awards(s, n, txn[s].owed)
<1>0. TypeOK /\ o \in Order
  BY SInvFacts
<1>1. /\ At(s, "post") /\ Post(s, Payee(o, n), R)
      /\ txn' = IF n = 2 THEN [txn EXCEPT ![s].step = "convert", ![s].rows = txn[s].rows \cup R]
                ELSE NextRow(s, R)
  BY DEF PostAwards
<1>2. /\ n \in Rewarded(o) /\ (n = 2 => txn[s].rows = {}) /\ Payer(s) /\ PayFit(s)
      /\ \A r \in txn[s].rows :
            \/ r.source = "conversion"
            \/ \E m \in AgentRows(StudentOf[o]) : m < n /\ r.accountid = Payee(o, m)
  BY <1>1, SInvFacts DEF StepFit, At, Payer
<1>3. n \in AgentRows(StudentOf[o]) /\ n \in Nat /\ Payee(o, n) \in Agent
  BY <1>0, <1>2, RewardedRows, PayeeRow
<1>4. /\ R \in SUBSET Row
      /\ \A r \in R : r.accountid = Payee(o, n) /\ r.source # "conversion"
      /\ \A r1, r2 \in R : r1.source = r2.source => r1 = r2
  BY <1>3, AwardsShape
<1>5. /\ UNCHANGED <<table, ledger>>
      /\ \A x \in Order \cup Student : lock'[x] = lock[x]
      /\ draft'.status = draft.status /\ draft'.granted = draft.granted
  BY <1>0, <1>1, <1>3, PostShape
<1> HIDE DEF R
<1>6. \A r \in R, q \in txn[s].rows : ~ (r.accountid = q.accountid /\ r.source = q.source)
  <2> SUFFICES ASSUME NEW r \in R, NEW q \in txn[s].rows, r.accountid = q.accountid, r.source = q.source
               PROVE FALSE
    OBVIOUS
  <2>1. PICK m \in AgentRows(StudentOf[o]) : m < n /\ Payee(o, n) = Payee(o, m)
    BY <1>2, <1>4
  <2>2. StudentOf[o] \in Student /\ IsFiniteSet(Agent)
    BY RaceAssumption, SInvFacts
  <2>3. n = m
    BY <1>3, <2>1, <2>2, ChainOnce DEF Payee
  <2> QED
    BY <1>3, <2>1, <2>3
<1>7. OneOfEach(txn[s].rows \cup R)
  BY <1>2, <1>4, <1>6 DEF OneOfEach, PayFit
<1>8. CASE n = 2
  <2>1. /\ \A t \in Session \ {s} : txn'[t] = txn[t]
        /\ txn'[s].step = "convert" /\ txn'[s].status = txn[s].status
        /\ txn'[s].todo = txn[s].todo /\ txn'[s].rows = txn[s].rows \cup R
        /\ txn'[s].prefixed = txn[s].prefixed
    BY <1>0, <1>1, <1>8 DEF TypeOK, Transaction
  <2> QED
    BY <1>1, <1>5, <1>7, <2>1, PayingOn DEF At
<1>9. CASE n # 2
  <2>1. txn[s].rows # {}
    BY <1>1, <1>2, <1>9 DEF PayFit, At
  <2>2. /\ \A t \in Session \ {s} : txn'[t] = txn[t]
        /\ txn'[s].rows = txn[s].rows \cup R /\ txn'[s].todo = txn[s].todo
        /\ txn'[s].prefixed = txn[s].prefixed /\ txn'[s].status = txn[s].status
        /\ txn'[s].step \in {"settle", "owed"}
    BY <1>0, <1>1, <1>2, <1>4, <1>9, NextRowShape
  <2> QED
    BY <1>1, <1>5, <1>7, <2>1, <2>2, PayingOn DEF At
<1> QED
  BY <1>8, <1>9

LEMMA ConvertTurn == ASSUME IInv, SInv, NEW s \in Session, Convert(s) PROVE SInv'
<1> DEFINE o == OrderOf[s]
           R == Conversion(s)
<1>0. TypeOK /\ o \in Order /\ CouponAgent[o] \in Agent /\ 2 \in Rewarded(o)
  BY SInvFacts, RowsAreRows, RewardedRows
<1>1. At(s, "convert") /\ Post(s, CouponAgent[o], R) /\ txn' = NextRow(s, R)
  BY DEF Convert
<1>2. /\ txn[s].n = 2 /\ Payer(s) /\ PayFit(s)
      /\ \A r \in txn[s].rows : r.source # "conversion"
  BY <1>1, SInvFacts DEF StepFit, At, Payer
<1>3. /\ R \in SUBSET Row /\ \A r \in R : r.source = "conversion"
      /\ \A r1, r2 \in R : r1 = r2
  BY ConversionShape
<1>4. R # {}
  BY DEF Conversion
<1>5. /\ UNCHANGED <<table, ledger>>
      /\ \A x \in Order \cup Student : lock'[x] = lock[x]
      /\ draft'.status = draft.status /\ draft'.granted = draft.granted
  BY <1>0, <1>1, PostShape
<1> HIDE DEF R
<1>6. OneOfEach(txn[s].rows \cup R)
  BY <1>2, <1>3 DEF OneOfEach, PayFit
<1>7. /\ \A t \in Session \ {s} : txn'[t] = txn[t]
      /\ txn'[s].rows = txn[s].rows \cup R /\ txn'[s].todo = txn[s].todo
      /\ txn'[s].prefixed = txn[s].prefixed /\ txn'[s].status = txn[s].status
      /\ txn'[s].step \in {"settle", "owed"}
  BY <1>0, <1>1, <1>2, <1>3, NextRowShape
<1>8. txn'[s].rows # {}
  BY <1>4, <1>7
<1> QED
  BY <1>1, <1>5, <1>6, <1>7, <1>8, PayingOn DEF At

LEMMA EntitleTurn == ASSUME IInv, SInv, NEW s \in Session, Entitle(s) PROVE SInv'
<1> DEFINE x == StudentOf[OrderOf[s]]
<1>0. TypeOK /\ OrderOf[s] \in Order /\ x \in Student /\ s # NULL
  BY SInvFacts
<1>1. At(s, "entitle") /\ Acquire(s, x) /\ Go(s, "owed") /\ UNCHANGED <<table, ledger>>
      /\ draft' = [draft EXCEPT !.granted[x] = draft.granted[x] + 1]
  BY DEF Entitle
<1>2. /\ Payer(s) /\ PayFit(s) /\ Holds(s) /\ txn[s].n = 2 /\ txn[s].rows = {}
      /\ txn[s].status \in OpenStatus
  BY <1>1, SInvFacts DEF StepFit, At, Payer, PayFit
<1>3. draft.granted[x] + 1 \in Int
  BY <1>0 DEF TypeOK, Table
<1>4. /\ draft'.status = draft.status /\ draft'.granted = [draft.granted EXCEPT ![x] = draft.granted[x] + 1]
      /\ x \in DOMAIN draft.granted
  BY <1>0, <1>1, <1>3, GrantedShape DEF TypeOK, Table
<1>5. lock'[x] = s /\ lock[x] \in {s, NULL} /\ x \in Lockable /\ \A y \in Lockable \ {x} : lock'[y] = lock[y]
  BY <1>0, <1>1, AcquireShape
<1>6. /\ \A t \in Session \ {s} : txn'[t] = txn[t]
      /\ txn'[s].step = "owed" /\ txn'[s].n = txn[s].n /\ txn'[s].status = txn[s].status
      /\ txn'[s].todo = txn[s].todo /\ txn'[s].rows = txn[s].rows /\ txn'[s].prefixed = txn[s].prefixed
  BY <1>0, <1>1, GoShape DEF Step
<1>7. \A y \in Student : lock[y] # s
  BY <1>1, SInvFacts DEF HeldStudent, At, Owing
<1>8. HeldStudent(s, x)'
  <2>1. draft.granted[x] = table.granted[x]
    BY <1>0, <1>5, <1>7, SInvFacts
  <2> QED
    BY <1>0, <1>1, <1>2, <1>4, <1>6, <2>1 DEF HeldStudent, Owing
<1> HIDE DEF x
<1>9. \A y \in Order : y \in Lockable /\ y # x /\ lock'[y] = lock[y] /\ draft'.status[y] = draft.status[y]
  BY <1>0, <1>4, <1>5, RaceAssumption DEF Lockable
<1>10. \A y \in Student : y # x => lock'[y] = lock[y] /\ draft'.granted[y] = draft.granted[y]
  BY <1>0, <1>4, <1>5 DEF Lockable, TypeOK, Table
<1>11. ASSUME NEW y \in Order, lock[y] = s PROVE HeldOrder(s, y)'
  <2>1. HeldOrder(s, y)
    BY <1>11, SInvFacts
  <2> QED
    BY <1>1, <1>2, <1>6, <1>9, <2>1 DEF HeldOrder, Paying, Owing, At
<1>12. Holds(s)'
  BY <1>0, <1>1, <1>2, <1>5, <1>6, <1>9 DEF Holds, Paying, Owing, x, At
<1>13. PayFit(s)'
  BY <1>1, <1>2, <1>6 DEF PayFit, Paying, Owing, StillTrue, RowsOf, At
<1>14. TurnFit(s)'
  BY <1>2, <1>12, <1>13 DEF TurnFit
<1>15. \A y \in Order \cup Student :
          lock'[y] = lock[y] \/ (lock[y] \in {s, NULL} /\ lock'[y] \in {s, NULL})
  BY <1>5, <1>9, <1>10
<1>16. \A y \in Order : /\ draft'.status[y] = draft.status[y] \/ lock[y] = s \/ lock'[y] = s
                        /\ lock[y] = s /\ lock'[y] = NULL => draft'.status[y] = table.status[y]
                        /\ lock'[y] = s => HeldOrder(s, y)'
  BY <1>0, <1>9, <1>11
<1>17. \A y \in Student : /\ draft'.granted[y] = draft.granted[y] \/ lock[y] = s \/ lock'[y] = s
                          /\ lock[y] = s /\ lock'[y] = NULL => draft'.granted[y] = table.granted[y]
                          /\ lock'[y] = s => HeldStudent(s, y)'
  BY <1>5, <1>7, <1>8, <1>10
<1> QED
  BY <1>1, <1>6, <1>14, <1>15, <1>16, <1>17, StepTurn

\* A step that writes the status of one order.
LEMMA StatusTurn ==
    ASSUME IInv, SInv, NEW s \in Session, UNCHANGED <<table, ledger>>,
           \A t \in Session \ {s} : txn'[t] = txn[t],
           NEW x \in Order, NEW st \in Status, Acquire(s, x), draft' = [draft EXCEPT !.status[x] = st],
           \A y \in Order : y = x \/ (lock[y] = s /\ draft'.status[y] = draft.status[y] /\ lock'[y] = s)
                              => HeldOrder(s, y)',
           \A y \in Student : lock[y] = s /\ draft'.granted[y] = draft.granted[y] => HeldStudent(s, y)',
           lock'[x] = s /\ (\A y \in Order \cup Student : lock[y] = s => lock'[y] = s) => TurnFit(s)'
    PROVE  SInv'
<1>0. TypeOK /\ s # NULL
  BY SInvFacts
<1>1. /\ draft'.granted = draft.granted /\ draft'.status = [draft.status EXCEPT ![x] = st]
      /\ x \in DOMAIN draft.status
  BY <1>0, StatusShape DEF TypeOK, Table
<1>2. lock'[x] = s /\ lock[x] \in {s, NULL} /\ x \in Lockable /\ \A y \in Lockable \ {x} : lock'[y] = lock[y]
  BY <1>0, AcquireShape
<1>3. \A y \in Student : y \in Lockable /\ y # x /\ lock'[y] = lock[y] /\ draft'.granted[y] = draft.granted[y]
  BY <1>1, <1>2, RaceAssumption DEF Lockable
<1>4. \A y \in Order : y # x => lock'[y] = lock[y] /\ draft'.status[y] = draft.status[y]
  BY <1>0, <1>1, <1>2 DEF Lockable, TypeOK, Table
<1>5. \A y \in Order \cup Student :
          lock'[y] = lock[y] \/ (lock[y] \in {s, NULL} /\ lock'[y] \in {s, NULL})
  BY <1>2, <1>3, <1>4
<1>6. \A y \in Order : /\ draft'.status[y] = draft.status[y] \/ lock[y] = s \/ lock'[y] = s
                       /\ lock[y] = s /\ lock'[y] = NULL => draft'.status[y] = table.status[y]
                       /\ lock'[y] = s => HeldOrder(s, y)'
  BY <1>0, <1>2, <1>4
<1>7. \A y \in Student : /\ draft'.granted[y] = draft.granted[y] \/ lock[y] = s \/ lock'[y] = s
                         /\ lock[y] = s /\ lock'[y] = NULL => draft'.granted[y] = table.granted[y]
                         /\ lock'[y] = s => HeldStudent(s, y)'
  BY <1>0, <1>3
<1>8. TurnFit(s)'
  BY <1>2, <1>3, <1>4
<1> QED
  BY <1>5, <1>6, <1>7, <1>8, StepTurn

LEMMA SettleTurn == ASSUME IInv, SInv, NEW s \in Session, Settle(s) PROVE SInv'
<1> DEFINE o == OrderOf[s]
<1>0. TypeOK /\ o \in Order /\ StudentOf[o] \in Student
  BY SInvFacts
<1>1. PICK step \in {"crowd", "commit"} :
      /\ At(s, "settle") /\ Acquire(s, o) /\ Go(s, step) /\ UNCHANGED <<table, ledger>>
      /\ draft' = [draft EXCEPT !.status[o] = PaidStatus(s)]
  BY Zenon DEF Settle
<1>2. Payer(s) /\ PayFit(s) /\ Holds(s)
  BY <1>1, SInvFacts DEF StepFit, At, Payer
<1>3. PaidStatus(s) \in Status /\ step \in Step
  BY DEF PaidStatus, Status, PurchasedStatus, Step
<1>4. /\ \A t \in Session \ {s} : txn'[t] = txn[t]
      /\ txn'[s].step = step /\ txn'[s].n = txn[s].n /\ txn'[s].status = txn[s].status
      /\ txn'[s].todo = txn[s].todo /\ txn'[s].rows = txn[s].rows /\ txn'[s].prefixed = txn[s].prefixed
  BY <1>0, <1>1, <1>3, GoShape
<1>5. draft'.status[o] = PaidStatus(s) /\ draft'.granted = draft.granted
  BY <1>0, <1>1 DEF TypeOK, Table
<1>6. \A y \in Order : lock[y] = s => y = o
  BY <1>1, SInvFacts DEF HeldOrder, At
<1>7. HeldOrder(s, o)'
  BY <1>2, <1>4, <1>5 DEF HeldOrder, PaidStatus
<1>8. ASSUME NEW y \in Student, lock[y] = s PROVE HeldStudent(s, y)'
  <2>1. HeldStudent(s, y)
    BY <1>8, SInvFacts
  <2> QED
    BY <1>1, <1>2, <1>4, <1>5, <2>1 DEF HeldStudent, Owing
<1>9. ASSUME lock'[o] = s, \A y \in Order \cup Student : lock[y] = s => lock'[y] = s
      PROVE  TurnFit(s)'
  <2>1. Holds(s)'
    BY <1>0, <1>1, <1>2, <1>4, <1>9 DEF Holds, Paying, Owing, At
  <2>2. PayFit(s)'
    BY <1>1, <1>2, <1>4 DEF PayFit, Paying, Owing, StillTrue, RowsOf, At
  <2> QED
    BY <1>2, <2>1, <2>2 DEF TurnFit
<1> HIDE DEF o
<1> QED
  BY <1>0, <1>1, <1>3, <1>4, <1>6, <1>7, <1>8, <1>9, StatusTurn

LEMMA FailOtherTurn == ASSUME IInv, SInv, NEW s \in Session, FailOther(s) PROVE SInv'
<1> DEFINE o == OrderOf[s]
<1>0. TypeOK /\ o \in Order /\ StudentOf[o] \in Student
  BY SInvFacts
<1>1. PICK x \in Crowded(s) : /\ Acquire(s, x) /\ draft' = [draft EXCEPT !.status[x] = "failed"]
                              /\ At(s, "crowd") /\ UNCHANGED <<table, ledger, txn>>
  BY DEF FailOther
<1>2. Payer(s) /\ PayFit(s) /\ Holds(s)
  BY <1>1, SInvFacts DEF StepFit, At, Payer
<1>3. /\ x \in Order /\ x # o /\ x \in Siblings(o) /\ VisibleStatus(s, x) \in OpenStatus
      /\ "failed" \in Status /\ "failed" \notin OpenStatus
  BY DEF Crowded, Siblings, Status, FinalStatus, OpenStatus
<1>4. lock[x] # s
  BY <1>3, SInvFacts DEF HeldOrder, VisibleStatus, Version
<1>5. table.status[x] \in OpenStatus
  BY <1>3, <1>4 DEF VisibleStatus, Version
<1>6. draft'.status[x] = "failed" /\ draft'.granted = draft.granted
  BY <1>0, <1>1, <1>3 DEF TypeOK, Table
<1>7. HeldOrder(s, x)'
  BY <1>1, <1>2, <1>3, <1>5, <1>6 DEF HeldOrder, At
<1>8. ASSUME NEW y \in Order, lock[y] = s, draft'.status[y] = draft.status[y] PROVE HeldOrder(s, y)'
  <2>1. HeldOrder(s, y)
    BY <1>8, SInvFacts
  <2> QED
    BY <1>1, <1>2, <1>8, <2>1 DEF HeldOrder, At, PaidStatus
<1>9. ASSUME NEW y \in Student, lock[y] = s PROVE HeldStudent(s, y)'
  <2>1. HeldStudent(s, y)
    BY <1>9, SInvFacts
  <2> QED
    BY <1>1, <1>6, <2>1 DEF HeldStudent
<1>10. ASSUME \A y \in Order \cup Student : lock[y] = s => lock'[y] = s
       PROVE  TurnFit(s)'
  <2>1. Holds(s)'
    BY <1>0, <1>1, <1>2, <1>10 DEF Holds
  <2>2. PayFit(s)'
    BY <1>1, <1>2 DEF PayFit, StillTrue, RowsOf
  <2> QED
    BY <1>2, <2>1, <2>2 DEF TurnFit
<1> HIDE DEF o
<1> QED
  BY <1>1, <1>3, <1>7, <1>8, <1>9, <1>10, StatusTurn

LEMMA FailedAllTurn == ASSUME IInv, SInv, NEW s \in Session, FailedAll(s) PROVE SInv'
<1>1. At(s, "crowd") /\ Go(s, "commit") /\ UNCHANGED <<table, draft, ledger, lock>>
  BY DEF FailedAll
<1>2. /\ \A t \in Session \ {s} : txn'[t] = txn[t]
      /\ txn'[s].step = "commit" /\ txn'[s].n = txn[s].n /\ txn'[s].status = txn[s].status
      /\ txn'[s].todo = txn[s].todo /\ txn'[s].rows = txn[s].rows /\ txn'[s].prefixed = txn[s].prefixed
  BY <1>1, SInvFacts, GoShape DEF Step
<1>3. Payer(s) /\ PayFit(s) /\ Holds(s)
  BY <1>1, SInvFacts DEF StepFit, At, Payer
<1>4. ASSUME NEW y \in Order, lock[y] = s PROVE HeldOrder(s, y)'
  <2>1. HeldOrder(s, y)
    BY <1>4, SInvFacts
  <2> QED
    BY <1>1, <1>2, <1>3, <2>1 DEF HeldOrder, At, PaidStatus
<1>5. ASSUME NEW y \in Student, lock[y] = s PROVE HeldStudent(s, y)'
  <2>1. HeldStudent(s, y)
    BY <1>5, SInvFacts
  <2> QED
    BY <1>1, <1>2, <1>3, <2>1 DEF HeldStudent, At, Owing
<1>6. Holds(s)' /\ PayFit(s)'
  BY <1>1, <1>2, <1>3 DEF Holds, PayFit, StillTrue, RowsOf, Paying, Owing, At
<1> QED
  BY <1>1, <1>2, <1>3, <1>4, <1>5, <1>6, SeatedTurn DEF TurnFit

\* A revocation that has not yet taken the row of its order or of the entitlement.
LEMMA RevokingOn ==
    ASSUME IInv, SInv, NEW s \in Session, UNCHANGED <<table, ledger>>,
           \A t \in Session \ {s} : txn'[t] = txn[t],
           \A x \in Order \cup Student : lock'[x] = lock[x],
           draft'.status = draft.status, draft'.granted = draft.granted,
           txn[s].step \in {"fetch", "undo", "prefix"},
           txn'[s].step \in {"undo", "prefix", "withdraw"},
           txn'[s].step = "withdraw" => txn'[s].prefixed = PlainRows(OrderOf[s])
    PROVE  SInv'
<1>1. ~ Payer(s) /\ RevokeFit(s)
  BY SInvFacts DEF StepFit, Payer
<1>2. (\A x \in Order : lock[x] # s) /\ (\A x \in Student : lock[x] # s)
  BY <1>1, SInvFacts DEF HeldOrder, HeldStudent
<1>3. Holds(s)'
  BY <1>1 DEF Holds
<1>4. RevokeFit(s)'
  BY <1>1 DEF RevokeFit, Revoking, PlainRows
<1> QED
  BY <1>1, <1>2, <1>3, <1>4, SeatedTurn DEF TurnFit

LEMMA FetchTurn == ASSUME IInv, SInv, NEW s \in Session, Fetch(s) PROVE SInv'
<1>1. /\ At(s, "fetch") /\ UNCHANGED <<table, draft, ledger, lock>>
      /\ txn' = [txn EXCEPT ![s].step = "undo", ![s].todo = PlainRows(OrderOf[s])]
  BY DEF Fetch
<1>2. txn'[s].step = "undo" /\ \A t \in Session \ {s} : txn'[t] = txn[t]
  BY <1>1, SInvFacts DEF TypeOK, Transaction
<1> QED
  BY <1>1, <1>2, RevokingOn DEF At

LEMMA UndoTurn == ASSUME IInv, SInv, NEW s \in Session, Undo(s) PROVE SInv'
<1>0. TypeOK /\ txn[s].todo \in SUBSET Row
  BY SInvFacts, RowsAreRows
<1>1. PICK r \in txn[s].todo :
         /\ At(s, "undo") /\ Post(s, r.accountid, {Undone(r, s)})
         /\ txn' = [txn EXCEPT ![s].todo = txn[s].todo \ {r},
                               ![s].rows = txn[s].rows \cup {Undone(r, s)}]
  BY DEF Undo, Undone
<1>2. txn'[s].step = "undo" /\ \A t \in Session \ {s} : txn'[t] = txn[t]
  BY <1>0, <1>1 DEF TypeOK, Transaction, At
<1>3. r.accountid \in Agent
  BY <1>0 DEF Row
<1>4. /\ UNCHANGED <<table, ledger>>
      /\ \A x \in Order \cup Student : lock'[x] = lock[x]
      /\ draft'.status = draft.status /\ draft'.granted = draft.granted
  BY <1>0, <1>1, <1>3, PostShape
<1> QED
  BY <1>1, <1>2, <1>4, RevokingOn DEF At

LEMMA UndoneAllTurn == ASSUME IInv, SInv, NEW s \in Session, UndoneAll(s) PROVE SInv'
<1>1. At(s, "undo") /\ Go(s, "prefix") /\ UNCHANGED <<table, draft, ledger, lock>>
  BY DEF UndoneAll
<1>2. txn'[s].step = "prefix" /\ \A t \in Session \ {s} : txn'[t] = txn[t]
  BY <1>1, SInvFacts, GoShape DEF Step
<1> QED
  BY <1>1, <1>2, RevokingOn DEF At

LEMMA PrefixTurn == ASSUME IInv, SInv, NEW s \in Session, Prefix(s) PROVE SInv'
<1>1. /\ At(s, "prefix") /\ UNCHANGED <<table, draft, ledger, lock>>
      /\ txn' = [txn EXCEPT ![s].step = "withdraw", ![s].prefixed = PlainRows(OrderOf[s])]
  BY DEF Prefix
<1>2. /\ txn'[s].step = "withdraw" /\ \A t \in Session \ {s} : txn'[t] = txn[t]
      /\ txn'[s].prefixed = PlainRows(OrderOf[s])
  BY <1>1, SInvFacts DEF TypeOK, Transaction
<1> QED
  BY <1>1, <1>2, RevokingOn DEF At

LEMMA WithdrawTurn == ASSUME IInv, SInv, NEW s \in Session, Withdraw(s) PROVE SInv'
<1> DEFINE x == StudentOf[OrderOf[s]]
<1>0. TypeOK /\ OrderOf[s] \in Order /\ x \in Student /\ s # NULL
  BY SInvFacts
<1>1. At(s, "withdraw") /\ Acquire(s, x) /\ Go(s, "close") /\ UNCHANGED <<table, ledger>>
      /\ draft' = [draft EXCEPT !.granted[x] = draft.granted[x] - 1]
  BY DEF Withdraw
<1>2. ~ Payer(s) /\ RevokeFit(s)
  BY <1>1, SInvFacts DEF StepFit, At, Payer
<1>3. draft.granted[x] - 1 \in Int
  BY <1>0 DEF TypeOK, Table
<1>4. /\ draft'.status = draft.status /\ draft'.granted = [draft.granted EXCEPT ![x] = draft.granted[x] - 1]
      /\ x \in DOMAIN draft.granted
  BY <1>0, <1>1, <1>3, GrantedShape DEF TypeOK, Table
<1>5. lock'[x] = s /\ lock[x] \in {s, NULL} /\ x \in Lockable /\ \A y \in Lockable \ {x} : lock'[y] = lock[y]
  BY <1>0, <1>1, AcquireShape
<1>6. /\ \A t \in Session \ {s} : txn'[t] = txn[t]
      /\ txn'[s].step = "close" /\ txn'[s].prefixed = txn[s].prefixed
  BY <1>0, <1>1, GoShape DEF Step
<1>7. (\A y \in Student : lock[y] # s) /\ (\A y \in Order : lock[y] # s)
  BY <1>1, <1>2, SInvFacts DEF HeldStudent, HeldOrder, At, Owing
<1>8. HeldStudent(s, x)'
  <2>1. draft.granted[x] = table.granted[x]
    BY <1>0, <1>5, <1>7, SInvFacts
  <2> QED
    BY <1>0, <1>1, <1>2, <1>4, <1>6, <2>1 DEF HeldStudent
<1>9. TurnFit(s)'
  BY <1>1, <1>2, <1>5, <1>6 DEF TurnFit, Holds, RevokeFit, Revoking, PlainRows, At
<1> HIDE DEF x
<1>10. \A y \in Order : y \in Lockable /\ y # x /\ lock'[y] = lock[y] /\ draft'.status[y] = draft.status[y]
  BY <1>0, <1>4, <1>5, RaceAssumption DEF Lockable
<1>11. \A y \in Student : y # x => lock'[y] = lock[y] /\ draft'.granted[y] = draft.granted[y]
  BY <1>0, <1>4, <1>5 DEF Lockable, TypeOK, Table
<1>15. \A y \in Order \cup Student :
          lock'[y] = lock[y] \/ (lock[y] \in {s, NULL} /\ lock'[y] \in {s, NULL})
  BY <1>5, <1>10, <1>11
<1>16. \A y \in Order : /\ draft'.status[y] = draft.status[y] \/ lock[y] = s \/ lock'[y] = s
                        /\ lock[y] = s /\ lock'[y] = NULL => draft'.status[y] = table.status[y]
                        /\ lock'[y] = s => HeldOrder(s, y)'
  BY <1>7, <1>10
<1>17. \A y \in Student : /\ draft'.granted[y] = draft.granted[y] \/ lock[y] = s \/ lock'[y] = s
                          /\ lock[y] = s /\ lock'[y] = NULL => draft'.granted[y] = table.granted[y]
                          /\ lock'[y] = s => HeldStudent(s, y)'
  BY <1>5, <1>7, <1>8, <1>11
<1> QED
  BY <1>1, <1>6, <1>9, <1>15, <1>16, <1>17, StepTurn

LEMMA CloseTurn == ASSUME IInv, SInv, NEW s \in Session, Close(s) PROVE SInv'
<1> DEFINE o == OrderOf[s]
<1>0. TypeOK /\ o \in Order /\ StudentOf[o] \in Student
  BY SInvFacts
<1>1. /\ At(s, "close") /\ Acquire(s, o) /\ Go(s, "commit") /\ UNCHANGED <<table, ledger>>
      /\ draft' = [draft EXCEPT !.status[o] = "refunded"]
  BY Zenon DEF Close
<1>2. ~ Payer(s) /\ RevokeFit(s) /\ Holds(s)
  BY <1>1, SInvFacts DEF StepFit, At, Payer
<1>3. "refunded" \in Status
  BY DEF Status, FinalStatus
<1>4. /\ \A t \in Session \ {s} : txn'[t] = txn[t]
      /\ txn'[s].step = "commit" /\ txn'[s].prefixed = txn[s].prefixed
  BY <1>0, <1>1, GoShape DEF Step
<1>5. draft'.status[o] = "refunded" /\ draft'.granted = draft.granted
  BY <1>0, <1>1 DEF TypeOK, Table
<1>6. \A y \in Order : lock[y] # s
  BY <1>1, <1>2, SInvFacts DEF HeldOrder, At
<1>7. HeldOrder(s, o)'
  BY <1>2, <1>4, <1>5 DEF HeldOrder
<1>8. ASSUME NEW y \in Student, lock[y] = s PROVE HeldStudent(s, y)'
  <2>1. HeldStudent(s, y)
    BY <1>8, SInvFacts
  <2> QED
    BY <1>1, <1>2, <1>4, <1>5, <2>1 DEF HeldStudent
<1>9. ASSUME lock'[o] = s, \A y \in Order \cup Student : lock[y] = s => lock'[y] = s
      PROVE  TurnFit(s)'
  <2>1. Holds(s)'
    BY <1>0, <1>1, <1>2, <1>4, <1>9 DEF Holds, At
  <2>2. RevokeFit(s)'
    BY <1>1, <1>2, <1>4 DEF RevokeFit, Revoking, PlainRows, At
  <2> QED
    BY <1>2, <2>1, <2>2 DEF TurnFit
<1> HIDE DEF o
<1> QED
  BY <1>0, <1>1, <1>3, <1>4, <1>6, <1>7, <1>8, <1>9, StatusTurn

LEMMA RollbackTurn == ASSUME IInv, SInv, NEW s \in Session, Rollback(s) PROVE SInv'
<1>0. TypeOK /\ s # NULL /\ draft \in Table /\ table \in Table
  BY SInvFacts DEF TypeOK
<1>1. /\ draft' = Copy(draft, table, s) /\ lock' = Released(s) /\ txn' = Ended(s, "aborted")
      /\ UNCHANGED <<table, ledger>>
  BY DEF Rollback
<1>2. /\ txn'[s].step = "aborted" /\ txn'[s].rows = {}
      /\ \A u \in Session \ {s} : txn'[u] = txn[u]
      /\ \A x \in Lockable : lock'[x] = IF lock[x] = s THEN NULL ELSE lock[x]
  BY <1>0, <1>1, EndFit
<1>3. txn'[s].todo = {} /\ txn'[s].prefixed = {}
  BY <1>0, <1>1 DEF Ended, TypeOK
<1>4. TurnFit(s)'
  BY <1>2, <1>3 DEF TurnFit, Holds, PayFit, RevokeFit, OneOfEach, Paying, Owing, Revoking
<1>5. \A x \in Order \cup Student : x \in Lockable
  BY DEF Lockable
<1>6. \A x \in Order : draft'.status[x] = IF lock[x] = s THEN table.status[x] ELSE draft.status[x]
  BY <1>1 DEF Copy
<1>7. \A x \in Student : draft'.granted[x] = IF lock[x] = s THEN table.granted[x] ELSE draft.granted[x]
  BY <1>1 DEF Copy
<1>8. \A x \in Order \cup Student : lock'[x] = IF lock[x] = s THEN NULL ELSE lock[x]
  BY <1>2, <1>5
<1>9. \A x \in Order \cup Student :
         /\ lock'[x] # s
         /\ lock'[x] = lock[x] \/ (lock[x] \in {s, NULL} /\ lock'[x] \in {s, NULL})
  BY <1>0, <1>8
<1> QED
  BY <1>0, <1>1, <1>2, <1>4, <1>6, <1>7, <1>9, StepTurn

-----------------------------------------------------------------------------
(* A commit.                                                               *)

\* What it does to the rows.
LEMMA CommitRows ==
    ASSUME IInv, SInv, NEW s \in Session, Commit(s)
    PROVE  /\ \A x \in Order \ {OrderOf[s]} : RowsOf(x)' = RowsOf(x) /\ PlainRows(x)' = PlainRows(x)
           /\ Payer(s) => /\ RowsOf(OrderOf[s])' = txn[s].rows /\ PlainRows(OrderOf[s])' = txn[s].rows
                          /\ txn[s].rows # {} /\ RowsOf(OrderOf[s]) = {} /\ txn[s].rows \subseteq Row
           /\ ~ Payer(s) => PlainRows(OrderOf[s])' = {} /\ PlainRows(OrderOf[s]) # {}
                            /\ \E r \in RowsOf(OrderOf[s])' : r.mark # "plain"
<1> DEFINE o == OrderOf[s]
           P == txn[s].prefixed
           rows == txn[s].rows
<1>0. TypeOK /\ o \in Order /\ P \subseteq Row /\ rows \subseteq Row /\ RowsFit(s)
  BY SInvFacts, RowsAreRows
<1>1. At(s, "commit") /\ ledger' = (ledger \ P) \cup {Revoked(r) : r \in P} \cup rows
  BY Zenon DEF Commit, Revoked
<1>2. \A r \in P : Revoked(r).orderid = r.orderid /\ Revoked(r).mark = "revoked"
  BY <1>0, RevokedRow
<1>3. \A r \in rows : r.orderid = o /\ (r.mark = "plain" <=> Payer(s))
  BY <1>0 DEF RowsFit, Payer
<1>4. /\ Payer(s) => P = {} /\ RowsOf(o) = {} /\ rows # {}
      /\ ~ Payer(s) => P = PlainRows(o) /\ P # {}
  <2>1. Payer(s) => P = {} /\ RowsOf(o) = {} /\ rows # {}
    BY <1>1, SInvFacts DEF PayFit, Paying, Owing, At
  <2>2. ~ Payer(s) => P = PlainRows(o) /\ table.status[o] = "settled"
    BY <1>1, SInvFacts DEF RevokeFit, Revoking, At
  <2>3. table.status[o] = "settled" => PlainRows(o) # {}
    BY <1>0 DEF SInv, StatusFit
  <2> QED
    BY <2>1, <2>2, <2>3
<1>5. \A r \in P : r.orderid = o
  BY <1>4 DEF PlainRows
<1> HIDE DEF o, P, rows
<1>6. ASSUME NEW x \in Order, x # o PROVE RowsOf(x)' = RowsOf(x) /\ PlainRows(x)' = PlainRows(x)
  BY <1>1, <1>2, <1>3, <1>5, <1>6 DEF RowsOf, PlainRows
<1>7. ASSUME Payer(s) PROVE RowsOf(o)' = rows /\ PlainRows(o)' = rows
  <2>1. ledger' = ledger \cup rows
    BY <1>1, <1>4, <1>7
  <2>2. \A r \in ledger : r.orderid # o
    BY <1>4, <1>7 DEF RowsOf
  <2> QED
    BY <1>3, <1>7, <2>1, <2>2 DEF RowsOf, PlainRows
<1>8. ASSUME ~ Payer(s)
      PROVE  PlainRows(o)' = {} /\ PlainRows(o) # {} /\ \E r \in RowsOf(o)' : r.mark # "plain"
  <2>1. PlainRows(o)' = {}
    BY <1>1, <1>2, <1>3, <1>4, <1>8 DEF PlainRows
  <2>2. PICK r \in P : TRUE
    BY <1>4, <1>8
  <2>3. Revoked(r) \in ledger' /\ Revoked(r).orderid = o /\ Revoked(r).mark # "plain"
    BY <1>1, <1>2, <1>5
  <2> QED
    BY <1>4, <1>8, <2>1, <2>3 DEF RowsOf
<1> QED
  BY <1>0, <1>4, <1>6, <1>7, <1>8 DEF o, P, rows

\* And to the status of orders and the entitlement.
LEMMA CommitTable ==
    ASSUME IInv, SInv, NEW s \in Session, Commit(s)
    PROVE  /\ \A x \in Order : lock[x] # s => table'.status[x] = table.status[x]
           /\ \A x \in Order \ {OrderOf[s]} : lock[x] = s =>
                 /\ Payer(s) /\ x \in Siblings(OrderOf[s])
                 /\ table.status[x] \in OpenStatus /\ table'.status[x] = "failed"
           /\ lock[OrderOf[s]] = s
           /\ table'.status[OrderOf[s]] = IF Payer(s) THEN PaidStatus(s) ELSE "refunded"
           /\ \A x \in Student : lock[x] # s => table'.granted[x] = table.granted[x]
           /\ \A x \in Student : lock[x] = s =>
                 /\ x = StudentOf[OrderOf[s]] /\ (Payer(s) => txn[s].status \in OpenStatus)
                 /\ table'.granted[x] = IF Payer(s) THEN table.granted[x] + 1 ELSE table.granted[x] - 1
           /\ \A x \in Order \cup Student : lock'[x] = IF lock[x] = s THEN NULL ELSE lock[x]
           /\ draft' = draft
           /\ \A x \in Order : lock[x] = s => table'.status[x] = draft.status[x]
           /\ \A x \in Student : lock[x] = s => table'.granted[x] = draft.granted[x]
<1> DEFINE o == OrderOf[s]
<1>0. TypeOK /\ o \in Order /\ draft \in Table /\ table \in Table
  BY SInvFacts DEF TypeOK
<1>1. /\ table' = Copy(table, draft, s) /\ lock' = Released(s) /\ txn' = Ended(s, "done")
      /\ draft' = draft /\ At(s, "commit")
  BY Zenon DEF Commit
<1>2. \A x \in Order : table'.status[x] = IF lock[x] = s THEN draft.status[x] ELSE table.status[x]
  BY <1>1 DEF Copy
<1>3. \A x \in Student : table'.granted[x] = IF lock[x] = s THEN draft.granted[x] ELSE table.granted[x]
  BY <1>1 DEF Copy
<1>4. \A x \in Order \cup Student : lock'[x] = IF lock[x] = s THEN NULL ELSE lock[x]
  BY <1>1 DEF Released, Lockable
<1>5. lock[o] = s
  BY <1>1, SInvFacts DEF Holds, At
<1>6. draft.status[o] = IF Payer(s) THEN PaidStatus(s) ELSE "refunded"
  BY <1>0, <1>1, <1>5, SInvFacts DEF HeldOrder, At
<1>7. \A x \in Order \ {o} : lock[x] = s =>
         /\ Payer(s) /\ x \in Siblings(o) /\ table.status[x] \in OpenStatus /\ draft.status[x] = "failed"
  BY SInvFacts DEF HeldOrder
<1>8. \A x \in Student : lock[x] = s =>
         /\ x = StudentOf[o] /\ (Payer(s) => txn[s].status \in OpenStatus)
         /\ draft.granted[x] = IF Payer(s) THEN table.granted[x] + 1 ELSE table.granted[x] - 1
  BY SInvFacts DEF HeldStudent
<1> QED
  BY <1>0, <1>1, <1>2, <1>3, <1>4, <1>5, <1>6, <1>7, <1>8

LEMMA LocksCommit == ASSUME IInv, SInv, NEW s \in Session, Commit(s) PROVE LocksFit'
<1>1. ASSUME NEW t \in Session, t # s PROVE txn'[t] = txn[t]
  BY <1>1, SInvFacts DEF Commit, Ended, TypeOK
<1>2. s # NULL
  BY SInvFacts
<1>3. ASSUME NEW x \in Order
      PROVE  /\ lock'[x] = NULL => draft'.status[x] = table'.status[x]
             /\ \A t \in Session : lock'[x] = t => HeldOrder(t, x)'
  <2>1. lock'[x] = NULL => draft'.status[x] = table'.status[x]
    BY CommitTable, SInvFacts
  <2>2. ASSUME NEW t \in Session, lock'[x] = t PROVE HeldOrder(t, x)'
    <3>1. t # NULL /\ t # s /\ lock[x] = t
      BY <1>2, <2>2, CommitTable, SInvFacts
    <3>2. HeldOrder(t, x) /\ txn'[t] = txn[t] /\ table'.status[x] = table.status[x] /\ draft' = draft
      BY <1>1, <3>1, CommitTable, SInvFacts
    <3> QED
      BY <3>2 DEF HeldOrder
  <2> QED
    BY <2>1, <2>2
<1>4. ASSUME NEW x \in Student
      PROVE  /\ lock'[x] = NULL => draft'.granted[x] = table'.granted[x]
             /\ \A t \in Session : lock'[x] = t => HeldStudent(t, x)'
  <2>1. lock'[x] = NULL => draft'.granted[x] = table'.granted[x]
    BY CommitTable, SInvFacts
  <2>2. ASSUME NEW t \in Session, lock'[x] = t PROVE HeldStudent(t, x)'
    <3>1. t # NULL /\ t # s /\ lock[x] = t
      BY <1>2, <2>2, CommitTable, SInvFacts
    <3>2. HeldStudent(t, x) /\ txn'[t] = txn[t] /\ table'.granted[x] = table.granted[x] /\ draft' = draft
      BY <1>1, <3>1, CommitTable, SInvFacts
    <3> QED
      BY <3>2 DEF HeldStudent
  <2> QED
    BY <2>1, <2>2
<1> QED
  BY <1>3, <1>4 DEF LocksFit

LEMMA StatusCommit == ASSUME IInv, SInv, NEW s \in Session, Commit(s) PROVE StatusFit'
<1> SUFFICES ASSUME NEW x \in Order
             PROVE  /\ RowsOf(x)' # {} => table'.status[x] \in {"paid", "settled", "refunded"}
                    /\ (\E r \in RowsOf(x)' : r.mark # "plain") => table'.status[x] = "refunded"
                    /\ table'.status[x] = "settled" => PlainRows(x)' # {}
                    /\ OneOfEach(PlainRows(x)')
  BY DEF StatusFit, OneOfEach
<1>0. /\ RowsOf(x) # {} => table.status[x] \in {"paid", "settled", "refunded"}
      /\ (\E r \in RowsOf(x) : r.mark # "plain") => table.status[x] = "refunded"
      /\ table.status[x] = "settled" => PlainRows(x) # {}
      /\ OneOfEach(PlainRows(x))
  BY DEF SInv, StatusFit
<1>1. CASE x # OrderOf[s]
  <2>1. RowsOf(x)' = RowsOf(x) /\ PlainRows(x)' = PlainRows(x)
    BY <1>1, CommitRows
  <2>2. CASE lock[x] # s
    <3>1. table'.status[x] = table.status[x]
      BY <2>2, CommitTable
    <3> QED
      BY <1>0, <2>1, <3>1
  <2>3. CASE lock[x] = s
    <3>1. table.status[x] \in OpenStatus /\ table'.status[x] = "failed"
      BY <1>1, <2>3, CommitTable
    <3> QED
      BY <1>0, <2>1, <3>1 DEF OpenStatus
  <2> QED
    BY <2>2, <2>3
<1>2. CASE x = OrderOf[s] /\ Payer(s)
  <2>1. RowsOf(x)' = txn[s].rows /\ PlainRows(x)' = txn[s].rows /\ txn[s].rows # {}
    BY <1>2, CommitRows
  <2>2. \A r \in txn[s].rows : r.mark = "plain"
    BY <1>2, SInvFacts DEF RowsFit, Payer
  <2>3. OneOfEach(txn[s].rows)
    BY <1>2, SInvFacts DEF PayFit
  <2>4. table'.status[x] \in {"paid", "settled"}
    BY <1>2, CommitTable DEF PaidStatus
  <2> QED
    BY <2>1, <2>2, <2>3, <2>4
<1>3. CASE x = OrderOf[s] /\ ~ Payer(s)
  <2>1. PlainRows(x)' = {} /\ table'.status[x] = "refunded"
    BY <1>3, CommitRows, CommitTable
  <2> QED
    BY <2>1 DEF OneOfEach
<1> QED
  BY <1>1, <1>2, <1>3

\* What a payer that commits was told of its order.
LEMMA PayerCommits ==
    ASSUME IInv, SInv, NEW s \in Session, At(s, "commit"), Payer(s)
    PROVE  /\ txn[s].status \in OpenStatus =>
                 /\ table.status[OrderOf[s]] \in OpenStatus \cup {"failed"}
                 /\ lock[StudentOf[OrderOf[s]]] = s
           /\ txn[s].status \notin OpenStatus => table.status[OrderOf[s]] = "paid"
           /\ table.status[OrderOf[s]] \notin {"settled", "refunded"}
           /\ Kind[s] = "approve" => table.status[OrderOf[s]] = txn[s].status
<1>1. PayFit(s) /\ Holds(s)
  BY SInvFacts
<1>2. StillTrue(s) /\ txn[s].status \in OpenStatus \cup {"paid"}
  BY <1>1 DEF PayFit, Paying, Owing, At
<1>3. txn[s].status \in OpenStatus => lock[StudentOf[OrderOf[s]]] = s
  BY <1>1 DEF Holds, Owing, At
<1> QED
  BY <1>2, <1>3 DEF StillTrue, OpenStatus

LEMMA PurchasedIsFinite ==
    ASSUME NEW x, NEW status
    PROVE  IsFiniteSet(Purchased(x, status)) /\ Cardinality(Purchased(x, status)) \in Nat
<1>1. Purchased(x, status) \subseteq Order
  BY DEF Purchased
<1> QED
  BY <1>1, RaceAssumption, FS_Subset, FS_CardinalityType

\* The orders of a student that are paid for, after a commit.
LEMMA PurchasedCommit ==
    ASSUME IInv, SInv, NEW s \in Session, Commit(s), NEW x \in Student
    PROVE  /\ x # StudentOf[OrderOf[s]] => Purchased(x, table'.status) = Purchased(x, table.status)
           /\ x = StudentOf[OrderOf[s]] =>
                Purchased(x, table'.status) = IF Payer(s) THEN Purchased(x, table.status) \cup {OrderOf[s]}
                                              ELSE Purchased(x, table.status) \ {OrderOf[s]}
<1> DEFINE o == OrderOf[s]
<1>0. o \in Order /\ "failed" \notin PurchasedStatus /\ "refunded" \notin PurchasedStatus
      /\ PaidStatus(s) \in PurchasedStatus /\ OpenStatus \cap PurchasedStatus = {}
  BY SInvFacts DEF PurchasedStatus, PaidStatus, OpenStatus
<1>1. \A y \in Order \ {o} : table'.status[y] \in PurchasedStatus <=> table.status[y] \in PurchasedStatus
  BY <1>0, CommitTable
<1>2. table'.status[o] \in PurchasedStatus <=> Payer(s)
  BY <1>0, CommitTable
<1> QED
  BY <1>0, <1>1, <1>2 DEF Purchased

LEMMA GrantedCommit == ASSUME IInv, SInv, NEW s \in Session, Commit(s) PROVE GrantedPerOrder'
<1> DEFINE o == OrderOf[s]
<1>0. TypeOK /\ o \in Order /\ At(s, "commit") /\ StudentOf[o] \in Student
  BY SInvFacts DEF Commit
<1> SUFFICES ASSUME NEW x \in Student
             PROVE  table'.granted[x] = Cardinality(Purchased(x, table'.status))
                                        - Cardinality(Purchased(x, OpeningStatus))
  BY DEF GrantedPerOrder, Purchased
<1> DEFINE before == Purchased(x, table.status)
           opening == Cardinality(Purchased(x, OpeningStatus))
<1>1. table.granted[x] = Cardinality(before) - opening
  BY DEF SInv, GrantedPerOrder, Purchased
<1>2. IsFiniteSet(before) /\ Cardinality(before) \in Nat /\ opening \in Nat
  BY PurchasedIsFinite
<1> HIDE DEF opening
<1>3. CASE x # StudentOf[o]
  <2>0. Purchased(x, table'.status) = before
    BY <1>3, PurchasedCommit
  <2>1. Purchased(x, table'.status) = before /\ lock[x] # s
    BY <1>3, <2>0, SInvFacts DEF HeldStudent
  <2>2. table'.granted[x] = table.granted[x]
    BY <2>1, CommitTable
  <2> QED
    BY <1>1, <2>1, <2>2 DEF opening
<1>4. CASE x = StudentOf[o] /\ Payer(s) /\ txn[s].status \in OpenStatus
  <2>1. table.status[o] \in OpenStatus \cup {"failed"} /\ lock[x] = s
    BY <1>0, <1>4, PayerCommits
  <2>2. o \notin before
    BY <2>1 DEF Purchased, OpenStatus, PurchasedStatus
  <2>3. Purchased(x, table'.status) = before \cup {o}
    BY <1>4, PurchasedCommit
  <2>4. table'.granted[x] = table.granted[x] + 1
    BY <1>4, <2>1, CommitTable
  <2> HIDE DEF before
  <2>5. Cardinality(before \cup {o}) = Cardinality(before) + 1
    BY <1>2, <2>2, FS_AddElement
  <2> QED
    BY <1>1, <1>2, <2>3, <2>4, <2>5 DEF opening
<1>5. CASE x = StudentOf[o] /\ Payer(s) /\ txn[s].status \notin OpenStatus
  <2>1. table.status[o] = "paid" /\ lock[x] # s
    BY <1>0, <1>5, PayerCommits, CommitTable
  <2>2. o \in before
    BY <1>0, <1>5, <2>1 DEF Purchased, PurchasedStatus
  <2>3. Purchased(x, table'.status) = before
    <3>1. Purchased(x, table'.status) = before \cup {o}
      BY <1>5, PurchasedCommit
    <3> HIDE DEF before
    <3> QED
      BY <2>2, <3>1
  <2>4. table'.granted[x] = table.granted[x]
    BY <2>1, CommitTable
  <2> QED
    BY <1>1, <2>3, <2>4 DEF opening
<1>6. CASE x = StudentOf[o] /\ ~ Payer(s)
  <2>1. table.status[o] = "settled" /\ lock[x] = s
    BY <1>0, <1>6, SInvFacts DEF RevokeFit, Holds, Revoking, At
  <2>2. o \in before
    BY <1>0, <1>6, <2>1 DEF Purchased, PurchasedStatus
  <2>3. Purchased(x, table'.status) = before \ {o}
    BY <1>6, PurchasedCommit
  <2>4. table'.granted[x] = table.granted[x] - 1
    BY <1>6, <2>1, CommitTable
  <2> HIDE DEF before
  <2>5. Cardinality(before \ {o}) = Cardinality(before) - 1
    BY <1>2, <2>2, FS_RemoveElement
  <2> QED
    BY <1>1, <1>2, <2>3, <2>4, <2>5 DEF opening
<1> QED
  BY <1>3, <1>4, <1>5, <1>6

\* What other sessions rely on is still so.
LEMMA OthersCommit ==
    ASSUME IInv, SInv, Serialised, NEW s \in Session, Commit(s), NEW t \in Session, t # s
    PROVE  TurnFit(t)'
<1> DEFINE o == OrderOf[t]
           u == OrderOf[s]
<1>0. /\ TypeOK /\ o \in Order /\ StudentOf[o] \in Student /\ t # NULL /\ At(s, "commit")
      /\ Holds(t) /\ (Payer(t) => PayFit(t)) /\ (~ Payer(t) => RevokeFit(t))
  BY SInvFacts DEF Commit
<1>1. txn'[t] = txn[t]
  BY SInvFacts DEF Commit, Ended, TypeOK
<1>2. \A x \in Order \cup Student : lock[x] = t => lock'[x] = t
  BY CommitTable
<1>3. Holds(t)'
  BY <1>0, <1>1, <1>2 DEF Holds
\* What happens to the status of the order of t.
<1>4. \/ table'.status[o] = table.status[o]
      \/ table.status[o] \in OpenStatus /\ table'.status[o] = "failed" /\ lock[o] = s /\ u # o
      \/ u = o /\ lock[o] = s
  BY <1>0, CommitTable
<1>5. u # o => RowsOf(o)' = RowsOf(o) /\ PlainRows(o)' = PlainRows(o)
  BY <1>0, CommitRows
<1>6. u = o => (Payer(s) <=> ~ Payer(t)) \/ (Kind[s] = "approve" /\ Kind[t] = "approve")
  BY RaceAssumption DEF Serialised, PaidAlone, RevokedByOne, Payer, SessionKind
<1>7. u = o /\ ~ Payer(s) => table.status[o] = "settled"
  BY <1>0, SInvFacts DEF RevokeFit, Revoking, At
<1>8. u = o /\ Payer(s) => table.status[o] \notin {"settled", "refunded"}
  BY <1>0, PayerCommits
<1>9. ASSUME Payer(t),
             (txn[t].step = "check" /\ txn[t].status \notin FinalStatus) \/ txn[t].step \in Paying
      PROVE  StillTrue(t)' /\ (txn[t].step \in Paying => RowsOf(o)' = RowsOf(o))
  <2>1. StillTrue(t) /\ (txn[t].step \in Paying => txn[t].status \in OpenStatus \cup {"paid"})
    BY <1>0, <1>9 DEF PayFit
  <2>2. Kind[t] = "approve" => lock[o] = t
    BY <1>0, <1>9 DEF Holds, Payer
  <2>3. u # o
    <3> SUFFICES ASSUME u = o PROVE FALSE
      OBVIOUS
    <3>1. lock[o] = s
      BY CommitTable
    <3>2. Kind[t] # "approve"
      BY <2>2, <3>1
    <3>3. table.status[o] = "settled"
      BY <1>6, <1>7, <1>9, <3>2
    <3>4. txn[t].status = "settled"
      BY <2>1, <3>3 DEF StillTrue
    <3> QED
      BY <1>9, <2>1, <3>4 DEF FinalStatus, OpenStatus
  <2>4. CASE table'.status[o] = table.status[o]
    BY <1>1, <1>5, <2>1, <2>3, <2>4 DEF StillTrue
  <2>5. CASE table.status[o] \in OpenStatus /\ table'.status[o] = "failed" /\ lock[o] = s
    <3>1. Kind[t] # "approve"
      BY <2>2, <2>5
    <3>2. txn[t].status \in OpenStatus
      BY <2>1, <2>5 DEF StillTrue, OpenStatus
    <3> QED
      BY <1>1, <1>5, <2>3, <2>5, <3>1, <3>2 DEF StillTrue
  <2> QED
    BY <1>4, <2>3, <2>4, <2>5
<1>10. CASE Payer(t)
  <2>1. PayFit(t)'
    <3>1. txn[t].step = "check" /\ txn[t].status \notin FinalStatus => StillTrue(t)'
      BY <1>9, <1>10
    <3>2. txn[t].step \in Paying => StillTrue(t)' /\ RowsOf(o)' = RowsOf(o)
      BY <1>9, <1>10
    <3> QED
      BY <1>0, <1>1, <1>10, <3>1, <3>2 DEF PayFit
  <2> QED
    BY <1>3, <1>10, <2>1 DEF TurnFit
<1>11. CASE ~ Payer(t)
  <2>1. ASSUME table.status[o] = "settled"
        PROVE  table'.status[o] = "settled" /\ PlainRows(o)' = PlainRows(o)
    <3>1. u # o
      BY <1>6, <1>8, <1>11, <2>1 DEF Payer
    <3> QED
      BY <1>4, <1>5, <2>1, <3>1 DEF OpenStatus
  <2>2. RevokeFit(t)'
    BY <1>0, <1>1, <1>11, <2>1 DEF RevokeFit, Revoking
  <2> QED
    BY <1>3, <1>11, <2>2 DEF TurnFit
<1> QED
  BY <1>10, <1>11

LEMMA CommitTurn == ASSUME IInv, SInv, Serialised, NEW s \in Session, Commit(s) PROVE SInv'
<1>1. txn'[s].step = "done" /\ txn'[s].rows = {} /\ txn'[s].todo = {} /\ txn'[s].prefixed = {}
  BY SInvFacts DEF Commit, Ended, TypeOK
<1>2. TurnFit(s)'
  BY <1>1 DEF TurnFit, Holds, PayFit, RevokeFit, OneOfEach, Paying, Owing, Revoking
<1> QED
  BY <1>2, OthersCommit, LocksCommit, StatusCommit, GrantedCommit DEF SInv

LEMMA InitTurn == Init => SInv
<1> SUFFICES ASSUME Init PROVE SInv
  OBVIOUS
<1>0. IInv
  BY InitFit
<1>1. LocksFit
  <2>1. \A x \in Order \cup Student : lock[x] = NULL
    BY DEF Init, Lockable
  <2>2. \A s \in Session : s # NULL
    BY RaceAssumption
  <2> QED
    BY <2>1, <2>2 DEF LocksFit, Init
<1>2. ASSUME NEW s \in Session PROVE TurnFit(s)
  <2>1. txn[s].step = "begin" /\ txn[s].rows = {} /\ txn[s].todo = {} /\ txn[s].prefixed = {}
    BY DEF Init
  <2> QED
    BY <2>1 DEF TurnFit, Holds, PayFit, RevokeFit, OneOfEach, Paying, Owing, Revoking
<1>3. StatusFit
  <2>1. \A o \in Order : RowsOf(o) = {} /\ PlainRows(o) = {} /\ table.status[o] # "settled"
    BY RaceAssumption DEF Init, Opening, RowsOf, PlainRows
  <2> QED
    BY <2>1 DEF StatusFit, OneOfEach
<1>4. GrantedPerOrder
  <2> SUFFICES ASSUME NEW x \in Student
               PROVE  table.granted[x] = Cardinality(Purchased(x, table.status))
                                            - Cardinality(Purchased(x, OpeningStatus))
    BY DEF GrantedPerOrder, Purchased
  <2>1. table.granted[x] = 0 /\ table.status = OpeningStatus
    BY DEF Init, Opening
  <2>2. Cardinality(Purchased(x, OpeningStatus)) \in Nat
    BY PurchasedIsFinite
  <2> QED
    BY <2>1, <2>2
<1> QED
  BY <1>1, <1>2, <1>3, <1>4 DEF SInv

LEMMA StepKeepsTurns ==
    ASSUME IInv, SInv, Serialised, [Next]_vars
    PROVE  SInv'
<1>1. CASE UNCHANGED vars
  <2>1. UNCHANGED <<table, draft, ledger, lock, txn>>
    BY <1>1 DEF vars
  <2>2. LocksFit'
    BY <2>1 DEF SInv, LocksFit, HeldOrder, HeldStudent
  <2>3. ASSUME NEW s \in Session PROVE TurnFit(s)'
    <3>1. TurnFit(s)
      BY DEF SInv
    <3> QED
      BY <2>1, <3>1 DEF TurnFit, Holds, PayFit, RevokeFit, StillTrue, RowsOf, PlainRows
  <2>4. StatusFit' /\ GrantedPerOrder'
    BY <2>1 DEF SInv, StatusFit, GrantedPerOrder, RowsOf, PlainRows
  <2> QED
    BY <2>2, <2>3, <2>4 DEF SInv
<1>2. ASSUME NEW s \in Session, Begin(s) \/ Statement(s) \/ Victim(s)
      PROVE  SInv'
  <2>1. CASE Begin(s)
    BY <2>1, BeginTurn
  <2>2. CASE Victim(s)
    BY <2>2, RollbackTurn DEF Victim
  <2>3. CASE LockOrder(s)
    BY <2>3, LockOrderTurn
  <2>4. CASE Read(s)
    BY <2>4, ReadTurn
  <2>5. CASE Check(s)
    BY <2>5, CheckTurn
  <2>6. CASE Raise(s)
    BY <2>6, RollbackTurn DEF Raise
  <2>7. CASE Entitle(s)
    BY <2>7, EntitleTurn
  <2>8. CASE ReadOwed(s)
    BY <2>8, ReadOwedTurn
  <2>9. CASE PostAwards(s)
    BY <2>9, PostAwardsTurn
  <2>10. CASE Convert(s)
    BY <2>10, ConvertTurn
  <2>11. CASE Settle(s)
    BY <2>11, SettleTurn
  <2>12. CASE FailOther(s)
    BY <2>12, FailOtherTurn
  <2>13. CASE FailedAll(s)
    BY <2>13, FailedAllTurn
  <2>14. CASE Fetch(s)
    BY <2>14, FetchTurn
  <2>15. CASE Undo(s)
    BY <2>15, UndoTurn
  <2>16. CASE UndoneAll(s)
    BY <2>16, UndoneAllTurn
  <2>17. CASE Prefix(s)
    BY <2>17, PrefixTurn
  <2>18. CASE Withdraw(s)
    BY <2>18, WithdrawTurn
  <2>19. CASE Close(s)
    BY <2>19, CloseTurn
  <2>20. CASE Commit(s)
    BY <2>20, CommitTurn
  <2> QED
    BY <1>2, <2>1, <2>2, <2>3, <2>4, <2>5, <2>6, <2>7, <2>8, <2>9, <2>10, <2>11, <2>12, <2>13,
       <2>14, <2>15, <2>16, <2>17, <2>18, <2>19, <2>20 DEF Statement
<1> QED
  BY <1>1, <1>2 DEF Next

LEMMA AlwaysInTurn == ASSUME Serialised PROVE Spec => [](IInv /\ SInv)
<1>1. Init => IInv /\ SInv
  BY InitFit, InitTurn
<1>2. IInv /\ SInv /\ [Next]_vars => (IInv /\ SInv)'
  BY StepKeepsBalance, StepKeepsTurns
<1> QED
  BY <1>1, <1>2, PTL DEF Spec

\* While an order that is paid without being locked first is paid by one session only,
\* and an order is revoked by one, the entitlement of a student is extended once for
\* every order that comes to be paid for and taken back once for every one revoked.
THEOREM GrantsMatchOrders == ASSUME Serialised PROVE Spec => []GrantedPerOrder
<1>1. IInv /\ SInv => GrantedPerOrder
  BY DEF SInv
<1> QED
  BY <1>1, AlwaysInTurn, PTL

\* And no order is distributed twice, which the sessions that read an order's status
\* and its rows without a lock do not prevent among themselves.
THEOREM SerialisedDistributeOnce == ASSUME Serialised PROVE Spec => []DistributedOnce
<1>1. ASSUME IInv, SInv PROVE DistributedOnce
  <2> SUFFICES ASSUME NEW r1 \in ledger, NEW r2 \in ledger, r1.orderid = r2.orderid,
                      r1.accountid = r2.accountid, r1.source = r2.source,
                      r1.mark = "plain", r2.mark = "plain"
               PROVE  r1 = r2
    BY DEF DistributedOnce
  <2>1. r1.orderid \in Order
    BY <1>1 DEF IInv, TypeOK, Row
  <2>2. r1 \in PlainRows(r1.orderid) /\ r2 \in PlainRows(r1.orderid)
    BY DEF PlainRows
  <2>3. OneOfEach(PlainRows(r1.orderid))
    BY <1>1, <2>1 DEF SInv, StatusFit
  <2> QED
    BY <2>2, <2>3 DEF OneOfEach
<1> QED
  BY <1>1, AlwaysInTurn, PTL

-----------------------------------------------------------------------------
(* The book of awards.                                                     *)

Live == [o \in Order |-> PlainRows(o)]
Closed == {o \in Order : \E r \in ledger : r.orderid = o /\ r.mark # "plain"}

LEMMA CommitInBook ==
    ASSUME IInv, SInv, NEW s \in Session, Commit(s)
    PROVE  Book!Next
<1> DEFINE o == OrderOf[s]
<1>0. o \in Order /\ TypeOK
  BY SInvFacts
<1>1. \A x \in Order : x \in Closed <=> \E r \in RowsOf(x) : r.mark # "plain"
  BY DEF Closed, RowsOf
<1>2. \A x \in Order : x \in Closed' <=> \E r \in RowsOf(x)' : r.mark # "plain"
  BY DEF Closed, RowsOf
<1>3. \A x \in Order \ {o} : RowsOf(x)' = RowsOf(x) /\ PlainRows(x)' = PlainRows(x)
  BY CommitRows
<1>4. Closed \subseteq Order /\ Closed' \subseteq Order
  BY DEF Closed
<1>5. Live' = [Live EXCEPT ![o] = PlainRows(o)'] /\ Live'[o] = PlainRows(o)' /\ Live[o] = PlainRows(o)
  BY <1>0, <1>3 DEF Live
<1>6. CASE Payer(s)
  <2>1. /\ RowsOf(o)' = txn[s].rows /\ PlainRows(o)' = txn[s].rows
        /\ RowsOf(o) = {} /\ txn[s].rows \subseteq Row
    BY <1>6, CommitRows
  <2>2. Live[o] = {} /\ o \notin Closed /\ Live'[o] \subseteq Row
    BY <1>0, <1>1, <1>5, <2>1 DEF RowsOf, PlainRows
  <2>3. \A r \in RowsOf(o)' : r.mark = "plain"
    BY <1>6, <2>1, SInvFacts DEF RowsFit, Payer
  <2>4. Closed' = Closed
    BY <1>1, <1>2, <1>3, <1>4, <2>2, <2>3
  <2>5. Book!Distribute(o)
    BY <1>5, <2>2, <2>4 DEF Book!Distribute, Live, Closed
  <2> QED
    BY <1>0, <2>5 DEF Book!Next
<1>7. CASE ~ Payer(s)
  <2>1. PlainRows(o)' = {} /\ PlainRows(o) # {} /\ \E r \in RowsOf(o)' : r.mark # "plain"
    BY <1>7, CommitRows
  <2>2. Closed' = Closed \cup {o}
    BY <1>0, <1>1, <1>2, <1>3, <1>4, <2>1
  <2>3. Book!TakeBack(o)
    BY <1>5, <2>1, <2>2 DEF Book!TakeBack, Live, Closed
  <2> QED
    BY <1>0, <2>3 DEF Book!Next
<1> QED
  BY <1>6, <1>7

LEMMA StepInBook ==
    ASSUME IInv, SInv, [Next]_vars
    PROVE  [Book!Next]_(Book!bookVars)
<1>1. ASSUME ledger' = ledger PROVE UNCHANGED Book!bookVars
  BY <1>1 DEF Book!bookVars, PlainRows
<1>2. CASE UNCHANGED vars
  BY <1>1, <1>2 DEF vars
<1>3. ASSUME NEW s \in Session, Begin(s) \/ Statement(s) \/ Victim(s)
      PROVE  [Book!Next]_(Book!bookVars)
  <2>1. CASE Commit(s)
    BY <2>1, CommitInBook
  <2>2. CASE ~ Commit(s)
    <3>1. ledger' = ledger
      BY <1>3, <2>2 DEF Begin, Statement, Victim, LockOrder, Read, Check, Raise, Rollback, Entitle,
                        ReadOwed, PostAwards, Convert, Post, Settle, FailOther, FailedAll, Fetch,
                        Undo, UndoneAll, Prefix, Withdraw, Close
    <3> QED
      BY <1>1, <3>1
  <2> QED
    BY <2>1, <2>2
<1> QED
  BY <1>2, <1>3 DEF Next

\* Seen from what is committed, the sessions take the steps of the book one after the
\* other: the awards of an order are handed out at once and once, and taken back at once
\* and for good, whatever other sessions do in between.
THEOREM SessionsKeepTheBook == ASSUME Serialised PROVE Spec => ImplementsBook
<1>1. Init => Book!Init
  BY DEF Init, Book!Init, PlainRows
<1>2. IInv /\ SInv /\ [Next]_vars => [Book!Next]_(Book!bookVars)
  BY StepInBook
<1> QED
  BY <1>1, <1>2, AlwaysInTurn, PTL DEF Spec, ImplementsBook, Book!Spec

-----------------------------------------------------------------------------
(* The purchase limit.                                                     *)

\* A session changes neither what others remember nor what they hold.
LEMMA OnlyOwn ==
    ASSUME TypeOK, NEW s \in Session, Begin(s) \/ Statement(s) \/ Victim(s), NEW t \in Session, t # s
    PROVE  /\ txn'[t] = txn[t]
           /\ \A x \in Order \cup Student : lock[x] = t => lock'[x] = t
<1>0. /\ txn \in [Session -> Transaction] /\ lock \in [Lockable -> Session \cup {NULL}]
      /\ t # NULL /\ \A x \in Order \cup Student : x \in Lockable
  BY RowsAreRows DEF TypeOK, Lockable
<1>1. ASSUME NEW y \in Lockable, Acquire(s, y), NEW x \in Order \cup Student, lock[x] = t PROVE lock'[x] = t
  BY <1>0, <1>1 DEF Acquire
<1>2. ASSUME lock' = Released(s), NEW x \in Order \cup Student, lock[x] = t PROVE lock'[x] = t
  BY <1>0, <1>2 DEF Released
<1>3. ASSUME NEW step, txn' = Ended(s, step) PROVE txn'[t] = txn[t]
  BY <1>0, <1>3 DEF Ended
<1>4. ASSUME NEW step, Go(s, step) PROVE txn'[t] = txn[t]
  BY <1>0, <1>4 DEF Go
<1>5. ASSUME NEW R, txn' = NextRow(s, R) PROVE txn'[t] = txn[t]
  BY <1>0, <1>5 DEF NextRow
<1>6. /\ OrderOf[s] \in Lockable /\ StudentOf[OrderOf[s]] \in Lockable /\ CouponAgent[OrderOf[s]] \in Lockable
      /\ Crowded(s) \subseteq Lockable /\ \A r \in txn[s].todo : r.accountid \in Lockable
  BY RowsAreRows DEF Lockable, Crowded, Siblings, Row
<1>7. CASE Commit(s) \/ Rollback(s)
  <2>1. lock' = Released(s) /\ \E step : txn' = Ended(s, step)
    BY <1>7 DEF Commit, Rollback
  <2> QED
    BY <1>2, <1>3, <2>1
<1>8. CASE Begin(s)
  BY <1>4, <1>8 DEF Begin
<1>9. CASE LockOrder(s)
  BY <1>1, <1>4, <1>6, <1>9 DEF LockOrder
<1>10. CASE Read(s) \/ Check(s) \/ ReadOwed(s) \/ Fetch(s) \/ Prefix(s)
  BY <1>0, <1>10 DEF Read, Check, ReadOwed, Fetch, Prefix
<1>11. CASE Entitle(s) \/ Withdraw(s)
  BY <1>1, <1>4, <1>6, <1>11 DEF Entitle, Withdraw
<1>12. CASE Settle(s) \/ Close(s)
  <2>1. Acquire(s, OrderOf[s]) /\ \E step : Go(s, step)
    BY <1>12, Zenon DEF Settle, Close
  <2> QED
    BY <1>1, <1>4, <1>6, <2>1
<1>13. CASE FailOther(s)
  BY <1>1, <1>6, <1>13 DEF FailOther
<1>14. CASE FailedAll(s) \/ UndoneAll(s)
  BY <1>4, <1>14 DEF FailedAll, UndoneAll
<1>15. CASE Undo(s)
  <2>1. PICK r \in txn[s].todo : Acquire(s, r.accountid)
    BY <1>15 DEF Undo, Post
  <2>2. txn'[t] = txn[t]
    BY <1>0, <1>15 DEF Undo
  <2> QED
    BY <1>1, <1>6, <2>1, <2>2
<1>16. CASE Convert(s)
  BY <1>1, <1>5, <1>6, <1>16 DEF Convert, Post
<1>17. CASE PostAwards(s)
  <2>1. PICK R : txn' = [txn EXCEPT ![s].step = "convert", ![s].rows = txn[s].rows \cup R] \/ txn' = NextRow(s, R)
    BY <1>17 DEF PostAwards
  <2>2. txn'[t] = txn[t]
    BY <1>0, <1>5, <2>1
  <2> DEFINE y == Payee(OrderOf[s], txn[s].n)
  <2>3. Acquire(s, y)
    BY <1>17 DEF PostAwards, Post
  <2> HIDE DEF y
  <2> QED
    BY <1>0, <2>2, <2>3 DEF Acquire
<1> QED
  BY <1>7, <1>8, <1>9, <1>10, <1>11, <1>12, <1>13, <1>14, <1>15, <1>16, <1>17
     DEF Statement, Victim, Raise

\* Only a commit changes the tables.
LEMMA TablesWait ==
    ASSUME NEW s \in Session, Begin(s) \/ Statement(s) \/ Victim(s), ~ Commit(s)
    PROVE  table' = table
BY DEF Begin, Statement, Victim, LockOrder, Read, Check, Raise, Rollback, Entitle,
       ReadOwed, PostAwards, Convert, Post, Settle, FailOther, FailedAll, Fetch,
       Undo, UndoneAll, Prefix, Withdraw, Close

\* The step that leads to the commit of a payment counts the orders that are bought.
LEMMA CountsBought ==
    ASSUME IInv, SInv, LInv, LocksFirst, NEW s \in Session, Settle(s) \/ FailedAll(s)
    PROVE  TurnLeavesRoom(s)'
<1> DEFINE o == OrderOf[s]
<1>0. TypeOK /\ o \in Order /\ StudentOf[o] \in Student /\ s # NULL
  BY SInvFacts
<1>1. table' = table
  BY TablesWait DEF Statement, Settle, Commit, FailedAll
<1>2. CASE FailedAll(s)
  <2>1. Crowded(s) = {} /\ lock' = lock
    BY <1>2 DEF FailedAll
  <2>2. \A x \in Siblings(o) : lock[x] = s \/ table.status[x] \notin OpenStatus
    BY <2>1 DEF Crowded, VisibleStatus, Version
  <2> QED
    BY <1>1, <2>1, <2>2 DEF TurnLeavesRoom
<1>3. CASE Settle(s)
  <2> DEFINE bought == {x \in Siblings(o) : VisibleStatus(s, x) \in PurchasedStatus} \cup {o}
             reached == PurchaseLimit # NULL /\ PurchaseLimit > 0 /\ PurchaseLimit <= Cardinality(bought)
             step == IF draft.status[o] \in OpenStatus /\ reached THEN "crowd" ELSE "commit"
  <2>1. At(s, "settle") /\ Go(s, step)
    BY <1>3, Zenon DEF Settle
  <2>2. Payer(s) /\ Kind[s] = "approve" /\ PayFit(s) /\ Holds(s)
    BY <2>1, SInvFacts DEF StepFit, At, Payer, LocksFirst
  <2>3. lock[o] = s /\ draft.status[o] = table.status[o] /\ table.status[o] = txn[s].status
    <3>1. lock[o] = s
      BY <2>1, <2>2 DEF Holds, Paying, Owing, At
    <3>2. draft.status[o] = table.status[o]
      BY <1>0, <2>1, <2>2, <3>1, SInvFacts DEF HeldOrder, At
    <3> QED
      BY <2>1, <2>2, <3>1, <3>2 DEF PayFit, StillTrue, Paying, Owing, At
  <2>4. \A x \in Siblings(o) : x \in Order /\ x # o /\ lock[x] # s
    BY <2>1, SInvFacts DEF HeldOrder, At, Siblings
  <2>5. bought = Bought(s)
    BY <2>4 DEF Bought, VisibleStatus, Version
  <2> HIDE DEF bought
  <2>6. txn'[s].step = step /\ txn'[s].status = txn[s].status
    BY <1>0, <2>1, GoShape DEF Step
  <2>7. ASSUME txn[s].status \in OpenStatus, PurchaseLimit # NULL, step = "commit"
        PROVE  Cardinality(Bought(s)) < PurchaseLimit
    <3>1. PurchaseLimit \in Nat
      BY <2>7, RaceAssumption
    <3>2. Cardinality(Purchased(StudentOf[o], table.status)) < PurchaseLimit
      BY <1>0, <2>3, <2>7 DEF LInv, RoomIn
    <3>3. PurchaseLimit > 0
      BY <3>1, <3>2, PurchasedIsFinite
    <3>4. ~ reached
      BY <2>3, <2>7
    <3>5. ~ (PurchaseLimit <= Cardinality(bought))
      BY <2>7, <3>3, <3>4
    <3>6. Cardinality(bought) \in Nat
      <4>1. bought \subseteq Order
        BY <1>0, <2>4 DEF bought
      <4> QED
        BY <4>1, RaceAssumption, FS_Subset, FS_CardinalityType
    <3> QED
      BY <2>5, <3>1, <3>5, <3>6
  <2>8. Bought(s)' = Bought(s)
    BY <1>1 DEF Bought
  <2> HIDE DEF step
  <2> QED
    BY <2>6, <2>7, <2>8 DEF TurnLeavesRoom, At
<1> QED
  BY <1>2, <1>3

\* A commit leaves room where an order stays open.
LEMMA RoomAfterCommit ==
    ASSUME IInv, SInv, LInv, LocksFirst, NEW s \in Session, Commit(s)
    PROVE  RoomIn(table'.status)
<1> DEFINE o == OrderOf[s]
<1> SUFFICES ASSUME PurchaseLimit # NULL, NEW x \in Student
             PROVE  /\ Cardinality(Purchased(x, table'.status)) <= PurchaseLimit
                    /\ (\E y \in Order : StudentOf[y] = x /\ table'.status[y] \in OpenStatus) =>
                           Cardinality(Purchased(x, table'.status)) < PurchaseLimit
  BY DEF RoomIn
<1> DEFINE before == Purchased(x, table.status)
           after == Purchased(x, table'.status)
<1>0. /\ TypeOK /\ o \in Order /\ At(s, "commit") /\ PurchaseLimit \in Nat
      /\ PaidStatus(s) \notin OpenStatus
  BY SInvFacts, RaceAssumption DEF Commit, PaidStatus, OpenStatus
<1>1. IsFiniteSet(before) /\ Cardinality(before) \in Nat /\ Cardinality(after) \in Nat
  BY PurchasedIsFinite
<1>2. /\ Cardinality(before) <= PurchaseLimit
      /\ (\E y \in Order : StudentOf[y] = x /\ table.status[y] \in OpenStatus) =>
             Cardinality(before) < PurchaseLimit
  BY DEF LInv, RoomIn
\* An order that is open now was open before, and s did not hold it.
<1>3. \A y \in Order : table'.status[y] \in OpenStatus =>
         table.status[y] \in OpenStatus /\ lock[y] # s /\ y # o
  <2> SUFFICES ASSUME NEW y \in Order, table'.status[y] \in OpenStatus
               PROVE  table.status[y] \in OpenStatus /\ lock[y] # s /\ y # o
    OBVIOUS
  <2>1. y # o
    BY <1>0, CommitTable DEF OpenStatus
  <2>2. lock[y] # s
    BY <2>1, CommitTable DEF OpenStatus
  <2> QED
    BY <2>1, <2>2, CommitTable
<1>4. CASE after = before
  BY <1>2, <1>3, <1>4
<1>5. CASE x = StudentOf[o] /\ Payer(s) /\ txn[s].status \in OpenStatus
  <2>1. table.status[o] = txn[s].status
    BY <1>0, <1>5, PayerCommits DEF LocksFirst
  <2>2. Cardinality(before) < PurchaseLimit
    BY <1>0, <1>2, <1>5, <2>1
  <2>3. o \notin before /\ after = before \cup {o}
    BY <1>5, <2>1, PurchasedCommit DEF Purchased, OpenStatus, PurchasedStatus
  <2>4. Cardinality(after) = Cardinality(before) + 1
    <3> HIDE DEF before
    <3> QED
      BY <1>1, <2>3, FS_AddElement
  <2>5. ASSUME NEW y \in Order, StudentOf[y] = x, table'.status[y] \in OpenStatus
        PROVE  Cardinality(after) < PurchaseLimit
    <3>1. table.status[y] \in OpenStatus /\ lock[y] # s /\ y \in Siblings(o)
      BY <1>3, <1>5, <2>5 DEF Siblings
    <3>2. Cardinality(Bought(s)) < PurchaseLimit
      BY <1>0, <1>5, <3>1 DEF LInv, TurnLeavesRoom
    <3>3. Bought(s) = before \cup {o}
      BY <1>0, <1>5 DEF Bought, Purchased, Siblings
    <3> QED
      BY <2>3, <3>2, <3>3
  <2>6. Cardinality(after) <= PurchaseLimit
    <3> HIDE DEF before, after
    <3> QED
      BY <1>0, <1>1, <2>2, <2>4
  <2>7. (\E y \in Order : StudentOf[y] = x /\ table'.status[y] \in OpenStatus) =>
           Cardinality(after) < PurchaseLimit
    BY <2>5
  <2> QED
    BY ONLY <2>6, <2>7 DEF after
<1>6. CASE x = StudentOf[o] /\ Payer(s) /\ txn[s].status \notin OpenStatus
  <2>1. o \in before /\ after = before \cup {o}
    BY <1>0, <1>6, PayerCommits, PurchasedCommit DEF Purchased, PurchasedStatus
  <2> HIDE DEF before, after
  <2>2. after = before
    BY <2>1
  <2> QED
    BY <1>4, <2>2
<1>7. CASE x = StudentOf[o] /\ ~ Payer(s)
  <2>1. after = before \ {o}
    BY <1>7, PurchasedCommit
  <2>2. Cardinality(after) <= Cardinality(before)
    <3> HIDE DEF before, after
    <3>1. after \subseteq before
      BY <2>1
    <3> QED
      BY <1>1, <3>1, FS_Subset
  <2>3. (\E y \in Order : StudentOf[y] = x /\ table'.status[y] \in OpenStatus) =>
            \E y \in Order : StudentOf[y] = x /\ table.status[y] \in OpenStatus
    BY <1>3
  <2> HIDE DEF before, after
  <2> QED
    BY <1>0, <1>1, <1>2, <2>2, <2>3 DEF after
<1>8. CASE x # StudentOf[o]
  <2>1. after = before
    BY <1>8, PurchasedCommit
  <2> QED
    BY <1>4, <2>1
<1> QED
  BY <1>5, <1>6, <1>7, <1>8

\* Nobody else commits a purchase of a student whose entitlement a payment holds.
LEMMA RoomStays ==
    ASSUME IInv, SInv, LInv, LocksFirst, NEW s \in Session, Commit(s), NEW t \in Session, t # s
    PROVE  TurnLeavesRoom(t)'
<1> DEFINE o == OrderOf[t]
<1>0. TypeOK /\ o \in Order /\ OrderOf[s] \in Order /\ At(s, "commit") /\ StudentOf[o] \in Student
  BY SInvFacts DEF Commit
<1>1. txn'[t] = txn[t] /\ \A x \in Order \cup Student : lock[x] = t => lock'[x] = t
  BY <1>0, OnlyOwn DEF Statement
<1> SUFFICES ASSUME Payer(t), At(t, "commit"), txn[t].status \in OpenStatus, PurchaseLimit # NULL
             PROVE  \/ \A x \in Siblings(o) : lock'[x] = t \/ table'.status[x] \notin OpenStatus
                    \/ Cardinality(Bought(t)') < PurchaseLimit
  BY <1>1 DEF TurnLeavesRoom, At
<1>2. CASE \A x \in Siblings(o) : lock[x] = t \/ table.status[x] \notin OpenStatus
  <2>1. ASSUME NEW x \in Siblings(o) PROVE lock'[x] = t \/ table'.status[x] \notin OpenStatus
    <3>1. x \in Order
      BY DEF Siblings
    <3>2. CASE lock[x] = t
      BY <1>1, <3>1, <3>2
    <3>3. CASE table.status[x] \notin OpenStatus
      <4>1. \/ table'.status[x] = table.status[x]
            \/ table'.status[x] \in {"failed", "paid", "settled", "refunded"}
        BY <3>1, CommitTable DEF PaidStatus
      <4> QED
        BY <3>3, <4>1 DEF OpenStatus
    <3> QED
      BY <1>2, <3>2, <3>3
  <2> QED
    BY <2>1
<1>3. CASE Cardinality(Bought(t)) < PurchaseLimit
  <2>1. lock[StudentOf[o]] = t
    BY <1>0, PayerCommits
  <2>2. Purchased(StudentOf[o], table'.status) = Purchased(StudentOf[o], table.status)
    <3>1. CASE StudentOf[OrderOf[s]] # StudentOf[o]
      BY <1>0, <3>1, PurchasedCommit
    <3>2. CASE StudentOf[OrderOf[s]] = StudentOf[o]
      <4>1. Payer(s) /\ txn[s].status \notin OpenStatus
        <5>1. lock[StudentOf[OrderOf[s]]] # s
          BY <2>1, <3>2
        <5> QED
          BY <1>0, <5>1, PayerCommits, SInvFacts DEF Holds, At
      <4>2. OrderOf[s] \in Purchased(StudentOf[o], table.status)
        BY <1>0, <3>2, <4>1, PayerCommits DEF Purchased, PurchasedStatus
      <4>3. Purchased(StudentOf[o], table'.status) =
               Purchased(StudentOf[o], table.status) \cup {OrderOf[s]}
        BY <1>0, <3>2, <4>1, PurchasedCommit
      <4> QED
        BY ONLY <4>2, <4>3
    <3> QED
      BY <3>1, <3>2
  <2>3. \A x \in Order : StudentOf[x] = StudentOf[o] =>
           (table'.status[x] \in PurchasedStatus <=> table.status[x] \in PurchasedStatus)
    BY <2>2 DEF Purchased
  <2>4. Bought(t)' = Bought(t)
    BY <2>3 DEF Bought, Siblings
  <2> QED
    BY <1>3, <2>4
<1> QED
  BY <1>2, <1>3 DEF LInv, TurnLeavesRoom

LEMMA NextRowStep ==
    ASSUME TypeOK, NEW s \in Session, NEW R, txn' = NextRow(s, R)
    PROVE  txn'[s].step \in {"settle", "owed"}
<1> DEFINE above == Above(OrderOf[s], txn[s].n)
<1> HIDE DEF above
<1>1. txn' = [txn EXCEPT ![s].rows = @ \cup R,
                         ![s].step = IF above = {} THEN "settle" ELSE "owed",
                         ![s].n = IF above = {} THEN @ ELSE Min(above)]
  BY Zenon DEF NextRow, above
<1>2. txn \in [Session -> Transaction] /\ txn[s] \in Transaction
  BY DEF TypeOK
<1>3. txn'[s] = [txn[s] EXCEPT !.rows = @ \cup R,
                               !.step = IF above = {} THEN "settle" ELSE "owed",
                               !.n = IF above = {} THEN @ ELSE Min(above)]
  BY <1>1, <1>2
<1> QED
  BY <1>2, <1>3 DEF Transaction

\* No other step leads to a commit.
LEMMA LeadsToCommit ==
    ASSUME IInv, NEW s \in Session, Begin(s) \/ Statement(s) \/ Victim(s),
           ~ (Settle(s) \/ FailedAll(s) \/ Close(s) \/ Commit(s))
    PROVE  txn'[s].step # "commit"
<1>0. TypeOK /\ txn \in [Session -> Transaction] /\ txn[s] \in Transaction
  BY DEF IInv, TypeOK
<1>1. CASE Rollback(s)
  BY <1>0, <1>1 DEF Rollback, Ended
<1>2. CASE Begin(s) \/ LockOrder(s)
  <2>1. \E step \in {"lock", "read"} : Go(s, step)
    BY <1>2 DEF Begin, LockOrder, FirstStep
  <2> QED
    BY <1>0, <2>1 DEF Go
<1>3. CASE Read(s) \/ Fetch(s) \/ Prefix(s) \/ ReadOwed(s)
  <2>1. CASE Read(s)
    BY <1>0, <2>1 DEF Read
  <2>2. CASE Fetch(s)
    BY <1>0, <2>2 DEF Fetch
  <2>3. CASE Prefix(s)
    BY <1>0, <2>3 DEF Prefix
  <2>4. CASE ReadOwed(s)
    <3>1. PICK owed : txn' = [txn EXCEPT ![s].step = "post", ![s].owed = owed]
      BY <2>4, Zenon DEF ReadOwed
    <3> QED
      BY <1>0, <3>1
  <2> QED
    BY <1>3, <2>1, <2>2, <2>3, <2>4
<1>4. CASE Check(s)
  BY <1>0, <1>4 DEF Check
<1>5. CASE Entitle(s) \/ UndoneAll(s) \/ Withdraw(s)
  <2>1. \E step \in {"owed", "prefix", "close"} : Go(s, step)
    BY <1>5, Zenon DEF Entitle, UndoneAll, Withdraw
  <2> QED
    BY <1>0, <2>1 DEF Go
<1>6. CASE PostAwards(s)
  <2> DEFINE R == Awards(s, txn[s].n, txn[s].owed)
  <2>1. txn' = IF txn[s].n = 2 THEN [txn EXCEPT ![s].step = "convert", ![s].rows = @ \cup R]
               ELSE NextRow(s, R)
    BY <1>6, Zenon DEF PostAwards
  <2> QED
    BY <1>0, <2>1, NextRowStep
<1>7. CASE Convert(s)
  BY <1>0, <1>7, NextRowStep DEF Convert
<1>8. CASE FailOther(s)
  BY <1>8 DEF FailOther, At
<1>9. CASE Undo(s)
  <2>1. PICK r \in txn[s].todo :
           \E x : txn' = [txn EXCEPT ![s].todo = @ \ {r}, ![s].rows = @ \cup {x}]
    BY <1>9, Zenon DEF Undo
  <2> QED
    BY <1>0, <1>9, <2>1 DEF Undo, At
<1> QED
  BY <1>1, <1>2, <1>3, <1>4, <1>5, <1>6, <1>7, <1>8, <1>9 DEF Statement, Raise, Victim

LEMMA StepKeepsRoom ==
    ASSUME IInv, SInv, LInv, LocksFirst, [Next]_vars
    PROVE  LInv'
<1>1. CASE UNCHANGED vars
  <2>1. UNCHANGED <<table, draft, ledger, lock, txn>>
    BY <1>1 DEF vars
  <2>2. \A s \in Session : TurnLeavesRoom(s)'
    BY <2>1 DEF LInv, TurnLeavesRoom, Bought, At
  <2> QED
    BY <2>1, <2>2 DEF LInv
<1>2. ASSUME NEW s \in Session, Begin(s) \/ Statement(s) \/ Victim(s)
      PROVE  LInv'
  <2>0. TypeOK
    BY SInvFacts
  <2>1. CASE Commit(s)
    <3>1. RoomIn(table'.status)
      BY <2>1, RoomAfterCommit
    <3>2. \A t \in Session \ {s} : TurnLeavesRoom(t)'
      BY <2>1, RoomStays
    <3>3. txn'[s].step = "done"
      BY <2>0, <2>1 DEF Commit, Ended, TypeOK
    <3>4. TurnLeavesRoom(s)'
      BY <3>3 DEF TurnLeavesRoom, At
    <3> QED
      BY <3>1, <3>2, <3>4 DEF LInv
  <2>2. CASE ~ Commit(s)
    <3>1. table' = table
      BY <1>2, <2>2, TablesWait
    <3>2. RoomIn(table'.status)
      BY <3>1 DEF LInv
    <3>3. ASSUME NEW t \in Session, t # s PROVE TurnLeavesRoom(t)'
      <4>1. txn'[t] = txn[t] /\ \A x \in Order : lock[x] = t => lock'[x] = t
        BY <1>2, <2>0, <3>3, OnlyOwn
      <4>2. \A x \in Siblings(OrderOf[t]) : x \in Order
        BY DEF Siblings
      <4> QED
        BY <3>1, <4>1, <4>2 DEF LInv, TurnLeavesRoom, Bought, At
    <3>4. TurnLeavesRoom(s)'
      <4>1. CASE Settle(s) \/ FailedAll(s)
        BY <4>1, CountsBought
      <4>2. CASE Close(s)
        <5>1. ~ Payer(s)
          BY <4>2, SInvFacts DEF Close, StepFit, At, Payer
        <5> QED
          BY <5>1 DEF TurnLeavesRoom
      <4>3. CASE ~ (Settle(s) \/ FailedAll(s) \/ Close(s))
        <5>1. txn'[s].step # "commit"
          BY <1>2, <2>2, <4>3, LeadsToCommit
        <5> QED
          BY <5>1 DEF TurnLeavesRoom, At
      <4> QED
        BY <4>1, <4>2, <4>3
    <3> QED
      BY <3>2, <3>3, <3>4 DEF LInv
  <2> QED
    BY <2>1, <2>2
<1> QED
  BY <1>1, <1>2 DEF Next

LEMMA InitRoom == ASSUME RoomIn(OpeningStatus), Init PROVE LInv
<1>1. table.status = OpeningStatus
  BY DEF Init, Opening
<1>2. \A s \in Session : txn[s].step = "begin"
  BY DEF Init
<1> QED
  BY <1>1, <1>2 DEF LInv, TurnLeavesRoom, At

LEMMA AlwaysRoom ==
    ASSUME Serialised, LocksFirst, RoomIn(OpeningStatus)
    PROVE  Spec => [](IInv /\ SInv /\ LInv)
<1>1. Init => IInv /\ SInv /\ LInv
  BY InitFit, InitTurn, InitRoom
<1>2. IInv /\ SInv /\ LInv /\ [Next]_vars => (IInv /\ SInv /\ LInv)'
  BY StepKeepsBalance, StepKeepsTurns, StepKeepsRoom
<1> QED
  BY <1>1, <1>2, PTL DEF Spec

\* The limit of what a student may buy holds however payments interleave, when each
\* locks its order before it reads it, as an approval does, and the orders there were
\* in the beginning leave room.
THEOREM LimitHolds ==
    ASSUME Serialised, LocksFirst, RoomIn(OpeningStatus)
    PROVE  Spec => []WithinLimit
<1>1. LInv => WithinLimit
  BY DEF LInv, RoomIn, WithinLimit, Purchased
<1> QED
  BY <1>1, AlwaysRoom, PTL

\* What the trigger failed stays failed, also while a payment of it waits for its row.
LEMMA StepKeepsFailed ==
    ASSUME IInv, SInv, LocksFirst, [Next]_vars,
           NEW x \in Order, table.status[x] = "failed"
    PROVE  table'.status[x] = "failed"
<1>1. CASE UNCHANGED vars
  BY <1>1 DEF vars
<1>2. ASSUME NEW s \in Session, Begin(s) \/ Statement(s) \/ Victim(s)
      PROVE  table'.status[x] = "failed"
  <2>1. CASE ~ Commit(s)
    BY <1>2, <2>1, TablesWait
  <2>2. CASE Commit(s)
    <3>0. TypeOK /\ At(s, "commit") /\ OrderOf[s] \in Order
      BY <2>2, SInvFacts DEF Commit
    <3>1. CASE x # OrderOf[s]
      BY <2>2, <3>1, CommitTable
    <3>2. CASE x = OrderOf[s] /\ Payer(s)
      <4>1. table.status[x] = txn[s].status
        BY <3>0, <3>2, PayerCommits DEF LocksFirst
      <4>2. txn[s].status # "failed"
        BY <3>0, <3>2, SInvFacts DEF PayFit, At, Paying, Owing, OpenStatus
      <4> QED
        BY <4>1, <4>2
    <3>3. CASE x = OrderOf[s] /\ ~ Payer(s)
      <4>1. RevokeFit(s)
        BY <3>3, SInvFacts
      <4> QED
        BY <3>0, <3>3, <4>1 DEF RevokeFit, At, Revoking
    <3> QED
      BY <3>1, <3>2, <3>3
  <2> QED
    BY <2>1, <2>2
<1> QED
  BY <1>1, <1>2 DEF Next

THEOREM FailedStays ==
    ASSUME Serialised, LocksFirst
    PROVE  Spec => FailedStaysFailed
<1>1. IInv /\ SInv /\ [Next]_vars =>
         [\A o \in Order : table.status[o] = "failed" => table'.status[o] = "failed"]_vars
  BY StepKeepsFailed
<1> QED
  BY <1>1, AlwaysInTurn, PTL DEF Spec, FailedStaysFailed
=============================================================================
