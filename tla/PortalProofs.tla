----------------------------- MODULE PortalProofs -----------------------------
(***************************************************************************)
(* Who belongs to which account, and what a browser reaches, for every     *)
(* number of people, accounts, requests and orders.                        *)
(*                                                                         *)
(* The members: an account has its owner and its place in the tree, and    *)
(* who or what was read for by one request at a time has one home, its     *)
(* seats and the right upstream.  What a request has read stays true until *)
(* it commits, unless another one reads for the same user or account, and  *)
(* then the user or the account is in raced.                               *)
(*                                                                         *)
(* The portal lets the requests of module Members take place and adds      *)
(* nothing to them, so what is proved of Members holds below the pages;    *)
(* with it, a request acts as a member of the account it acts for, every   *)
(* order is attributed to who brought its student in, and the pages agree. *)
(***************************************************************************)
EXTENDS Portal, FiniteSetTheorems, WellFoundedInduction, TLAPS

USE MembersAssumption

PupilRole == {"STUDENT", "GUARDIAN_PRIMARY", "GUARDIAN_SUPPLEMENT"}

InFlight(r) == request[r] # None

-----------------------------------------------------------------------------
(* The parts of the invariant.                                             *)

\* The tree: the head quarter is its root, and every account comes with somebody.
Tree ==
    /\ account[HQ].kind = "HQ" /\ account[HQ].up = None /\ account[HQ].status = "ACTIVE"
    /\ \A a \in Accounts \ {HQ} : account[a].kind # "HQ"
    /\ Rooted

\* An agent account has one owner.
Owned ==
    \A a \in Agents : \E x \in roles :
        /\ x.account = a /\ x.role = "OWNER"
        /\ \A y \in roles : y.account = a /\ y.role = "OWNER" => y = x

\* A student account has a student or a primary guardian.
Founded == \A a \in Students : \E x \in roles :
    x.account = a /\ x.role \in {"STUDENT", "GUARDIAN_PRIMARY"}

\* What a request is about to insert, whatever other requests do: an account that is not
\* there and has its place in the tree, or a role in one that is there.
Shaped(i) ==
    /\ i \in Insert
    /\ IF i.opens
       THEN /\ i.account \notin Accounts
            /\ i.row.kind # "HQ"
            /\ i.row.up \in Agents /\ account[i.row.up].status = "ACTIVE"
            /\ i.role \in IF i.row.kind = "STUDENT" THEN {"STUDENT", "GUARDIAN_PRIMARY"} ELSE {"OWNER"}
       ELSE /\ i.account \in Accounts /\ i.row.kind = account[i.account].kind
            /\ i.role \in IF i.row.kind = "STUDENT" THEN PupilRole ELSE Rolename \ {"OWNER"}

\* No request opens an account another one is about.
Distinct ==
    \A r, q \in Request :
        r # q /\ InFlight(r) /\ InFlight(q) /\ request[r].opens => request[q].account # request[r].account

Shape == (\A r \in Request : InFlight(r) => Shaped(request[r])) /\ Distinct

\* What a request has read of its user.
HomeFree(i) ==
    IF i.row.kind = "STUDENT" THEN GetStudentAccountIdByUserId(i.user) = {}
                              ELSE GetAgentAccountIdByUserId(i.user) = {}

\* How its account will be linked with the user's other one.
Linked(i) ==
    IF i.row.kind = "STUDENT"
    THEN \A g \in GetAgentAccountIdByUserId(i.user) :
            i.opens /\ (i.row.up = account[g].up \/ (i.row.up = HQ /\ g = HQ))
    ELSE \A s \in GetStudentAccountIdByUserId(i.user) :
            \/ i.opens /\ account[s].up = i.row.up
            \/ ~ i.opens /\ account[s].up = i.account /\ i.role = "ADMIN"

\* One user's requests come one at a time, and what the last one read still holds.
Homes ==
    \A u \in User \ raced :
        /\ \A r, q \in Request :
              InFlight(r) /\ InFlight(q) /\ request[r].user = u /\ request[q].user = u => r = q
        /\ \A r \in Request : InFlight(r) /\ request[r].user = u => HomeFree(request[r]) /\ Linked(request[r])

\* What a request has read of a student account.
SeatFree(i) ==
    /\ i.role \in {"STUDENT", "GUARDIAN_PRIMARY"} => ~ RoleTaken(i.account, i.role)
    /\ MaxUserCount > 0 => Cardinality(MembersOf(i.account)) < MaxUserCount
    /\ Cardinality(MembersOf(i.account)) = 1 => i.role # "GUARDIAN_SUPPLEMENT"

\* The requests for one student account come one at a time, likewise.
Seats ==
    \A a \in Account \ raced :
        /\ \A r, q \in Request :
              /\ InFlight(r) /\ InFlight(q) /\ request[r].account = a /\ request[q].account = a
              /\ request[r].row.kind = "STUDENT"
              => r = q
        /\ \A r \in Request :
              InFlight(r) /\ request[r].account = a /\ request[r].row.kind = "STUDENT" => SeatFree(request[r])

IInv ==
    /\ TypeOK /\ IsFiniteSet(roles) /\ Tree /\ Owned /\ Founded /\ Shape /\ Homes /\ Seats
    /\ OneHome /\ SeatsKept /\ SameUpstream /\ CodesOfMembers

-----------------------------------------------------------------------------
LEMMA InitIInv == Init => IInv
<1> SUFFICES ASSUME Init PROVE IInv
  OBVIOUS
<1> DEFINE owner == [user |-> Founder, account |-> HQ, role |-> "OWNER"]
<1>1. /\ Accounts = {HQ} /\ Agents = {HQ} /\ Students = {}
      /\ account[HQ] = [kind |-> "HQ", up |-> None, status |-> "ACTIVE"]
  BY DEF Init, Accounts, Agents, Students
<1>2. /\ roles = {owner} /\ raced = {} /\ \A r \in Request : ~ InFlight(r)
      /\ codes = {[user |-> Founder, account |-> HQ, creates |-> k] : k \in {"AGENT", "STUDENT"}}
  BY DEF Init, InFlight
<1>3. TypeOK
  <2>1. request \in [Request -> Insert \cup {None}]
    BY DEF Init
  <2>2. owner \in [user : User, account : Accounts, role : Rolename]
    BY <1>1 DEF Rolename
  <2>3. codes \subseteq [user : User, account : Accounts, creates : {"AGENT", "STUDENT"}]
    BY <1>1, <1>2
  <2>4. account[HQ] \in AccountRow
    BY <1>1 DEF AccountRow, Roletype, Accountstatus
  <2> QED
    BY <1>1, <1>2, <2>1, <2>2, <2>3, <2>4 DEF TypeOK
<1>4. IsFiniteSet(roles)
  BY <1>2, FS_Singleton
<1>5. Tree /\ Owned /\ Founded
  BY <1>1, <1>2 DEF Tree, Rooted, Owned, Founded
<1>6. Shape /\ Homes /\ Seats
  BY <1>2 DEF Shape, Distinct, Homes, Seats
<1>7. OneHome /\ SeatsKept
  BY <1>1, <1>2 DEF OneHome, SeatsKept
<1>8. SameUpstream
  BY <1>1, <1>2 DEF SameUpstream, GetStudentAccountIdByUserId
<1>9. CodesOfMembers
  <2>1. HQ \in GetAgentAccountIdByUserId(Founder)
    <3>1. owner \in {y \in roles : y.user = Founder} /\ owner.account = HQ
      BY <1>2
    <3> HIDE DEF owner
    <3> QED
      BY <1>1, <3>1 DEF GetAgentAccountIdByUserId
  <2>2. \A c \in codes : c.account = HQ /\ c.user = Founder
    BY <1>2
  <2> QED
    BY <2>1, <2>2 DEF CodesOfMembers
<1> QED
  BY <1>3, <1>4, <1>5, <1>6, <1>7, <1>8, <1>9 DEF IInv

-----------------------------------------------------------------------------
(* A request reads.                                                        *)

\* What the requests in flight know does not depend on raced, and raced grows only.
LEMMA ReadIInv ==
    ASSUME IInv, NEW r \in Request, NEW i, Read(r, i), Shaped(i),
           i.user \notin raced => Linked(i),
           i.opens => \A q \in Request : InFlight(q) => request[q].account # i.account
    PROVE  IInv'
<1>1. /\ request[r] = None /\ request' = [request EXCEPT ![r] = i]
      /\ RoleFits(i.user, i.account, i.row.kind, i.role)
      /\ raced' = raced \cup {x \in {i.user, i.account} \ Agents :
                                \E p \in Pending : x \in {p.user, p.account}}
      /\ UNCHANGED <<account, roles, codes>>
  BY DEF Read
<1>2. request'[r] = i /\ \A q \in Request \ {r} : request'[q] = request[q]
  BY <1>1 DEF IInv, TypeOK
<1>3. i \in Insert /\ i.user \in User /\ i.account \in Account
  BY DEF Shaped, Insert
<1>4. \A q \in Request : InFlight(q) => request[q] \in Insert /\ request[q] \in Pending
  BY DEF IInv, Shape, Shaped, Pending, InFlight
<1>5. TypeOK'
  <2>1. request' \in [Request -> Insert \cup {None}]
    BY <1>1, <1>3 DEF IInv, TypeOK
  <2>2. raced' \subseteq User \cup Account
    BY <1>1, <1>3 DEF IInv, TypeOK
  <2> QED
    BY <1>1, <2>1, <2>2 DEF IInv, TypeOK, Accounts
<1>6. IsFiniteSet(roles)' /\ Tree' /\ Owned' /\ Founded'
  BY <1>1 DEF IInv, Tree, Rooted, Owned, Founded, Accounts, Agents, Students
<1>7. Shape'
  <2>1. \A q \in Request : InFlight(q)' => Shaped(request'[q])
    BY <1>2 DEF IInv, Shape, InFlight
  <2>2. \A j : Shaped(j)' <=> Shaped(j)
    BY <1>1 DEF Shaped, Accounts, Agents
  <2>3. \A q \in Request : InFlight(q)' => Shaped(request[q])'
    BY <2>1, <1>1 DEF Shaped, Accounts, Agents
  <2>4. \A q \in Request : InFlight(q) /\ request[q].opens => request[q].account # i.account
    <3> SUFFICES ASSUME NEW q \in Request, InFlight(q), request[q].opens PROVE request[q].account # i.account
      OBVIOUS
    <3>1. CASE i.opens
      BY <3>1
    <3>2. CASE ~ i.opens
      BY <3>2 DEF IInv, Shape, Shaped
    <3> QED
      BY <3>1, <3>2
  <2>5. Distinct'
    BY <1>1, <1>2, <2>4 DEF IInv, Shape, Distinct, InFlight
  <2> QED
    BY <2>3, <2>5 DEF Shape
<1>8. Homes'
  <2> SUFFICES ASSUME NEW u \in User, u \notin raced'
               PROVE  /\ \A p, q \in Request :
                            InFlight(p)' /\ InFlight(q)' /\ request'[p].user = u /\ request'[q].user = u => p = q
                      /\ \A q \in Request : InFlight(q)' /\ request'[q].user = u
                            => HomeFree(request[q])' /\ Linked(request[q])'
    BY DEF Homes
  <2>1. u \notin raced /\ u \notin Agents
    BY <1>1 DEF IInv, TypeOK, Agents
  <2>2. ASSUME NEW q \in Request \ {r}, InFlight(q), i.user = u PROVE request[q].user # u
    BY <1>1, <1>4, <2>1, <2>2
  <2>3. \A p, q \in Request :
            InFlight(p)' /\ InFlight(q)' /\ request'[p].user = u /\ request'[q].user = u => p = q
    BY <1>2, <2>1, <2>2 DEF IInv, Homes, InFlight
  <2>4. i.user = u => HomeFree(i)
    BY <1>1 DEF RoleFits, HomeFree
  <2>5. \A q \in Request : InFlight(q)' /\ request'[q].user = u => HomeFree(request'[q]) /\ Linked(request'[q])
    BY <1>2, <2>1, <2>4 DEF IInv, Homes, InFlight
  <2>6. \A q \in Request : HomeFree(request'[q]) /\ Linked(request'[q]) => HomeFree(request[q])' /\ Linked(request[q])'
    BY <1>1 DEF HomeFree, Linked, GetStudentAccountIdByUserId, GetAgentAccountIdByUserId, Students, Agents, Accounts
  <2> QED
    BY <2>3, <2>5, <2>6
<1>9. Seats'
  <2> SUFFICES ASSUME NEW a \in Account, a \notin raced'
               PROVE  /\ \A p, q \in Request :
                            /\ InFlight(p)' /\ InFlight(q)' /\ request'[p].account = a /\ request'[q].account = a
                            /\ request'[p].row.kind = "STUDENT"
                            => p = q
                      /\ \A q \in Request :
                            InFlight(q)' /\ request'[q].account = a /\ request'[q].row.kind = "STUDENT"
                              => SeatFree(request[q])'
    BY DEF Seats
  <2>1. a \notin raced
    BY <1>1
  <2>2. ASSUME NEW q \in Request \ {r}, InFlight(q), i.account = a, request[q].account = a
        PROVE  i.row.kind # "STUDENT" /\ request[q].row.kind # "STUDENT"
    <3>1. ~ i.opens /\ ~ request[q].opens
      BY <2>2 DEF IInv, Shape, Shaped
    <3>2. i.row.kind = account[a].kind /\ request[q].row.kind = account[a].kind /\ a \in Accounts
      BY <2>2, <3>1 DEF IInv, Shape, Shaped
    <3>3. a \in Agents
      BY <1>1, <1>4, <2>2
    <3> QED
      BY <3>2, <3>3 DEF Agents
  <2>3. \A p, q \in Request :
           /\ InFlight(p)' /\ InFlight(q)' /\ request'[p].account = a /\ request'[q].account = a
           /\ request'[p].row.kind = "STUDENT"
           => p = q
    BY <1>2, <2>1, <2>2 DEF IInv, Seats, InFlight
  <2>4. i.row.kind = "STUDENT" => SeatFree(i)
    BY <1>1 DEF RoleFits, SeatFree
  <2>5. \A q \in Request : InFlight(q)' /\ request'[q].account = a /\ request'[q].row.kind = "STUDENT"
           => SeatFree(request'[q])
    BY <1>2, <2>1, <2>4 DEF IInv, Seats, InFlight
  <2>6. \A q \in Request : SeatFree(request'[q]) => SeatFree(request[q])'
    BY <1>1 DEF SeatFree, RoleTaken, MembersOf
  <2> QED
    BY <2>3, <2>5, <2>6
<1>10. raced \subseteq raced' /\ UNCHANGED <<account, roles, codes>>
  BY <1>1
<1>11. OneHome' /\ CodesOfMembers'
  BY <1>10 DEF IInv, OneHome, CodesOfMembers, Registered, Agents, Accounts, GetAgentAccountIdByUserId
<1>12. SeatsKept'
  BY <1>10 DEF IInv, SeatsKept, Agents, Students, Accounts, MembersOf, RoleTaken
<1>13. SameUpstream'
  <2>1. \A u : /\ GetAgentAccountIdByUserId(u)' = GetAgentAccountIdByUserId(u)
              /\ GetStudentAccountIdByUserId(u)' = GetStudentAccountIdByUserId(u)
    BY <1>10 DEF Agents, Students, Accounts, GetAgentAccountIdByUserId, GetStudentAccountIdByUserId
  <2>2. Registered' = Registered
    BY <1>10 DEF Registered
  <2> SUFFICES ASSUME NEW u \in Registered' \ raced', NEW g \in GetAgentAccountIdByUserId(u)',
                      NEW s \in GetStudentAccountIdByUserId(u)'
               PROVE  \/ account[s].up = account[g].up
                      \/ account[s].up = g /\ [user |-> u, account |-> g, role |-> "ADMIN"] \in roles
                      \/ account[s].up = HQ /\ g = HQ
    BY <1>10, Zenon DEF SameUpstream
  <2>3. u \in Registered \ raced
    BY <1>10, <2>2
  <2>4. g \in GetAgentAccountIdByUserId(u) /\ s \in GetStudentAccountIdByUserId(u)
    BY <2>1
  <2> QED
    BY <2>3, <2>4 DEF IInv, SameUpstream
<1> QED
  BY <1>5, <1>6, <1>7, <1>8, <1>9, <1>11, <1>12, <1>13 DEF IInv

\* What the look-ups return.
LEMMA LookUps ==
    ASSUME NEW u
    PROVE  /\ \A a : a \in GetAgentAccountIdByUserId(u) <=>
                       a \in Agents /\ \E x \in roles : x.user = u /\ x.account = a
           /\ \A a : a \in GetStudentAccountIdByUserId(u) <=>
                       a \in Students /\ \E x \in roles : x.user = u /\ x.account = a
           /\ u \in Registered <=> \E x \in roles : x.user = u
BY DEF GetAgentAccountIdByUserId, GetStudentAccountIdByUserId, Registered

\* Nobody is a member of an account that is not there yet, and no request is about it.
LEMMA FreshAccount ==
    ASSUME IInv, NEW a \in Fresh
    PROVE  /\ a \in Account /\ a \notin Accounts
           /\ \A guardian \in BOOLEAN : StudentRole(a, guardian) \in {"STUDENT", "GUARDIAN_PRIMARY"}
           /\ \A q \in Request : InFlight(q) => request[q].account # a
<1>1. a \in Account /\ a \notin Accounts
  BY DEF Fresh
<1>2. ~ RoleTaken(a, "GUARDIAN_PRIMARY")
  BY <1>1 DEF IInv, TypeOK, RoleTaken, MembersOf
<1>3. \A guardian \in BOOLEAN : StudentRole(a, guardian) \in {"STUDENT", "GUARDIAN_PRIMARY"}
  BY <1>2 DEF StudentRole
<1>4. \A q \in Request : InFlight(q) => request[q].account # a
  BY DEF Fresh, Pending, InFlight
<1> QED
  BY <1>1, <1>3, <1>4

LEMMA RegisterByCodeIInv ==
    ASSUME IInv, NEW r \in Request, NEW u \in User, NEW c \in codes, NEW guardian \in BOOLEAN,
           RegisterByCode(r, u, c, guardian)
    PROVE  IInv'
<1>1. PICK a \in Fresh :
        Read(r, [user |-> u, account |-> a, opens |-> TRUE, registers |-> TRUE,
                 row |-> Opened(c.creates, c.account),
                 role |-> IF c.creates = "AGENT" THEN "OWNER" ELSE StudentRole(a, guardian)])
  BY DEF RegisterByCode
<1> DEFINE i == [user |-> u, account |-> a, opens |-> TRUE, registers |-> TRUE,
                 row |-> Opened(c.creates, c.account),
                 role |-> IF c.creates = "AGENT" THEN "OWNER" ELSE StudentRole(a, guardian)]
<1>2. c.creates \in {"AGENT", "STUDENT"} /\ c.account \in Agents
  BY LookUps DEF IInv, TypeOK, CodesOfMembers
<1>3. c.account \in Account /\ c.account # None /\ account[c.account].status = "ACTIVE"
  BY <1>2 DEF IInv, TypeOK, Agents, RegisterByCode, MayOpen
<1>4. /\ Opened(c.creates, c.account) \in AccountRow
      /\ Opened(c.creates, c.account).kind = c.creates /\ Opened(c.creates, c.account).up = c.account
  BY <1>2, <1>3 DEF Opened, AccountRow, Roletype, Accountstatus
<1>5. Shaped(i)
  BY <1>2, <1>3, <1>4, FreshAccount DEF Shaped, Insert, Rolename
<1>6. Linked(i)
  BY LookUps DEF Linked, RegisterByCode
<1> QED
  BY <1>1, <1>5, <1>6, FreshAccount, ReadIInv

LEMMA JoinAccountIInv ==
    ASSUME IInv, NEW r \in Request, NEW u \in User, NEW a \in Account, NEW guardian \in BOOLEAN,
           NEW role \in Rolename, JoinAccount(r, u, a, guardian, role)
    PROVE  IInv'
<1> DEFINE i == [user |-> u, account |-> a, opens |-> FALSE, registers |-> TRUE,
                 row |-> account[a], role |-> role]
<1>1. Read(r, i) /\ a \in Accounts /\ u \notin Registered
  BY DEF JoinAccount
<1>2. account[a] \in AccountRow /\ account[a].kind \in Roletype
  BY <1>1 DEF IInv, TypeOK, AccountRow
<1>3. role \in IF account[a].kind = "STUDENT" THEN PupilRole ELSE Rolename \ {"OWNER"}
  <2>1. CASE account[a].kind = "STUDENT"
    BY <1>1, <1>2, <2>1 DEF JoinAccount, Students, Agents, StudentRole, PupilRole
  <2>2. CASE account[a].kind # "STUDENT"
    <3>1. a \in Agents
      BY <1>1, <1>2, <2>2 DEF Agents, Roletype
    <3>2. RoleTaken(a, "OWNER")
      BY <3>1 DEF IInv, Owned, RoleTaken, MembersOf
    <3> QED
      BY <1>1, <2>2, <3>2 DEF Read, RoleFits
  <2> QED
    BY <2>1, <2>2
<1>4. Shaped(i)
  BY <1>1, <1>2, <1>3 DEF Shaped, Insert
<1>5. Linked(i)
  BY <1>1, LookUps DEF Linked
<1> QED
  BY <1>1, <1>4, <1>5, ReadIInv

\* A user nobody has raced for has one account of a kind.
LEMMA OneOfAKind ==
    ASSUME IInv, NEW u \in User \ raced
    PROVE  /\ \A a, b \in GetAgentAccountIdByUserId(u) : a = b
           /\ \A a, b \in GetStudentAccountIdByUserId(u) : a = b
BY LookUps DEF IInv, OneHome, Students

LEMMA StudentJoinAgentIInv ==
    ASSUME IInv, NEW r \in Request, NEW u \in User, NEW a \in Account, StudentJoinAgent(r, u, a)
    PROVE  IInv'
<1> DEFINE i == [user |-> u, account |-> a, opens |-> FALSE, registers |-> FALSE,
                 row |-> account[a], role |-> "ADMIN"]
<1>1. Read(r, i) /\ a \in Accounts /\ account[a].kind = "AGENT"
  BY DEF StudentJoinAgent
<1>2. account[a] \in AccountRow
  BY <1>1 DEF IInv, TypeOK
<1>3. Shaped(i)
  BY <1>1, <1>2 DEF Shaped, Insert, Rolename
<1>4. PICK t \in GetStudentAccountIdByUserId(u) : account[t].up = a
  BY DEF StudentJoinAgent
<1>5. u \notin raced => Linked(i)
  BY <1>1, <1>4, OneOfAKind DEF Linked
<1> QED
  BY <1>1, <1>3, <1>5, ReadIInv

LEMMA StudentToAgentIInv ==
    ASSUME IInv, NEW r \in Request, NEW u \in User, StudentToAgent(r, u)
    PROVE  IInv'
<1>1. PICK t \in GetStudentAccountIdByUserId(u), a \in Fresh :
        Read(r, [user |-> u, account |-> a, opens |-> TRUE, registers |-> FALSE,
                 row |-> Opened("AGENT", account[t].up), role |-> "OWNER"])
  BY DEF StudentToAgent
<1> DEFINE i == [user |-> u, account |-> a, opens |-> TRUE, registers |-> FALSE,
                 row |-> Opened("AGENT", account[t].up), role |-> "OWNER"]
<1>2. t \in Accounts \ {HQ}
  BY LookUps DEF IInv, Tree, Students, Agents
<1>3. account[t].up \in Agents /\ account[account[t].up].status = "ACTIVE" /\ account[t].up \in Account
  BY <1>2 DEF IInv, Tree, Rooted, TypeOK, Agents
<1>4. /\ Opened("AGENT", account[t].up) \in AccountRow
      /\ Opened("AGENT", account[t].up).kind = "AGENT" /\ Opened("AGENT", account[t].up).up = account[t].up
  BY <1>3 DEF Opened, AccountRow, Roletype, Accountstatus
<1>5. Shaped(i)
  BY <1>3, <1>4, FreshAccount DEF Shaped, Insert, Rolename
<1>6. u \notin raced => Linked(i)
  BY <1>4, OneOfAKind DEF Linked
<1> QED
  BY <1>1, <1>5, <1>6, FreshAccount, ReadIInv

LEMMA AgentToStudentIInv ==
    ASSUME IInv, NEW r \in Request, NEW u \in User, NEW guardian \in BOOLEAN, AgentToStudent(r, u, guardian)
    PROVE  IInv'
<1>1. PICK g \in GetAgentAccountIdByUserId(u), a \in Fresh :
        LET up == IF account[g].up = None THEN HQ ELSE account[g].up
        IN /\ MayOpen(up)
           /\ Read(r, [user |-> u, account |-> a, opens |-> TRUE, registers |-> FALSE,
                       row |-> Opened("STUDENT", up), role |-> StudentRole(a, guardian)])
  BY DEF AgentToStudent
<1> DEFINE up == IF account[g].up = None THEN HQ ELSE account[g].up
           i == [user |-> u, account |-> a, opens |-> TRUE, registers |-> FALSE,
                 row |-> Opened("STUDENT", up), role |-> StudentRole(a, guardian)]
<1>2. /\ up \in Agents /\ account[up].status = "ACTIVE" /\ up \in Account
      /\ up = account[g].up \/ (up = HQ /\ g = HQ)
  <2>1. g \in Accounts
    BY LookUps DEF Agents
  <2>2. CASE g = HQ
    BY <2>2 DEF IInv, Tree, TypeOK, Agents
  <2>3. CASE g # HQ
    <3>1. account[g].up \in Agents /\ account[account[g].up].status = "ACTIVE"
      BY <2>1, <2>3 DEF IInv, Tree, Rooted
    <3>2. account[g].up \in Account
      BY <3>1 DEF IInv, TypeOK, Agents
    <3> QED
      BY <3>1, <3>2
  <2> QED
    BY <2>2, <2>3
<1>3. Read(r, i)
  BY <1>1
<1> HIDE DEF up
<1>4. /\ Opened("STUDENT", up) \in AccountRow
      /\ Opened("STUDENT", up).kind = "STUDENT" /\ Opened("STUDENT", up).up = up
  BY <1>2 DEF Opened, AccountRow, Roletype, Accountstatus
<1>5. Shaped(i)
  BY <1>2, <1>4, FreshAccount DEF Shaped, Insert, Rolename
<1>6. u \notin raced => Linked(i)
  BY <1>2, <1>4, OneOfAKind DEF Linked
<1> QED
  BY <1>3, <1>5, <1>6, FreshAccount, ReadIInv

-----------------------------------------------------------------------------
(* A request commits.                                                      *)

\* The row of useraccountrole a request inserts.
RowOf(i) == [user |-> i.user, account |-> i.account, role |-> i.role]

\* What a commit does to the tables, said of one account and of one user.
LEMMA CommitTables ==
    ASSUME IInv, NEW r \in Request, Commit(r), NEW i, i = request[r]
    PROVE  /\ Shaped(i) /\ RowOf(i) \notin roles /\ roles' = roles \cup {RowOf(i)}
           /\ Accounts' = Accounts \cup {i.account}
           /\ \A a \in Accounts : account'[a] = account[a]
           /\ account'[i.account].kind = i.row.kind
           /\ i.opens => account'[i.account] = i.row
           /\ \A a \in Accounts : a \in Agents' <=> a \in Agents
           /\ \A a \in Accounts' \ Accounts : a = i.account /\ i.opens
           /\ i.account \in Agents' <=> i.row.kind # "STUDENT"
           /\ \A q \in Request : InFlight(q)' <=> InFlight(q) /\ q # r
           /\ \A q \in Request \ {r} : request'[q] = request[q]
           /\ codes' = codes \cup NewCodes(i) /\ raced' = raced
           /\ InFlight(r)
<1>1. /\ request[r] # None /\ RowOf(i) \notin roles /\ roles' = roles \cup {RowOf(i)}
      /\ account' = IF i.opens THEN [a \in Accounts \cup {i.account} |->
                                       IF a = i.account THEN i.row ELSE account[a]]
                    ELSE account
      /\ codes' = codes \cup NewCodes(i) /\ raced' = raced
      /\ request' = [request EXCEPT ![r] = None] /\ InFlight(r)
  BY DEF Commit, RowOf, InFlight
<1>2. Shaped(i)
  BY <1>1 DEF IInv, Shape, InFlight
<1>3. i.row \in AccountRow /\ i.row.kind \in Roletype
  BY <1>2 DEF Shaped, Insert, AccountRow
<1>4. \A q \in Request : (InFlight(q)' <=> InFlight(q) /\ q # r) /\ (q # r => request'[q] = request[q])
  BY <1>1 DEF IInv, TypeOK, InFlight
<1>5. i.opens => i.account \notin Accounts
  BY <1>2 DEF Shaped
<1>6. ~ i.opens => i.account \in Accounts /\ i.row.kind = account[i.account].kind
  BY <1>2 DEF Shaped
<1>7. Accounts' = Accounts \cup {i.account} /\ \A a \in Accounts : account'[a] = account[a]
  <2>1. CASE i.opens
    BY <1>1, <1>5, <2>1 DEF Accounts
  <2>2. CASE ~ i.opens
    BY <1>1, <1>6, <2>2 DEF Accounts
  <2> QED
    BY <2>1, <2>2
<1>8. (i.opens => account'[i.account] = i.row) /\ account'[i.account].kind = i.row.kind
  BY <1>1, <1>6
<1>9. \A a \in Accounts : a \in Agents' <=> a \in Agents
  BY <1>7 DEF Agents
<1>10. i.account \in Agents' <=> i.row.kind # "STUDENT"
  BY <1>3, <1>7, <1>8 DEF Agents, Roletype
<1>11. \A a \in Accounts' \ Accounts : a = i.account /\ i.opens
  BY <1>6, <1>7
<1> QED
  BY <1>1, <1>2, <1>4, <1>7, <1>8, <1>9, <1>10, <1>11

\* Who was no party to the commit has the accounts and members there were.
LEMMA CommitElsewhere ==
    ASSUME IInv, NEW r \in Request, Commit(r), NEW i, i = request[r]
    PROVE  /\ \A a : a # i.account => MembersOf(a)' = MembersOf(a)
           /\ MembersOf(i.account)' = MembersOf(i.account) \cup {RowOf(i)}
           /\ \A u : u # i.user =>
                 /\ GetAgentAccountIdByUserId(u)' = GetAgentAccountIdByUserId(u)
                 /\ GetStudentAccountIdByUserId(u)' = GetStudentAccountIdByUserId(u)
           /\ \A a : a \in GetAgentAccountIdByUserId(i.user)' <=>
                       a \in GetAgentAccountIdByUserId(i.user) \/ (a = i.account /\ i.row.kind # "STUDENT")
           /\ \A a : a \in GetStudentAccountIdByUserId(i.user)' <=>
                       a \in GetStudentAccountIdByUserId(i.user) \/ (a = i.account /\ i.row.kind = "STUDENT")
<1>1. /\ roles' = roles \cup {RowOf(i)} /\ Accounts' = Accounts \cup {i.account}
      /\ \A a \in Accounts : a \in Agents' <=> a \in Agents
      /\ i.account \in Agents' <=> i.row.kind # "STUDENT"
  BY CommitTables
<1>2. \A x \in roles : x.account \in Accounts
  BY DEF IInv, TypeOK
<1>3. RowOf(i).user = i.user /\ RowOf(i).account = i.account
  BY DEF RowOf
<1>4. /\ \A a : a # i.account => MembersOf(a)' = MembersOf(a)
      /\ MembersOf(i.account)' = MembersOf(i.account) \cup {RowOf(i)}
  BY <1>1, <1>3 DEF MembersOf
<1>5. ASSUME NEW u
      PROVE  /\ \A a : a \in GetAgentAccountIdByUserId(u)' <=>
                         a \in Agents' /\ \E x \in roles' : x.user = u /\ x.account = a
             /\ \A a : a \in GetStudentAccountIdByUserId(u)' <=>
                         a \in Students' /\ \E x \in roles' : x.user = u /\ x.account = a
  BY DEF GetAgentAccountIdByUserId, GetStudentAccountIdByUserId
<1>6. \A a \in Accounts : a \in Students' <=> a \in Students
  BY <1>1 DEF Students
<1>7. i.account \in Students' <=> i.row.kind = "STUDENT"
  BY <1>1 DEF Students
<1>8. Agents \subseteq Accounts /\ Students \subseteq Accounts
  BY DEF Agents, Students
<1>9. ASSUME NEW u, u # i.user, NEW a
      PROVE  /\ a \in GetAgentAccountIdByUserId(u)' <=> a \in GetAgentAccountIdByUserId(u)
             /\ a \in GetStudentAccountIdByUserId(u)' <=> a \in GetStudentAccountIdByUserId(u)
  <2>1. (\E x \in roles' : x.user = u /\ x.account = a) <=> (\E x \in roles : x.user = u /\ x.account = a)
    BY <1>1, <1>3, <1>9
  <2>2. (\E x \in roles : x.user = u /\ x.account = a) => a \in Accounts
    BY <1>2
  <2> QED
    BY <1>1, <1>5, <1>6, <1>8, <2>1, <2>2, LookUps
<1>10. ASSUME NEW a
       PROVE  /\ a \in GetAgentAccountIdByUserId(i.user)' <=>
                   a \in GetAgentAccountIdByUserId(i.user) \/ (a = i.account /\ i.row.kind # "STUDENT")
              /\ a \in GetStudentAccountIdByUserId(i.user)' <=>
                   a \in GetStudentAccountIdByUserId(i.user) \/ (a = i.account /\ i.row.kind = "STUDENT")
  <2>1. (\E x \in roles' : x.user = i.user /\ x.account = a)
          <=> (\E x \in roles : x.user = i.user /\ x.account = a) \/ a = i.account
    BY <1>1, <1>3
  <2>2. (\E x \in roles : x.user = i.user /\ x.account = a) => a \in Accounts
    BY <1>2
  <2>3. a \in GetAgentAccountIdByUserId(i.user) <=> a \in Agents /\ \E x \in roles : x.user = i.user /\ x.account = a
    BY LookUps
  <2>4. a \in GetStudentAccountIdByUserId(i.user) <=> a \in Students /\ \E x \in roles : x.user = i.user /\ x.account = a
    BY LookUps
  <2>5. /\ a \in GetAgentAccountIdByUserId(i.user)' <=>
             a \in Agents' /\ \E x \in roles' : x.user = i.user /\ x.account = a
        /\ a \in GetStudentAccountIdByUserId(i.user)' <=>
             a \in Students' /\ \E x \in roles' : x.user = i.user /\ x.account = a
    BY <1>5
  <2>6. CASE a = i.account
    <3>1. a \in GetAgentAccountIdByUserId(i.user) => a \in Agents'
      BY <1>1, <1>8, <2>3
    <3>2. a \in GetStudentAccountIdByUserId(i.user) => a \in Students'
      BY <1>6, <1>8, <2>4
    <3> QED
      BY <1>1, <1>7, <2>1, <2>5, <2>6, <3>1, <3>2
  <2>7. CASE a # i.account
    BY <1>1, <1>6, <1>8, <2>1, <2>2, <2>3, <2>4, <2>5, <2>7
  <2> QED
    BY <2>6, <2>7
<1>11. \A u : u # i.user =>
           /\ GetAgentAccountIdByUserId(u)' = GetAgentAccountIdByUserId(u)
           /\ GetStudentAccountIdByUserId(u)' = GetStudentAccountIdByUserId(u)
  <2> SUFFICES ASSUME NEW u, u # i.user
               PROVE  /\ GetAgentAccountIdByUserId(u)' = GetAgentAccountIdByUserId(u)
                      /\ GetStudentAccountIdByUserId(u)' = GetStudentAccountIdByUserId(u)
    OBVIOUS
  <2> QED
    BY <1>9
<1> QED
  BY <1>4, <1>10, <1>11

LEMMA CommitTypeOK ==
    ASSUME IInv, NEW r \in Request, Commit(r)
    PROVE  TypeOK' /\ IsFiniteSet(roles)'
<1> PICK i : i = request[r]
  OBVIOUS
<1> DEFINE A == Accounts'
<1>1. /\ Shaped(i) /\ roles' = roles \cup {RowOf(i)} /\ A = Accounts \cup {i.account}
      /\ \A a \in Accounts : account'[a] = account[a]
      /\ i.opens => account'[i.account] = i.row
      /\ \A a \in A \ Accounts : a = i.account /\ i.opens
      /\ codes' = codes \cup NewCodes(i) /\ raced' = raced
  BY CommitTables
<1>2. /\ i.user \in User /\ i.account \in Account /\ i.role \in Rolename /\ i.row \in AccountRow
  BY <1>1 DEF Shaped, Insert
<1>3. A \subseteq Account /\ HQ \in A
  BY <1>1, <1>2 DEF IInv, TypeOK
<1>4. \A a \in A : account'[a] \in AccountRow
  BY <1>1, <1>2 DEF IInv, TypeOK
<1>5. roles' \subseteq [user : User, account : A, role : Rolename]
  <2>1. RowOf(i) \in [user : User, account : A, role : Rolename]
    BY <1>1, <1>2 DEF RowOf
  <2>2. roles \subseteq [user : User, account : A, role : Rolename]
    BY <1>1 DEF IInv, TypeOK
  <2> QED
    BY <1>1, <2>1, <2>2
<1>6. codes' \subseteq [user : User, account : A, creates : {"AGENT", "STUDENT"}]
  <2>1. NewCodes(i) \subseteq [user : User, account : A, creates : {"AGENT", "STUDENT"}]
    BY <1>1, <1>2 DEF NewCodes
  <2>2. codes \subseteq [user : User, account : A, creates : {"AGENT", "STUDENT"}]
    BY <1>1 DEF IInv, TypeOK
  <2> QED
    BY <1>1, <2>1, <2>2
<1>7. request' \in [Request -> Insert \cup {None}]
  BY DEF IInv, TypeOK, Commit
<1>8. TypeOK'
  BY <1>1, <1>3, <1>4, <1>5, <1>6, <1>7 DEF IInv, TypeOK
<1>9. IsFiniteSet(roles')
  BY <1>1, FS_AddElement DEF IInv
<1> QED
  BY <1>8, <1>9

LEMMA CommitTree ==
    ASSUME IInv, NEW r \in Request, Commit(r)
    PROVE  Tree' /\ Owned' /\ Founded'
<1> PICK i : i = request[r]
  OBVIOUS
<1>1. /\ Shaped(i) /\ roles' = roles \cup {RowOf(i)} /\ Accounts' = Accounts \cup {i.account}
      /\ \A a \in Accounts : account'[a] = account[a]
      /\ i.opens => account'[i.account] = i.row
      /\ \A a \in Accounts : a \in Agents' <=> a \in Agents
      /\ \A a \in Accounts' \ Accounts : a = i.account /\ i.opens
      /\ i.account \in Agents' <=> i.row.kind # "STUDENT"
  BY CommitTables
<1>2. Agents \subseteq Accounts /\ Agents' \subseteq Accounts' /\ Students' = Accounts' \ Agents' /\ Students = Accounts \ Agents
  BY DEF Agents, Students
<1>3. RowOf(i).account = i.account /\ RowOf(i).role = i.role
  BY DEF RowOf
<1>4. HQ \in Accounts /\ \A x \in roles : x.account \in Accounts
  BY DEF IInv, TypeOK
<1>5. Tree'
  <2>1. account'[HQ].kind = "HQ" /\ account'[HQ].up = None /\ account'[HQ].status = "ACTIVE"
    BY <1>1, <1>4 DEF IInv, Tree
  <2> SUFFICES ASSUME NEW a \in Accounts' \ {HQ}
               PROVE  /\ account'[a].kind # "HQ"
                      /\ account'[a].up \in Agents' /\ account'[account'[a].up].status = "ACTIVE"
    BY <2>1 DEF Tree, Rooted
  <2>2. CASE a \in Accounts
    <3>1. account[a].kind # "HQ" /\ account[a].up \in Agents /\ account[account[a].up].status = "ACTIVE"
      BY <2>2 DEF IInv, Tree, Rooted
    <3> QED
      BY <1>1, <1>2, <2>2, <3>1
  <2>3. CASE a \notin Accounts
    <3>1. a = i.account /\ i.opens /\ account'[a] = i.row
      BY <1>1, <2>3
    <3>2. i.row.kind # "HQ" /\ i.row.up \in Agents /\ account[i.row.up].status = "ACTIVE"
      BY <1>1, <3>1 DEF Shaped
    <3> QED
      BY <1>1, <1>2, <3>1, <3>2
  <2> QED
    BY <2>2, <2>3
<1>6. Owned'
  <2> SUFFICES ASSUME NEW a \in Agents'
               PROVE  \E x \in roles' :
                         /\ x.account = a /\ x.role = "OWNER"
                         /\ \A y \in roles' : y.account = a /\ y.role = "OWNER" => y = x
    BY DEF Owned
  <2>1. CASE a \in Accounts
    <3>1. PICK x \in roles :
            /\ x.account = a /\ x.role = "OWNER"
            /\ \A y \in roles : y.account = a /\ y.role = "OWNER" => y = x
      BY <1>1, <2>1 DEF IInv, Owned
    <3>2. i.account = a => i.role # "OWNER"
      BY <1>1, <2>1 DEF Shaped
    <3> QED
      BY <1>1, <1>3, <3>1, <3>2
  <2>2. CASE a \notin Accounts
    <3>1. a = i.account /\ i.opens /\ i.row.kind # "STUDENT"
      BY <1>1, <1>2, <2>2
    <3>2. i.role = "OWNER"
      BY <1>1, <3>1 DEF Shaped
    <3> QED
      BY <1>1, <1>3, <1>4, <2>2, <3>1, <3>2
  <2> QED
    BY <2>1, <2>2
<1>7. Founded'
  <2> SUFFICES ASSUME NEW a \in Students'
               PROVE  \E x \in roles' : x.account = a /\ x.role \in {"STUDENT", "GUARDIAN_PRIMARY"}
    BY DEF Founded
  <2>1. CASE a \in Accounts
    BY <1>1, <1>2, <2>1 DEF IInv, Founded
  <2>2. CASE a \notin Accounts
    <3>1. a = i.account /\ i.opens /\ i.row.kind = "STUDENT"
      BY <1>1, <1>2, <2>2
    <3>2. i.role \in {"STUDENT", "GUARDIAN_PRIMARY"}
      BY <1>1, <3>1 DEF Shaped
    <3> QED
      BY <1>1, <1>3, <3>1, <3>2
  <2> QED
    BY <2>1, <2>2
<1> QED
  BY <1>5, <1>6, <1>7

LEMMA CommitShape ==
    ASSUME IInv, NEW r \in Request, Commit(r)
    PROVE  Shape'
<1> PICK i : i = request[r]
  OBVIOUS
<1>1. /\ Accounts' = Accounts \cup {i.account}
      /\ \A a \in Accounts : account'[a] = account[a]
      /\ \A a \in Accounts : a \in Agents' <=> a \in Agents
      /\ \A q \in Request : InFlight(q)' <=> InFlight(q) /\ q # r
      /\ \A q \in Request \ {r} : request'[q] = request[q]
      /\ InFlight(r)
  BY CommitTables
<1>2. Agents \subseteq Accounts
  BY DEF Agents
<1>3. ASSUME NEW q \in Request, InFlight(q)' PROVE Shaped(request[q])'
  <2> PICK j : j = request'[q]
    OBVIOUS
  <2>1. InFlight(q) /\ q # r /\ j = request[q] /\ Shaped(j)
    BY <1>1, <1>3 DEF IInv, Shape
  <2>2. j.opens => j.account # i.account
    BY <1>1, <2>1 DEF IInv, Shape, Distinct
  <2>3. CASE j.opens
    <3>1. j.account \notin Accounts'
      BY <1>1, <2>1, <2>2, <2>3 DEF Shaped
    <3>2. j.row.up \in Agents' /\ account'[j.row.up].status = "ACTIVE"
      BY <1>1, <1>2, <2>1, <2>3 DEF Shaped
    <3> QED
      BY <2>1, <2>3, <3>1, <3>2 DEF Shaped
  <2>4. CASE ~ j.opens
    BY <1>1, <2>1, <2>4 DEF Shaped
  <2> QED
    BY <2>3, <2>4
<1>4. Distinct'
  BY <1>1 DEF IInv, Shape, Distinct
<1> QED
  BY <1>3, <1>4 DEF Shape

LEMMA CommitHomes ==
    ASSUME IInv, NEW r \in Request, Commit(r)
    PROVE  Homes'
<1> PICK i : i = request[r]
  OBVIOUS
<1>1. /\ Accounts' = Accounts \cup {i.account} /\ raced' = raced /\ InFlight(r)
      /\ \A a \in Accounts : account'[a] = account[a]
      /\ \A q \in Request : InFlight(q)' <=> InFlight(q) /\ q # r
      /\ \A q \in Request \ {r} : request'[q] = request[q]
  BY CommitTables
<1> SUFFICES ASSUME NEW u \in User \ raced
             PROVE  /\ \A p, q \in Request :
                          InFlight(p)' /\ InFlight(q)' /\ request'[p].user = u /\ request'[q].user = u => p = q
                    /\ \A q \in Request : InFlight(q)' /\ request'[q].user = u
                          => HomeFree(request[q])' /\ Linked(request[q])'
  BY <1>1 DEF Homes
<1>2. \A p, q \in Request :
          InFlight(p)' /\ InFlight(q)' /\ request'[p].user = u /\ request'[q].user = u => p = q
  BY <1>1 DEF IInv, Homes
<1>3. ASSUME NEW q \in Request, InFlight(q)', request'[q].user = u
      PROVE  HomeFree(request[q])' /\ Linked(request[q])'
  <2> PICK j : j = request'[q]
    OBVIOUS
  <2>1. InFlight(q) /\ q # r /\ j = request[q] /\ j.user = u
    BY <1>1, <1>3
  <2>2. u # i.user
    BY <1>1, <2>1 DEF IInv, Homes
  <2>3. HomeFree(j) /\ Linked(j)
    BY <2>1 DEF IInv, Homes
  <2>4. /\ GetAgentAccountIdByUserId(u)' = GetAgentAccountIdByUserId(u)
        /\ GetStudentAccountIdByUserId(u)' = GetStudentAccountIdByUserId(u)
    BY <2>2, CommitElsewhere
  <2>5. /\ \A a \in GetAgentAccountIdByUserId(u) : account'[a] = account[a]
        /\ \A a \in GetStudentAccountIdByUserId(u) : account'[a] = account[a]
    BY <1>1, LookUps DEF Agents, Students
  <2>6. HomeFree(j)'
    BY <2>1, <2>3, <2>4 DEF HomeFree
  <2>7. Linked(j)'
    BY <2>1, <2>3, <2>4, <2>5 DEF Linked
  <2> QED
    BY <2>6, <2>7
<1> QED
  BY <1>2, <1>3

LEMMA CommitSeats ==
    ASSUME IInv, NEW r \in Request, Commit(r)
    PROVE  Seats'
<1> PICK i : i = request[r]
  OBVIOUS
<1>1. /\ raced' = raced /\ InFlight(r) /\ Shaped(i)
      /\ \A q \in Request : InFlight(q)' <=> InFlight(q) /\ q # r
      /\ \A q \in Request \ {r} : request'[q] = request[q]
  BY CommitTables
<1> SUFFICES ASSUME NEW a \in Account \ raced
             PROVE  /\ \A p, q \in Request :
                          /\ InFlight(p)' /\ InFlight(q)' /\ request'[p].account = a /\ request'[q].account = a
                          /\ request'[p].row.kind = "STUDENT"
                          => p = q
                    /\ \A q \in Request :
                          InFlight(q)' /\ request'[q].account = a /\ request'[q].row.kind = "STUDENT"
                            => SeatFree(request[q])'
  BY <1>1 DEF Seats
<1>2. \A p, q \in Request :
          /\ InFlight(p)' /\ InFlight(q)' /\ request'[p].account = a /\ request'[q].account = a
          /\ request'[p].row.kind = "STUDENT"
          => p = q
  BY <1>1 DEF IInv, Seats
<1>3. ASSUME NEW q \in Request, InFlight(q)', request'[q].account = a, request'[q].row.kind = "STUDENT"
      PROVE  SeatFree(request[q])'
  <2> PICK j : j = request'[q]
    OBVIOUS
  <2>1. InFlight(q) /\ q # r /\ j = request[q] /\ j.account = a /\ j.row.kind = "STUDENT"
    BY <1>1, <1>3
  <2>2. a # i.account
    BY <1>1, <2>1 DEF IInv, Seats
  <2>3. SeatFree(j)
    BY <2>1 DEF IInv, Seats
  <2>4. MembersOf(a)' = MembersOf(a)
    BY <2>2, CommitElsewhere
  <2>5. SeatFree(j)'
    BY <2>1, <2>3, <2>4 DEF SeatFree, RoleTaken
  <2> QED
    BY <2>5
<1> QED
  BY <1>2, <1>3

LEMMA CommitOneHome ==
    ASSUME IInv, NEW r \in Request, Commit(r)
    PROVE  OneHome'
<1> PICK i : i = request[r]
  OBVIOUS
<1>1. /\ Shaped(i) /\ roles' = roles \cup {RowOf(i)} /\ raced' = raced /\ InFlight(r)
      /\ \A a \in Accounts : a \in Agents' <=> a \in Agents
      /\ i.account \in Agents' <=> i.row.kind # "STUDENT"
  BY CommitTables
<1>2. RowOf(i).user = i.user /\ RowOf(i).account = i.account
  BY DEF RowOf
<1>3. \A x \in roles : x.account \in Accounts /\ x.user \in User
  BY DEF IInv, TypeOK
<1> SUFFICES ASSUME NEW u, u \notin raced, NEW x \in roles', NEW y \in roles', x.user = u, y.user = u,
                    x.account \in Agents' <=> y.account \in Agents'
             PROVE  x = y
  BY <1>1 DEF OneHome
<1>4. ASSUME NEW z \in roles, z.user = i.user, i.user \notin raced
      PROVE  ~ (z.account \in Agents <=> i.row.kind # "STUDENT")
  <2>1. HomeFree(i)
    BY <1>1, <1>3, <1>4 DEF IInv, Homes, Shaped, Insert
  <2>2. CASE i.row.kind = "STUDENT"
    BY <1>3, <1>4, <2>1, <2>2, LookUps DEF HomeFree, Students
  <2>3. CASE i.row.kind # "STUDENT"
    BY <1>3, <1>4, <2>1, <2>3, LookUps DEF HomeFree
  <2> QED
    BY <2>2, <2>3
<1>5. CASE x \in roles /\ y \in roles
  <2>1. u \in Registered \ raced
    BY <1>5, LookUps
  <2> QED
    BY <1>1, <1>3, <1>5, <2>1 DEF IInv, OneHome
<1>6. CASE x \notin roles /\ y \in roles
  BY <1>1, <1>2, <1>3, <1>4, <1>6
<1>7. CASE x \in roles /\ y \notin roles
  BY <1>1, <1>2, <1>3, <1>4, <1>7
<1>8. CASE x \notin roles /\ y \notin roles
  BY <1>1, <1>8
<1> QED
  BY <1>5, <1>6, <1>7, <1>8

LEMMA CommitSeatsKept ==
    ASSUME IInv, NEW r \in Request, Commit(r)
    PROVE  SeatsKept'
<1> PICK i : i = request[r]
  OBVIOUS
<1>1. /\ Shaped(i) /\ RowOf(i) \notin roles /\ raced' = raced /\ InFlight(r)
      /\ \A a \in Accounts : a \in Agents' <=> a \in Agents
      /\ \A a \in Accounts' \ Accounts : a = i.account /\ i.opens
      /\ i.account \in Agents' <=> i.row.kind # "STUDENT"
  BY CommitTables
<1>2. RowOf(i).role = i.role /\ RowOf(i).account = i.account
  BY DEF RowOf
<1>3. /\ \A a : a # i.account => MembersOf(a)' = MembersOf(a)
      /\ MembersOf(i.account)' = MembersOf(i.account) \cup {RowOf(i)}
  BY CommitElsewhere
<1> SUFFICES ASSUME NEW a \in Students', a \notin raced
             PROVE  /\ MaxUserCount > 0 => Cardinality(MembersOf(a)') <= MaxUserCount
                    /\ \A x, y \in MembersOf(a)' :
                          x # y => ~(x.role = y.role /\ x.role \in {"STUDENT", "GUARDIAN_PRIMARY"})
                    /\ Cardinality(MembersOf(a)') >= 2 => \E x \in MembersOf(a)' : x.role = "STUDENT"
  BY <1>1 DEF SeatsKept, RoleTaken
<1>4. a \in Accounts => a \in Students
  BY <1>1 DEF Students
<1>5. a \in Accounts =>
        /\ MaxUserCount > 0 => Cardinality(MembersOf(a)) <= MaxUserCount
        /\ \A x, y \in MembersOf(a) :
              x # y => ~(x.role = y.role /\ x.role \in {"STUDENT", "GUARDIAN_PRIMARY"})
        /\ Cardinality(MembersOf(a)) >= 2 => \E x \in MembersOf(a) : x.role = "STUDENT"
  BY <1>4 DEF IInv, SeatsKept, RoleTaken
<1>6. CASE a # i.account
  BY <1>1, <1>3, <1>5, <1>6 DEF Students
<1>7. CASE a = i.account
  <2>1. i.row.kind = "STUDENT" /\ a \in Account
    BY <1>1, <1>7 DEF Students, Shaped, Insert
  <2>2. SeatFree(i)
    BY <1>1, <1>7, <2>1 DEF IInv, Seats
  <2>3. IsFiniteSet(MembersOf(a)) /\ RowOf(i) \notin MembersOf(a)
    <3>1. MembersOf(a) \subseteq roles
      BY DEF MembersOf
    <3> QED
      BY <1>1, <3>1, FS_Subset DEF IInv
  <2>4. /\ Cardinality(MembersOf(a)') = Cardinality(MembersOf(a)) + 1
        /\ Cardinality(MembersOf(a)) \in Nat
    BY <1>3, <1>7, <2>3, FS_AddElement, FS_CardinalityType
  <2>5. MaxUserCount > 0 => Cardinality(MembersOf(a)') <= MaxUserCount
    BY <1>7, <2>2, <2>4 DEF SeatFree
  <2>6. \A x \in MembersOf(a) : x.role = i.role => i.role \notin {"STUDENT", "GUARDIAN_PRIMARY"}
    BY <1>7, <2>2 DEF SeatFree, RoleTaken
  <2>7. \A x, y \in MembersOf(a) :
            x # y => ~(x.role = y.role /\ x.role \in {"STUDENT", "GUARDIAN_PRIMARY"})
    <3>1. CASE a \in Accounts
      BY <1>5, <3>1
    <3>2. CASE a \notin Accounts
      BY <3>2 DEF IInv, TypeOK, MembersOf
    <3> QED
      BY <3>1, <3>2
  <2>8. \A x, y \in MembersOf(a)' :
            x # y => ~(x.role = y.role /\ x.role \in {"STUDENT", "GUARDIAN_PRIMARY"})
    BY <1>2, <1>3, <1>7, <2>6, <2>7
  <2>9. ASSUME Cardinality(MembersOf(a)') >= 2 PROVE \E x \in MembersOf(a)' : x.role = "STUDENT"
    <3>1. Cardinality(MembersOf(a)) >= 1
      BY <2>4, <2>9
    <3>2. a \in Accounts
      <4>1. MembersOf(a) # {}
        BY <3>1, FS_EmptySet
      <4> QED
        BY <4>1 DEF IInv, TypeOK, MembersOf
    <3>3. CASE Cardinality(MembersOf(a)) >= 2
      BY <1>3, <1>5, <1>7, <3>2, <3>3
    <3>4. CASE Cardinality(MembersOf(a)) = 1
      <4>1. i.role # "GUARDIAN_SUPPLEMENT"
        BY <1>7, <2>2, <3>4 DEF SeatFree
      <4>2. i.role \in {"STUDENT", "GUARDIAN_PRIMARY"}
        <5>1. ~ i.opens
          BY <1>1, <1>7, <3>2 DEF Shaped
        <5> QED
          BY <1>1, <2>1, <4>1, <5>1 DEF Shaped, PupilRole
      <4>3. PICK x \in MembersOf(a) : x.role \in {"STUDENT", "GUARDIAN_PRIMARY"}
        BY <1>4, <3>2 DEF IInv, Founded, MembersOf
      <4>4. x.role # i.role
        BY <2>6, <4>2
      <4> QED
        BY <1>2, <1>3, <1>7, <4>2, <4>3, <4>4
    <3> QED
      BY <2>4, <3>1, <3>3, <3>4
  <2> QED
    BY <2>5, <2>8, <2>9
<1> QED
  BY <1>6, <1>7

LEMMA CommitLinks ==
    ASSUME IInv, NEW r \in Request, Commit(r)
    PROVE  SameUpstream' /\ CodesOfMembers'
<1> PICK i : i = request[r]
  OBVIOUS
<1>1. /\ Shaped(i) /\ roles' = roles \cup {RowOf(i)} /\ raced' = raced /\ InFlight(r)
      /\ \A a \in Accounts : account'[a] = account[a]
      /\ i.opens => account'[i.account] = i.row
      /\ codes' = codes \cup NewCodes(i)
  BY CommitTables
<1>2. /\ \A u : u # i.user =>
            /\ GetAgentAccountIdByUserId(u)' = GetAgentAccountIdByUserId(u)
            /\ GetStudentAccountIdByUserId(u)' = GetStudentAccountIdByUserId(u)
      /\ \A a : a \in GetAgentAccountIdByUserId(i.user)' <=>
                  a \in GetAgentAccountIdByUserId(i.user) \/ (a = i.account /\ i.row.kind # "STUDENT")
      /\ \A a : a \in GetStudentAccountIdByUserId(i.user)' <=>
                  a \in GetStudentAccountIdByUserId(i.user) \/ (a = i.account /\ i.row.kind = "STUDENT")
  BY CommitElsewhere
<1>3. \A u : GetAgentAccountIdByUserId(u) \subseteq Accounts /\ GetStudentAccountIdByUserId(u) \subseteq Accounts
  BY LookUps DEF Agents, Students
<1>4. SameUpstream'
  <2> SUFFICES ASSUME NEW u, u \notin raced,
                      NEW g, g \in GetAgentAccountIdByUserId(u)',
                      NEW s, s \in GetStudentAccountIdByUserId(u)'
               PROVE  \/ account'[s].up = account'[g].up
                      \/ account'[s].up = g /\ [user |-> u, account |-> g, role |-> "ADMIN"] \in roles'
                      \/ account'[s].up = HQ /\ g = HQ
    BY <1>1, Zenon DEF SameUpstream
  <2>1. CASE g \in GetAgentAccountIdByUserId(u) /\ s \in GetStudentAccountIdByUserId(u)
    <3>1. u \in Registered \ raced
      BY <2>1, LookUps
    <3>2. \/ account[s].up = account[g].up
          \/ account[s].up = g /\ [user |-> u, account |-> g, role |-> "ADMIN"] \in roles
          \/ account[s].up = HQ /\ g = HQ
      BY <2>1, <3>1 DEF IInv, SameUpstream
    <3>3. account'[s] = account[s] /\ account'[g] = account[g]
      BY <1>1, <1>3, <2>1
    <3> QED
      BY <1>1, <3>2, <3>3
  <2>2. CASE ~ (g \in GetAgentAccountIdByUserId(u) /\ s \in GetStudentAccountIdByUserId(u))
    <3>1. u = i.user
      BY <1>2, <2>2
    <3>2. HomeFree(i) /\ Linked(i)
      BY <1>1, <3>1 DEF IInv, Homes, Shaped, Insert
    <3>3. CASE i.row.kind = "STUDENT"
      <4>1. s = i.account /\ g \in GetAgentAccountIdByUserId(u)
        BY <1>2, <3>1, <3>2, <3>3 DEF HomeFree
      <4>2. i.opens /\ (i.row.up = account[g].up \/ (i.row.up = HQ /\ g = HQ))
        BY <3>1, <3>2, <3>3, <4>1 DEF Linked
      <4>3. account'[s] = i.row /\ account'[g] = account[g]
        BY <1>1, <1>3, <4>1, <4>2
      <4> QED
        BY <4>2, <4>3
    <3>4. CASE i.row.kind # "STUDENT"
      <4>1. g = i.account /\ s \in GetStudentAccountIdByUserId(u)
        BY <1>2, <3>1, <3>2, <3>4 DEF HomeFree
      <4>2. \/ i.opens /\ account[s].up = i.row.up
            \/ ~ i.opens /\ account[s].up = i.account /\ i.role = "ADMIN"
        BY <3>1, <3>2, <3>4, <4>1 DEF Linked
      <4>3. account'[s] = account[s]
        BY <1>1, <1>3, <4>1
      <4>4. i.role = "ADMIN" => [user |-> u, account |-> g, role |-> "ADMIN"] \in roles'
        BY <1>1, <3>1, <4>1 DEF RowOf
      <4> QED
        BY <1>1, <4>1, <4>2, <4>3, <4>4
    <3> QED
      BY <3>3, <3>4
  <2> QED
    BY <2>1, <2>2
<1>5. CodesOfMembers'
  <2> SUFFICES ASSUME NEW c \in codes' PROVE c.account \in GetAgentAccountIdByUserId(c.user)'
    BY Zenon DEF CodesOfMembers
  <2>1. CASE c \in codes
    <3>1. c.account \in GetAgentAccountIdByUserId(c.user)
      BY <2>1 DEF IInv, CodesOfMembers
    <3>2. CASE c.user = i.user
      BY <1>2, <3>1, <3>2
    <3>3. CASE c.user # i.user
      BY <1>2, <3>1, <3>3
    <3> QED
      BY <3>2, <3>3
  <2>2. CASE c \in NewCodes(i)
    <3>1. c.user = i.user /\ c.account = i.account /\ i.row.kind # "STUDENT"
      BY <2>2 DEF NewCodes
    <3>2. c.account \in GetAgentAccountIdByUserId(i.user)'
      BY <1>2, <3>1
    <3> QED
      BY <3>1, <3>2
  <2> QED
    BY <1>1, <2>1, <2>2
<1> QED
  BY <1>4, <1>5

LEMMA CommitIInv ==
    ASSUME IInv, NEW r \in Request, Commit(r)
    PROVE  IInv'
BY CommitTypeOK, CommitTree, CommitShape, CommitHomes, CommitSeats, CommitOneHome, CommitSeatsKept, CommitLinks
   DEF IInv

-----------------------------------------------------------------------------
(* The other steps.                                                        *)

\* Steps that leave the members, and the kind and the place of every account, alone.
LEMMA TablesKept ==
    ASSUME IInv, roles' = roles, Accounts' = Accounts, raced' = raced,
           \A a \in Accounts : account'[a].kind = account[a].kind /\ account'[a].up = account[a].up
    PROVE  /\ Agents' = Agents /\ Students' = Students /\ Registered' = Registered
           /\ \A a : MembersOf(a)' = MembersOf(a)
           /\ \A u : /\ GetAgentAccountIdByUserId(u)' = GetAgentAccountIdByUserId(u)
                     /\ GetStudentAccountIdByUserId(u)' = GetStudentAccountIdByUserId(u)
           /\ Owned' /\ Founded' /\ OneHome' /\ SeatsKept' /\ SameUpstream'
<1>1. Agents' = Agents /\ Students' = Students /\ Registered' = Registered
  BY DEF Agents, Students, Registered
<1>2. \A a : MembersOf(a)' = MembersOf(a)
  BY DEF MembersOf
<1>3. \A u : /\ GetAgentAccountIdByUserId(u)' = GetAgentAccountIdByUserId(u)
             /\ GetStudentAccountIdByUserId(u)' = GetStudentAccountIdByUserId(u)
  BY <1>1 DEF GetAgentAccountIdByUserId, GetStudentAccountIdByUserId
<1>4. Owned' /\ Founded' /\ OneHome' /\ SeatsKept'
  BY <1>1, <1>2 DEF IInv, Owned, Founded, OneHome, SeatsKept, RoleTaken
<1>5. SameUpstream'
  <2> SUFFICES ASSUME NEW u, u \in Registered' \ raced', NEW g, g \in GetAgentAccountIdByUserId(u)',
                      NEW s, s \in GetStudentAccountIdByUserId(u)'
               PROVE  \/ account'[s].up = account'[g].up
                      \/ account'[s].up = g /\ [user |-> u, account |-> g, role |-> "ADMIN"] \in roles'
                      \/ account'[s].up = HQ /\ g = HQ
    BY Zenon DEF SameUpstream
  <2>1. u \in Registered \ raced /\ g \in GetAgentAccountIdByUserId(u) /\ s \in GetStudentAccountIdByUserId(u)
    BY <1>1, <1>3
  <2>2. g \in Accounts /\ s \in Accounts
    BY <2>1, LookUps DEF Agents, Students
  <2> QED
    BY <2>1, <2>2 DEF IInv, SameUpstream
<1> QED
  BY <1>1, <1>2, <1>3, <1>4, <1>5

\* Requests that leave the tables as they are for what is in flight keep their claims.
LEMMA ClaimsKept ==
    ASSUME IInv, roles' = roles, Accounts' = Accounts, raced' = raced,
           \A a \in Accounts : /\ account'[a].kind = account[a].kind /\ account'[a].up = account[a].up
                               /\ account[a].status = "ACTIVE" => account'[a].status = "ACTIVE",
           \A q \in Request : InFlight(q)' => InFlight(q) /\ request'[q] = request[q]
    PROVE  Shape' /\ Homes' /\ Seats'
<1>1. /\ Agents' = Agents
      /\ \A a : MembersOf(a)' = MembersOf(a)
      /\ \A u : /\ GetAgentAccountIdByUserId(u)' = GetAgentAccountIdByUserId(u)
                /\ GetStudentAccountIdByUserId(u)' = GetStudentAccountIdByUserId(u)
  BY TablesKept
<1>2. /\ Agents \subseteq Accounts
      /\ \A u : GetAgentAccountIdByUserId(u) \subseteq Accounts /\ GetStudentAccountIdByUserId(u) \subseteq Accounts
  BY LookUps DEF Agents, Students
<1>3. ASSUME NEW j
      PROVE  /\ Shaped(j) => Shaped(j)'
             /\ HomeFree(j) => HomeFree(j)'
             /\ Linked(j) => Linked(j)'
             /\ SeatFree(j) => SeatFree(j)'
  <2>1. Shaped(j) => Shaped(j)'
    BY <1>1, <1>2 DEF Shaped
  <2>2. HomeFree(j) => HomeFree(j)'
    BY <1>1 DEF HomeFree
  <2>3. Linked(j) => Linked(j)'
    BY <1>1, <1>2 DEF Linked
  <2>4. SeatFree(j) => SeatFree(j)'
    BY <1>1 DEF SeatFree, RoleTaken
  <2> QED
    BY <2>1, <2>2, <2>3, <2>4
<1>4. ASSUME NEW q \in Request, InFlight(q)'
      PROVE  /\ Shaped(request[q]) => Shaped(request[q])'
             /\ HomeFree(request[q]) /\ Linked(request[q]) => HomeFree(request[q])' /\ Linked(request[q])'
             /\ SeatFree(request[q]) => SeatFree(request[q])'
  <2> PICK j : j = request'[q]
    OBVIOUS
  <2>1. j = request[q]
    BY <1>4
  <2> QED
    BY <1>3, <2>1
<1>5. Shape'
  BY <1>4 DEF IInv, Shape, Distinct
<1>6. Homes'
  BY <1>4 DEF IInv, Homes
<1>7. Seats'
  BY <1>4 DEF IInv, Seats
<1> QED
  BY <1>5, <1>6, <1>7

LEMMA RollbackIInv ==
    ASSUME IInv, NEW r \in Request, Rollback(r)
    PROVE  IInv'
<1>1. /\ request' = [request EXCEPT ![r] = None]
      /\ UNCHANGED account /\ UNCHANGED roles /\ UNCHANGED codes /\ UNCHANGED raced
  BY DEF Rollback
<1>2. Accounts' = Accounts
  BY <1>1 DEF Accounts
<1>3. \A q \in Request : InFlight(q)' => InFlight(q) /\ request'[q] = request[q]
  BY <1>1 DEF IInv, TypeOK, InFlight
<1>4. TypeOK'
  <2>1. request' \in [Request -> Insert \cup {None}]
    BY <1>1 DEF IInv, TypeOK
  <2> QED
    BY <1>1, <1>2, <2>1 DEF IInv, TypeOK
<1>5. Agents' = Agents /\ Owned' /\ Founded' /\ OneHome' /\ SeatsKept' /\ SameUpstream'
  BY <1>1, <1>2, TablesKept
<1>6. Shape' /\ Homes' /\ Seats'
  BY <1>1, <1>2, <1>3, ClaimsKept
<1>7. IsFiniteSet(roles)' /\ Tree'
  BY <1>1, <1>2, <1>5 DEF IInv, Tree, Rooted
<1>8. CodesOfMembers'
  BY <1>1, <1>2, TablesKept DEF IInv, CodesOfMembers
<1> QED
  BY <1>4, <1>5, <1>6, <1>7, <1>8 DEF IInv

LEMMA CompleteInvitationCodesIInv ==
    ASSUME IInv, NEW u \in User, CompleteInvitationCodes(u)
    PROVE  IInv'
<1>1. PICK a \in GetAgentAccountIdByUserId(u) :
        codes' = codes \cup {[user |-> u, account |-> a, creates |-> k] :
                   k \in {c \in {"AGENT", "STUDENT"} :
                            \A x \in codes : ~(x.user = u /\ x.creates = c)}}
  BY DEF CompleteInvitationCodes
<1>2. account' = account /\ roles' = roles /\ request' = request /\ raced' = raced /\ Accounts' = Accounts
  BY DEF CompleteInvitationCodes, Accounts
<1>3. \A c \in codes' : c \in codes \/ (/\ c \in [user : User, account : Accounts, creates : {"AGENT", "STUDENT"}]
                                        /\ c.user = u /\ c.account = a)
  BY <1>1, LookUps DEF Agents
<1>4. TypeOK'
  <2>1. codes' \subseteq [user : User, account : Accounts, creates : {"AGENT", "STUDENT"}]
    BY <1>3 DEF IInv, TypeOK
  <2> QED
    BY <1>2, <2>1 DEF IInv, TypeOK
<1>5. Agents' = Agents /\ Owned' /\ Founded' /\ OneHome' /\ SeatsKept' /\ SameUpstream'
  BY <1>2, TablesKept
<1>6. Shape' /\ Homes' /\ Seats'
  BY <1>2, ClaimsKept DEF InFlight
<1>7. IsFiniteSet(roles)' /\ Tree'
  BY <1>2, <1>5 DEF IInv, Tree, Rooted
<1>8. CodesOfMembers'
  <2>1. \A v : GetAgentAccountIdByUserId(v)' = GetAgentAccountIdByUserId(v)
    BY <1>2, TablesKept
  <2> QED
    BY <1>3, <2>1 DEF IInv, CodesOfMembers
<1> QED
  BY <1>4, <1>5, <1>6, <1>7, <1>8 DEF IInv

LEMMA SettleIInv ==
    ASSUME IInv, NEW a \in Account, Settle(a)
    PROVE  IInv'
<1>1. /\ a \in Accounts /\ account' = [account EXCEPT ![a].status = "ACTIVE"]
      /\ roles' = roles /\ codes' = codes /\ request' = request /\ raced' = raced
  BY DEF Settle
<1>2. Accounts' = Accounts
  BY <1>1 DEF Accounts
<1>3. /\ \A b \in Accounts : b # a => account'[b] = account[b]
      /\ account'[a] = [account[a] EXCEPT !.status = "ACTIVE"]
  BY <1>1 DEF Accounts
<1>4. account[a] \in AccountRow
  BY <1>1 DEF IInv, TypeOK
<1>5. /\ account'[a] \in AccountRow /\ account'[a].kind = account[a].kind
      /\ account'[a].up = account[a].up /\ account'[a].status = "ACTIVE"
  BY <1>3, <1>4 DEF AccountRow, Accountstatus
<1>6. \A b \in Accounts : /\ account'[b] \in AccountRow /\ account'[b].kind = account[b].kind
                          /\ account'[b].up = account[b].up
                          /\ account[b].status = "ACTIVE" => account'[b].status = "ACTIVE"
  BY <1>3, <1>5 DEF IInv, TypeOK
<1>7. TypeOK'
  BY <1>1, <1>2, <1>6 DEF IInv, TypeOK
<1>8. Agents' = Agents /\ Owned' /\ Founded' /\ OneHome' /\ SeatsKept' /\ SameUpstream'
  BY <1>1, <1>2, <1>6, TablesKept
<1>9. Shape' /\ Homes' /\ Seats'
  BY <1>1, <1>2, <1>6, ClaimsKept DEF InFlight
<1>10. IsFiniteSet(roles)' /\ Tree'
  <2>1. HQ \in Accounts /\ Agents \subseteq Accounts
    BY DEF IInv, TypeOK, Agents
  <2> QED
    BY <1>1, <1>2, <1>6, <1>8, <2>1 DEF IInv, Tree, Rooted
<1>11. CodesOfMembers'
  <2>1. \A v : GetAgentAccountIdByUserId(v)' = GetAgentAccountIdByUserId(v)
    BY <1>1, <1>2, <1>6, TablesKept
  <2> QED
    BY <1>1, <2>1 DEF IInv, CodesOfMembers
<1> QED
  BY <1>7, <1>8, <1>9, <1>10, <1>11 DEF IInv

LEMMA StutterIInv ==
    ASSUME IInv, UNCHANGED vars
    PROVE  IInv'
<1>1. account' = account /\ roles' = roles /\ codes' = codes /\ request' = request /\ raced' = raced
  BY DEF vars
<1>2. Accounts' = Accounts
  BY <1>1 DEF Accounts
<1>3. TypeOK'
  BY <1>1, <1>2 DEF IInv, TypeOK
<1>4. Agents' = Agents /\ Owned' /\ Founded' /\ OneHome' /\ SeatsKept' /\ SameUpstream'
  BY <1>1, <1>2, TablesKept
<1>5. Shape' /\ Homes' /\ Seats'
  BY <1>1, <1>2, ClaimsKept DEF InFlight
<1>6. IsFiniteSet(roles)' /\ Tree'
  BY <1>1, <1>2, <1>4 DEF IInv, Tree, Rooted
<1>7. CodesOfMembers'
  BY <1>1, <1>2, TablesKept DEF IInv, CodesOfMembers
<1> QED
  BY <1>3, <1>4, <1>5, <1>6, <1>7 DEF IInv

LEMMA NextIInv ==
    ASSUME IInv, [Next]_vars
    PROVE  IInv'
<1>1. ASSUME NEW r \in Request, NEW u \in User, NEW g \in BOOLEAN, NEW c \in codes, RegisterByCode(r, u, c, g)
      PROVE  IInv'
  BY <1>1, RegisterByCodeIInv
<1>2. ASSUME NEW r \in Request, NEW u \in User, NEW g \in BOOLEAN, NEW a \in Account, NEW role \in Rolename,
             JoinAccount(r, u, a, g, role)
      PROVE  IInv'
  BY <1>2, JoinAccountIInv
<1>3. ASSUME NEW r \in Request, NEW u \in User, NEW g \in BOOLEAN, AgentToStudent(r, u, g)
      PROVE  IInv'
  BY <1>3, AgentToStudentIInv
<1>4. ASSUME NEW r \in Request, NEW u \in User, StudentToAgent(r, u)
      PROVE  IInv'
  BY <1>4, StudentToAgentIInv
<1>5. ASSUME NEW r \in Request, NEW u \in User, NEW a \in Account, StudentJoinAgent(r, u, a)
      PROVE  IInv'
  BY <1>5, StudentJoinAgentIInv
<1>6. ASSUME NEW r \in Request, Commit(r) \/ Rollback(r)
      PROVE  IInv'
  BY <1>6, CommitIInv, RollbackIInv
<1>7. ASSUME NEW u \in User, CompleteInvitationCodes(u)
      PROVE  IInv'
  BY <1>7, CompleteInvitationCodesIInv
<1>8. ASSUME NEW a \in Account, Settle(a)
      PROVE  IInv'
  BY <1>8, SettleIInv
<1>9. CASE UNCHANGED vars
  BY <1>9, StutterIInv
<1> QED
  BY <1>1, <1>2, <1>3, <1>4, <1>5, <1>6, <1>7, <1>8, <1>9 DEF Next

-----------------------------------------------------------------------------
(* What the invariant says of the properties.                              *)

LEMMA OwnersCounted == IInv => OneOwner
<1> SUFFICES ASSUME IInv, NEW a \in Agents
             PROVE  Cardinality({x \in MembersOf(a) : x.role = "OWNER"}) = 1
  BY DEF OneOwner
<1>1. PICK x \in roles :
        /\ x.account = a /\ x.role = "OWNER"
        /\ \A y \in roles : y.account = a /\ y.role = "OWNER" => y = x
  BY DEF IInv, Owned
<1>2. {y \in MembersOf(a) : y.role = "OWNER"} = {x}
  BY <1>1 DEF MembersOf
<1> QED
  BY <1>2, FS_Singleton

LEMMA AgentsAreFound == IInv => AgentsFound
<1> SUFFICES ASSUME IInv, NEW a \in Agents \ {HQ}
             PROVE  /\ Cardinality({row \in SearchAgentsWithAttributes : row.accountid = a}) = 1
                    /\ \A row \in SearchAgentsWithAttributes :
                          row.accountid = a /\ row.owner \notin raced => GetAgentAccountIdByUserId(row.owner) = {a}
  BY DEF AgentsFound
<1>1. PICK x \in roles :
        /\ x.account = a /\ x.role = "OWNER"
        /\ \A y \in roles : y.account = a /\ y.role = "OWNER" => y = x
  BY DEF IInv, Owned
<1>2. account[a].kind = "AGENT"
  BY DEF IInv, Tree, Agents
<1>3. \A row : row \in SearchAgentsWithAttributes /\ row.accountid = a
                 <=> row = [accountid |-> a, owner |-> x.user]
  BY <1>1, <1>2 DEF SearchAgentsWithAttributes
<1>4. {row \in SearchAgentsWithAttributes : row.accountid = a} = {[accountid |-> a, owner |-> x.user]}
  BY <1>3
<1>5. Cardinality({row \in SearchAgentsWithAttributes : row.accountid = a}) = 1
  BY <1>4, FS_Singleton
<1>6. x.user \notin raced => GetAgentAccountIdByUserId(x.user) = {a}
  <2> SUFFICES ASSUME x.user \notin raced
               PROVE  \A b : b \in GetAgentAccountIdByUserId(x.user) <=> b = a
    OBVIOUS
  <2>1. x.user \in User \ raced
    BY <1>1 DEF IInv, TypeOK
  <2>2. a \in GetAgentAccountIdByUserId(x.user)
    BY <1>1, LookUps
  <2> QED
    BY <2>1, <2>2, OneOfAKind
<1> QED
  BY <1>3, <1>5, <1>6

-----------------------------------------------------------------------------
(* The theorems.                                                           *)

LEMMA IInvAlways == Spec => []IInv
<1>1. Init => IInv
  BY InitIInv
<1>2. IInv /\ [Next]_vars => IInv'
  BY NextIInv
<1> QED
  BY <1>1, <1>2, PTL DEF Spec

\* Accounts have the one owner and the members they may have, hang below an active agent
\* in the head quarter's tree, and are found in its editor (register_user,
\* enforce_role_constraints, searchAgentsWithAttributes).
THEOREM MembersConsistent == Spec => []Consistent
<1>1. IInv => Consistent
  BY OwnersCounted, AgentsAreFound DEF IInv, Tree, Consistent
<1> QED
  BY <1>1, IInvAlways, PTL

\* A user for whom no two requests read at a time logs into one agent account and one
\* student account at most (get_agent_accountid_by_userid).
THEOREM OneHomeEach == Spec => []OneHome
<1>1. IInv => OneHome
  BY DEF IInv
<1> QED
  BY <1>1, IInvAlways, PTL

\* A user's two accounts are attributed to the same tree, and a code opens accounts below
\* the agent who hands it out (student_to_agent, agent_to_student, CompleteInvitationCodes).
THEOREM LinkedRightAlways == Spec => []LinkedRight
<1>1. IInv => LinkedRight
  BY DEF IInv, LinkedRight
<1> QED
  BY <1>1, IInvAlways, PTL
-----------------------------------------------------------------------------
(* The portal.                                                             *)

\* The demo accounts that agents set are students'.
DemoSound == \A a \in DOMAIN demo : demo[a] \in Students

PInv == IInv /\ DemoSound

-----------------------------------------------------------------------------
(* Every step of the portal is one of Members, or leaves its tables alone. *)

LEMMA RegisterIsMembers ==
    ASSUME IInv, NEW r \in Request, NEW u \in User, Register(r, u)
    PROVE  Next /\ demo' = demo
<1>1. Agents \subseteq Account /\ Students \subseteq Account
  BY DEF IInv, TypeOK, Agents, Students
<1>2. PICK g \in BOOLEAN :
        \/ \E c \in codes : RegisterByCode(r, u, c, g) /\ Invite(r, c.user)
        \/ \E a \in Agents, role \in Rolename, x \in roles :
              x.account = a /\ JoinAccount(r, u, a, g, role) /\ Invite(r, x.user)
        \/ \E a \in Students, role \in Rolename : JoinAccount(r, u, a, g, role) /\ Invite(r, None)
  BY DEF Register
<1>3. CASE \E c \in codes : RegisterByCode(r, u, c, g) /\ Invite(r, c.user)
  BY <1>3 DEF Next, Invite
<1>4. CASE \E a \in Agents, role \in Rolename, x \in roles :
              x.account = a /\ JoinAccount(r, u, a, g, role) /\ Invite(r, x.user)
  BY <1>1, <1>4 DEF Next, Invite
<1>5. CASE \E a \in Students, role \in Rolename : JoinAccount(r, u, a, g, role) /\ Invite(r, None)
  BY <1>1, <1>5 DEF Next, Invite
<1> QED
  BY <1>2, <1>3, <1>4, <1>5

LEMMA ConvertIsMembers ==
    ASSUME IInv, NEW r \in Request, NEW u \in User, Convert(r, u)
    PROVE  Next /\ demo' = demo
<1>1. Agents \subseteq Account
  BY DEF IInv, TypeOK, Agents
<1>2. demo' = demo
  BY DEF Convert, Invite
<1>3. CASE StudentToAgent(r, u)
  BY <1>2, <1>3 DEF Next
<1>4. CASE \E a \in Agents : StudentJoinAgent(r, u, a)
  BY <1>1, <1>2, <1>4 DEF Next
<1>5. CASE \E g \in BOOLEAN : AgentToStudent(r, u, g)
  BY <1>2, <1>5 DEF Next
<1> QED
  BY <1>3, <1>4, <1>5 DEF Convert

LEMMA SessionIsQuiet ==
    ASSUME \/ \E u \in User, role \in Role : Login(u, role)
           \/ \E u \in User : \/ WechatStudentPortalHandler(u) \/ WechatAgentPortalHandler(u)
                             \/ WechatUserPortalHandler(u)
           \/ Logout
    PROVE  UNCHANGED vars /\ demo' = demo
<1>1. ASSUME NEW token, SetSession(token) PROVE UNCHANGED vars /\ demo' = demo
  BY <1>1 DEF SetSession
<1> QED
  BY <1>1 DEF Login, WechatStudentPortalHandler, WechatAgentPortalHandler, WechatUserPortalHandler, Logout

LEMMA PagesAreQuiet ==
    ASSUME \/ \E o \in Order, s \in Account : PlaceOrder(o, s)
           \/ \E o \in Order, days \in {"open", "running"} : PayOrder(o, days)
           \/ \E o \in Order : CloseOrder(o)
           \/ \E s \in Account : RunOut(s)
    PROVE  UNCHANGED vars /\ demo' = demo
BY DEF PlaceOrder, PayOrder, CloseOrder, RunOut

LEMMA PortalStepIsMembers ==
    ASSUME IInv, [PortalNext]_allVars
    PROVE  [Next]_vars
<1>1. CASE \/ \E u \in User, role \in Role : Login(u, role)
           \/ \E u \in User : \/ WechatStudentPortalHandler(u) \/ WechatAgentPortalHandler(u)
                             \/ WechatUserPortalHandler(u)
           \/ Logout
  BY <1>1, SessionIsQuiet
<1>2. CASE \E r \in Request, u \in User : Register(r, u) \/ Convert(r, u)
  BY <1>2, RegisterIsMembers, ConvertIsMembers
<1>3. CASE \E r \in Request : Created(r) \/ Dropped(r)
  BY <1>3 DEF Created, Dropped, Next
<1>4. CASE Elsewhere
  BY <1>4 DEF Elsewhere, Next
<1>5. CASE \E a \in Account, s \in Account \cup {None} : UpdateAgentAttributes(a, s)
  BY <1>5 DEF UpdateAgentAttributes
<1>6. CASE \/ \E o \in Order, s \in Account : PlaceOrder(o, s)
           \/ \E o \in Order, days \in {"open", "running"} : PayOrder(o, days)
           \/ \E o \in Order : CloseOrder(o)
           \/ \E s \in Account : RunOut(s)
  BY <1>6, PagesAreQuiet
<1>7. CASE UNCHANGED allVars
  BY <1>7 DEF allVars, vars
<1> QED
  BY <1>1, <1>2, <1>3, <1>4, <1>5, <1>6, <1>7 DEF PortalNext

-----------------------------------------------------------------------------
(* The demo accounts stay students'.                                       *)

\* No account ceases to be, or to be a student's or an agent's.
LEMMA StudentsStay == ASSUME IInv, [Next]_vars PROVE Students \subseteq Students' /\ Agents \subseteq Agents'
<1>1. ASSUME Accounts' = Accounts, \A a \in Accounts : account'[a].kind = account[a].kind
      PROVE  Students \subseteq Students' /\ Agents \subseteq Agents'
  BY <1>1 DEF Students, Agents
<1>2. CASE UNCHANGED account
  BY <1>2 DEF Students, Agents, Accounts
<1>3. ASSUME NEW r \in Request, Commit(r) PROVE Students \subseteq Students' /\ Agents \subseteq Agents'
  BY <1>3, CommitTables DEF Students, Agents
<1>4. ASSUME NEW a \in Account, Settle(a) PROVE Students \subseteq Students' /\ Agents \subseteq Agents'
  <2>1. account' = [account EXCEPT ![a].status = "ACTIVE"]
    BY <1>4 DEF Settle
  <2> QED
    BY <1>1, <2>1 DEF Accounts
<1>5. CASE \E r \in Request : \E i : Read(r, i)
  BY <1>2, <1>5 DEF Read
<1>6. ASSUME NEW r \in Request, Rollback(r) PROVE Students \subseteq Students' /\ Agents \subseteq Agents'
  BY <1>2, <1>6 DEF Rollback
<1>7. ASSUME NEW u \in User, CompleteInvitationCodes(u) PROVE Students \subseteq Students' /\ Agents \subseteq Agents'
  BY <1>2, <1>7 DEF CompleteInvitationCodes
<1>8. ASSUME NEW r \in Request, NEW u \in User, NEW g \in BOOLEAN,
             \/ \E c \in codes : RegisterByCode(r, u, c, g)
             \/ \E a \in Account, role \in Rolename : JoinAccount(r, u, a, g, role)
             \/ AgentToStudent(r, u, g)
      PROVE  \E i : Read(r, i)
  BY <1>8 DEF RegisterByCode, JoinAccount, AgentToStudent
<1>9. ASSUME NEW r \in Request, NEW u \in User,
             StudentToAgent(r, u) \/ \E a \in Account : StudentJoinAgent(r, u, a)
      PROVE  \E i : Read(r, i)
  BY <1>9 DEF StudentToAgent, StudentJoinAgent
<1>10. CASE UNCHANGED vars
  BY <1>2, <1>10 DEF vars
<1> QED
  BY <1>3, <1>4, <1>5, <1>6, <1>7, <1>8, <1>9, <1>10 DEF Next

LEMMA PortalNextPInv ==
    ASSUME PInv, [PortalNext]_allVars
    PROVE  PInv'
<1>1. [Next]_vars
  BY PortalStepIsMembers DEF PInv
<1>2. IInv' /\ Students \subseteq Students'
  BY <1>1, NextIInv, StudentsStay DEF PInv
<1>3. CASE demo' = demo
  BY <1>2, <1>3 DEF PInv, DemoSound
<1>4. CASE \E a \in Account, s \in Account \cup {None} : UpdateAgentAttributes(a, s)
  <2> PICK a \in Account, s \in Account \cup {None} : UpdateAgentAttributes(a, s)
    BY <1>4
  <2>1. CASE s = None
    BY <1>2, <2>1 DEF PInv, DemoSound, UpdateAgentAttributes
  <2>2. CASE s # None
    <3>1. s \in Students
      BY <2>2 DEF UpdateAgentAttributes
    <3> QED
      BY <1>2, <2>2, <3>1 DEF PInv, DemoSound, UpdateAgentAttributes
  <2> QED
    BY <2>1, <2>2
<1>5. CASE \/ \E u \in User, role \in Role : Login(u, role)
           \/ \E u \in User : \/ WechatStudentPortalHandler(u) \/ WechatAgentPortalHandler(u)
                             \/ WechatUserPortalHandler(u)
           \/ Logout
  BY <1>3, <1>5, SessionIsQuiet
<1>6. CASE \E r \in Request, u \in User : Register(r, u) \/ Convert(r, u)
  BY <1>3, <1>6, RegisterIsMembers, ConvertIsMembers DEF PInv
<1>7. CASE (\E r \in Request : Created(r) \/ Dropped(r)) \/ Elsewhere
  BY <1>3, <1>7 DEF Created, Dropped, Elsewhere, pages
<1>8. CASE \/ \E o \in Order, s \in Account : PlaceOrder(o, s)
           \/ \E o \in Order, days \in {"open", "running"} : PayOrder(o, days)
           \/ \E o \in Order : CloseOrder(o)
           \/ \E s \in Account : RunOut(s)
  BY <1>3, <1>8, PagesAreQuiet
<1>9. CASE UNCHANGED allVars
  BY <1>3, <1>9 DEF allVars, pages
<1> QED
  BY <1>4, <1>5, <1>6, <1>7, <1>8, <1>9 DEF PortalNext

LEMMA PInvAlways == PortalSpec => []PInv
<1>1. PortalInit => PInv
  BY InitIInv DEF PortalInit, PInv, DemoSound
<1>2. PInv /\ [PortalNext]_allVars => PInv'
  BY PortalNextPInv
<1> QED
  BY <1>1, <1>2, PTL DEF PortalSpec

-----------------------------------------------------------------------------
(* As whom a request acts.                                                 *)

LEMMA LookUpsUnraced ==
    ASSUME IInv, raced = {}, NEW u
    PROVE  /\ \A a, b \in GetAgentAccountIdByUserId(u) : a = b
           /\ \A a, b \in GetStudentAccountIdByUserId(u) : a = b
<1>1. CASE u \in User
  BY <1>1, OneOfAKind
<1>2. CASE u \notin User
  BY <1>2, LookUps DEF IInv, TypeOK
<1> QED
  BY <1>1, <1>2

\* Who a request acts as is a member of the account, and of no other of its kind; and
\* where that is not the user of the token, a demo setting says so.
LEMMA ActsWhere ==
    ASSUME PInv, raced = {}, NEW token, NEW role \in Role, NEW x \in GetUserMdw(token, role)
    PROVE  /\ role = "agent" =>
                 x.user = token.user /\ x.account \in Agents
                 /\ GetAgentAccountIdByUserId(x.user) = {x.account}
           /\ role = "student" /\ x.account # None =>
                 x.account \in Students /\ GetStudentAccountIdByUserId(x.user) = {x.account}
           /\ x.account = None => role = "student" /\ GetStudentAccountIdByUserId(x.user) = {}
           /\ x.user # token.user =>
                 \E a \in GetAgentAccountIdByUserId(token.user) \cap DOMAIN demo : demo[a] = x.account
<1>1. Agents \subseteq Account /\ Students \subseteq Account /\ None \notin Account
  BY DEF PInv, IInv, TypeOK, Agents, Students
<1>2. GetAccountByUserId(token.user, "agent") = GetAgentAccountIdByUserId(token.user)
  BY DEF GetAccountByUserId
<1>3. GetAccountByUserId(token.user, "student") = GetStudentAccountIdByUserId(token.user)
  BY DEF GetAccountByUserId
<1>4. CASE role = "student" /\ DemoAccount(token.user) # {}
  <2>1. x \in DemoAccount(token.user)
    BY <1>4 DEF GetUserMdw
  <2>2. PICK s \in GetDemoAccount(token.user) :
          x \in {[user |-> v, account |-> s] : v \in GetStudentUserByAccountID(s)}
    BY <2>1 DEF DemoAccount
  <2>3. PICK a \in GetAgentAccountIdByUserId(token.user) \cap DOMAIN demo : s = demo[a]
    <3>1. PICK y \in roles : y.user = token.user /\ y.account \in Agents /\ y.account \in DOMAIN demo
                            /\ s = demo[y.account]
      BY <2>2 DEF GetDemoAccount
    <3> QED
      BY <3>1, LookUps
  <2>4. s \in Students
    BY <2>3 DEF PInv, DemoSound
  <2>5. x.account = s /\ s \in GetStudentAccountIdByUserId(x.user)
    BY <2>2, <2>4, LookUps DEF GetStudentUserByAccountID, MembersOf
  <2>6. GetStudentAccountIdByUserId(x.user) = {s}
    BY <2>5, LookUpsUnraced DEF PInv
  <2> QED
    BY <1>1, <1>4, <2>3, <2>4, <2>5, <2>6
<1>5. CASE role = "agent"
  <2>1. x.user = token.user /\ x.account \in GetAgentAccountIdByUserId(token.user)
    BY <1>2, <1>5 DEF GetUserMdw
  <2>2. GetAgentAccountIdByUserId(token.user) = {x.account}
    BY <2>1, LookUpsUnraced DEF PInv
  <2> QED
    BY <1>1, <1>5, <2>1, <2>2, LookUps
<1>6. CASE role = "student" /\ DemoAccount(token.user) = {}
  <2>1. /\ x.user = token.user
        /\ x.account \in IF GetStudentAccountIdByUserId(token.user) = {} THEN {None}
                         ELSE GetStudentAccountIdByUserId(token.user)
    BY <1>3, <1>6 DEF GetUserMdw
  <2>2. CASE GetStudentAccountIdByUserId(token.user) = {}
    BY <1>6, <2>1, <2>2
  <2>3. CASE GetStudentAccountIdByUserId(token.user) # {}
    <3>1. GetStudentAccountIdByUserId(token.user) = {x.account}
      BY <2>1, <2>3, LookUpsUnraced DEF PInv
    <3>2. x.account \in Students
      BY <2>1, <2>3, LookUps
    <3> QED
      BY <1>1, <1>6, <2>1, <3>1, <3>2
  <2> QED
    BY <2>2, <2>3
<1> QED
  BY <1>4, <1>5, <1>6 DEF Role

\* The menus of who acts as a member are those of the one role the user has in the account.
LEMMA MenusOfRole ==
    ASSUME PInv, raced = {}, NEW role \in Role, NEW x, x.account \in Accounts,
           account[x.account].kind \in AcctKind(role),
           (IF role = "agent" THEN GetAgentAccountIdByUserId(x.user)
                              ELSE GetStudentAccountIdByUserId(x.user)) = {x.account}
    PROVE  /\ GetRoleOfUser(x) # {}
           /\ GetUserViewPrivilege(x, AcctKind(role))
                = UNION {Allowed[<<account[x.account].kind, r>>] \ Denied[<<account[x.account].kind, r>>] :
                           r \in GetRoleOfUser(x)}
<1>1. PICK z \in roles : z.user = x.user /\ z.account = x.account
  BY LookUps
<1>2. /\ \A y \in roles : y.account \in Accounts
      /\ \A a \in Accounts : account[a].kind \in Roletype
  BY DEF PInv, IInv, TypeOK, AccountRow
<1>3. \A a \in Accounts : a \in Agents <=> account[a].kind \in AcctKind("agent")
  BY DEF Agents, AcctKind
<1>4. \A a \in Accounts : a \in Students <=> account[a].kind \in AcctKind("student")
  BY <1>2 DEF Students, Agents, AcctKind, Roletype
<1>5. \A y \in roles : y.user = x.user /\ account[y.account].kind \in AcctKind(role) => y.account = x.account
  BY <1>2, <1>3, <1>4, LookUps DEF Role
<1>6. \A y \in roles : y.user = x.user /\ y.account = x.account => y = z
  <2>1. x.user \in Registered \ raced
    BY <1>1, LookUps
  <2> QED
    BY <1>1, <2>1 DEF PInv, IInv, OneHome
<1>7. {y \in roles : y.user = x.user /\ account[y.account].kind \in AcctKind(role)} = {z}
  BY <1>1, <1>5, <1>6
<1>8. {y \in roles : y.user = x.user /\ y.account = x.account} = {z}
  BY <1>1, <1>6
<1> DEFINE e == <<account[x.account].kind, z.role>>
<1>9. {<<account[y.account].kind, y.role>> : y \in {z}} = {e}
  BY <1>1
<1>10. GetRoleOfUser(x) = {z.role}
  BY <1>8 DEF GetRoleOfUser
<1>11. GetUserViewPrivilege(x, AcctKind(role)) = (UNION {Allowed[r] : r \in {e}}) \ (UNION {Denied[r] : r \in {e}})
  BY <1>7, <1>9 DEF GetUserViewPrivilege
<1>12. GetUserViewPrivilege(x, AcctKind(role)) = Allowed[e] \ Denied[e]
  <2> HIDE DEF e
  <2>1. {Allowed[r] : r \in {e}} = {Allowed[e]} /\ {Denied[r] : r \in {e}} = {Denied[e]}
    OBVIOUS
  <2>2. \A S : UNION {S} = S
    OBVIOUS
  <2>3. UNION {Allowed[e]} = Allowed[e] /\ UNION {Denied[e]} = Denied[e]
    BY <2>2
  <2> QED
    BY <1>11, <2>1, <2>3
<1>13. UNION {Allowed[<<account[x.account].kind, r>>] \ Denied[<<account[x.account].kind, r>>] : r \in {z.role}}
          = Allowed[e] \ Denied[e]
  OBVIOUS
<1> QED
  BY <1>10, <1>12, <1>13

LEMMA ActsAsMemberWhenUnraced == PInv /\ raced = {} => ActsAsMember
<1> SUFFICES ASSUME PInv, raced = {}, session # None, NEW role \in Role, NEW x \in GetUserMdw(session, role)
             PROVE  /\ Authorize(x) =>
                          /\ GetRoleOfUser(x) # {}
                          /\ GetUserViewPrivilege(x, AcctKind(role))
                               = UNION {Allowed[<<account[x.account].kind, r>>]
                                          \ Denied[<<account[x.account].kind, r>>] : r \in GetRoleOfUser(x)}
                    /\ role = "agent" => x.user = session.user /\ x.account \in Agents
                    /\ x.user # session.user =>
                          \E y \in GetUserMdw(session, "agent") : GetAgentAttr(y.account).demo_account = x.account
                    /\ ~Authorize(x) => role = "student" /\ GetStudentAccountIdByUserId(x.user) = {}
                    /\ role = "student" /\ Authorize(x) =>
                          /\ CreateOrder(x) = GenerateSimpleOrderWithPaymentMethod(x)
                          /\ CreateOrder(x) = EntitlementGate(x)
  BY DEF ActsAsMember
<1>1. /\ role = "agent" =>
           x.user = session.user /\ x.account \in Agents
           /\ GetAgentAccountIdByUserId(x.user) = {x.account}
      /\ role = "student" /\ x.account # None =>
           x.account \in Students /\ GetStudentAccountIdByUserId(x.user) = {x.account}
      /\ x.account = None => role = "student" /\ GetStudentAccountIdByUserId(x.user) = {}
      /\ x.user # session.user =>
           \E a \in GetAgentAccountIdByUserId(session.user) \cap DOMAIN demo : demo[a] = x.account
  BY ActsWhere
<1>2. ASSUME Authorize(x)
      PROVE  /\ GetRoleOfUser(x) # {}
             /\ GetUserViewPrivilege(x, AcctKind(role))
                  = UNION {Allowed[<<account[x.account].kind, r>>] \ Denied[<<account[x.account].kind, r>>] :
                             r \in GetRoleOfUser(x)}
  <2>1. x.account \in Accounts /\ account[x.account].kind \in AcctKind(role)
    <3>1. CASE role = "agent"
      BY <1>1, <3>1 DEF Agents, AcctKind
    <3>2. CASE role = "student"
      <4>1. x.account \in Students
        BY <1>1, <1>2, <3>2 DEF Authorize
      <4> QED
        BY <3>2, <4>1 DEF PInv, IInv, TypeOK, AccountRow, Roletype, Students, Agents, AcctKind
    <3> QED
      BY <3>1, <3>2 DEF Role
  <2>2. (IF role = "agent" THEN GetAgentAccountIdByUserId(x.user)
                           ELSE GetStudentAccountIdByUserId(x.user)) = {x.account}
    BY <1>1, <1>2 DEF Authorize, Role
  <2> QED
    BY <2>1, <2>2, MenusOfRole
<1>3. x.user # session.user =>
         \E y \in GetUserMdw(session, "agent") : GetAgentAttr(y.account).demo_account = x.account
  <2> SUFFICES ASSUME x.user # session.user
               PROVE  \E y \in GetUserMdw(session, "agent") : GetAgentAttr(y.account).demo_account = x.account
    OBVIOUS
  <2>1. PICK a \in GetAgentAccountIdByUserId(session.user) \cap DOMAIN demo : demo[a] = x.account
    BY <1>1
  <2>2. [user |-> session.user, account |-> a] \in GetUserMdw(session, "agent")
    BY <2>1 DEF GetUserMdw, GetAccountByUserId
  <2>3. GetAgentAttr(a).demo_account = x.account
    BY <2>1 DEF GetAgentAttr
  <2> QED
    BY <2>2, <2>3
<1>4. role = "student" /\ Authorize(x) =>
        CreateOrder(x) = GenerateSimpleOrderWithPaymentMethod(x) /\ CreateOrder(x) = EntitlementGate(x)
  BY <1>1 DEF Authorize, CreateOrder, GenerateSimpleOrderWithPaymentMethod, EntitlementGate
<1> QED
  BY <1>1, <1>2, <1>3, <1>4 DEF Authorize

-----------------------------------------------------------------------------
(* Who brought whom in.                                                    *)

MemberUsers(a) == {x.user : x \in MembersOf(a)}

\* What OrdersAttributed says of the first member u of a student below a.
Attributed(u, a) ==
    \/ u = Founder
    \/ people[u].referal \in MemberUsers(a)
    \/ \E g \in GetAgentAccountIdByUserId(u) \ {HQ} :
          /\ account[g].up = a
          /\ [user |-> u, account |-> g, role |-> "OWNER"] \notin roles

\* Users are told apart by when they came, and the next one comes last.
Dated ==
    /\ IsFiniteSet(Registered)
    /\ people \in [Registered -> Person] /\ inviter \in [Request -> User \cup {None}]
    /\ \A u \in Registered : people[u].since < Cardinality(Registered)
    /\ \A u, v \in Registered : people[u].since = people[v].since => u = v

\* Where agent_to_student will open a student's account for a member of g.
Beside(g) == IF account[g].up = None THEN HQ ELSE account[g].up

AgentsBrought ==
    \A u \in Registered : \A g \in GetAgentAccountIdByUserId(u) :
        GetStudentAccountIdByUserId(u) # {} \/ Attributed(u, Beside(g))

StudentsBrought ==
    \A s \in Students : \A u \in Earliest(s) : Attributed(u, account[s].up)

\* What a request has read of whom by brings in.
Brings(i, by) ==
    IF i.registers
    THEN /\ i.opens => by \in MemberUsers(i.row.up)
         /\ ~ i.opens /\ i.row.kind # "STUDENT" => by \in MemberUsers(i.account)
    ELSE /\ i.user \in Registered
         /\ i.row.kind = "STUDENT" => i.opens /\ Attributed(i.user, i.row.up)
         /\ i.row.kind # "STUDENT" => GetStudentAccountIdByUserId(i.user) # {}

RequestsBrought == \A r \in Request : InFlight(r) => Brings(request[r], inviter[r])

BInv == Dated /\ AgentsBrought /\ StudentsBrought /\ RequestsBrought

\* The tables only grow; owners come with their accounts.
Grown ==
    /\ roles \subseteq roles' /\ Accounts \subseteq Accounts'
    /\ \A a \in Accounts : (a \in Agents' <=> a \in Agents) /\ account'[a].up = account[a].up
    /\ \A x \in roles' \ roles : x.account \in Accounts => x.role # "OWNER"
    /\ \A u \in Registered : people'[u] = people[u]

LEMMA GrownLookUps ==
    ASSUME IInv, Grown
    PROVE  /\ \A a : MemberUsers(a) \subseteq MemberUsers(a)'
           /\ Registered \subseteq Registered'
           /\ \A u : /\ GetAgentAccountIdByUserId(u) \subseteq GetAgentAccountIdByUserId(u)'
                     /\ GetStudentAccountIdByUserId(u) \subseteq GetStudentAccountIdByUserId(u)'
<1>1. Agents \subseteq Agents' /\ Students \subseteq Students'
  BY DEF Grown, Students, Agents
<1>2. \A a : MemberUsers(a) \subseteq MemberUsers(a)'
  BY DEF Grown, MemberUsers, MembersOf
<1>3. Registered \subseteq Registered'
  BY DEF Grown, Registered
<1>4. ASSUME NEW u
      PROVE  /\ GetAgentAccountIdByUserId(u) \subseteq GetAgentAccountIdByUserId(u)'
             /\ GetStudentAccountIdByUserId(u) \subseteq GetStudentAccountIdByUserId(u)'
  BY <1>1 DEF Grown, GetAgentAccountIdByUserId, GetStudentAccountIdByUserId
<1> QED
  BY <1>2, <1>3, <1>4

LEMMA AttributedStays ==
    ASSUME IInv, Grown, NEW u \in Registered, NEW a, Attributed(u, a)
    PROVE  Attributed(u, a)'
<1>1. CASE u = Founder
  BY <1>1 DEF Attributed
<1>2. CASE people[u].referal \in MemberUsers(a)
  BY <1>2, GrownLookUps DEF Attributed, Grown
<1>3. ASSUME NEW g \in GetAgentAccountIdByUserId(u) \ {HQ}, account[g].up = a,
             [user |-> u, account |-> g, role |-> "OWNER"] \notin roles
      PROVE  Attributed(u, a)'
  <2>1. g \in Accounts
    BY LookUps DEF Agents
  <2>2. account'[g].up = a
    BY <1>3, <2>1 DEF Grown
  <2>3. [user |-> u, account |-> g, role |-> "OWNER"] \notin roles'
    BY <1>3, <2>1 DEF Grown
  <2>4. g \in GetAgentAccountIdByUserId(u)' \ {HQ}
    BY GrownLookUps
  <2> QED
    BY <2>2, <2>3, <2>4 DEF Attributed
<1> QED
  BY <1>1, <1>2, <1>3 DEF Attributed

LEMMA BringsStays ==
    ASSUME IInv, Grown, NEW i, NEW by, Brings(i, by)
    PROVE  Brings(i, by)'
<1>1. CASE i.registers
  BY <1>1, GrownLookUps DEF Brings
<1>2. CASE ~ i.registers
  <2>1. i.user \in Registered /\ i.user \in Registered'
    BY <1>2, GrownLookUps DEF Brings
  <2>2. i.row.kind = "STUDENT" => i.opens /\ Attributed(i.user, i.row.up)'
    BY <1>2, <2>1, AttributedStays DEF Brings
  <2>3. i.row.kind # "STUDENT" => GetStudentAccountIdByUserId(i.user)' # {}
    BY <1>2, GrownLookUps DEF Brings
  <2> QED
    BY <1>2, <2>1, <2>2, <2>3 DEF Brings
<1> QED
  BY <1>1, <1>2

\* Steps that add no row to roles.
LEMMA TablesBrought ==
    ASSUME IInv, BInv, roles' = roles, Accounts' = Accounts,
           \A a \in Accounts : account'[a].kind = account[a].kind /\ account'[a].up = account[a].up,
           people' = people, inviter' \in [Request -> User \cup {None}]
    PROVE  Grown /\ Dated' /\ AgentsBrought' /\ StudentsBrought'
<1>1. Agents' = Agents /\ Students' = Students /\ Registered' = Registered
  BY DEF Agents, Students, Registered
<1>2. Grown
  BY <1>1 DEF Grown, Agents
<1>3. Dated'
  BY <1>1 DEF BInv, Dated
<1>4. \A a : MembersOf(a)' = MembersOf(a)
  BY DEF MembersOf
<1>5. \A u : /\ GetAgentAccountIdByUserId(u)' = GetAgentAccountIdByUserId(u)
             /\ GetStudentAccountIdByUserId(u)' = GetStudentAccountIdByUserId(u)
  BY <1>1 DEF GetAgentAccountIdByUserId, GetStudentAccountIdByUserId
<1>6. AgentsBrought'
  <2> SUFFICES ASSUME NEW u \in Registered, NEW g \in GetAgentAccountIdByUserId(u),
                      GetStudentAccountIdByUserId(u) = {}
               PROVE  Attributed(u, Beside(g))'
    BY <1>1, <1>5 DEF AgentsBrought
  <2>1. Attributed(u, Beside(g))
    BY DEF BInv, AgentsBrought
  <2>2. Beside(g)' = Beside(g)
    BY LookUps DEF Beside, Agents
  <2> DEFINE b == Beside(g)
  <2>3. Attributed(u, b)'
    BY <1>2, <1>4, <1>5, <2>1, <2>2, LookUps DEF Attributed, MemberUsers, Agents
  <2> QED
    BY <2>3
<1>7. StudentsBrought'
  <2> SUFFICES ASSUME NEW s \in Students, NEW u \in Earliest(s)'
               PROVE  Attributed(u, account[s].up)'
    BY <1>1 DEF StudentsBrought
  <2>1. u \in Earliest(s)
    BY <1>4 DEF Earliest, GetUser
  <2>2. u \in Registered /\ account'[s].up = account[s].up
    BY <2>1 DEF Earliest, MembersOf, Registered, Students
  <2>3. Attributed(u, account[s].up)
    BY <2>1 DEF BInv, StudentsBrought
  <2> QED
    BY <1>2, <1>4, <1>5, <2>2, <2>3, LookUps DEF Attributed, MemberUsers, Agents
<1> QED
  BY <1>2, <1>3, <1>6, <1>7

\* A request that begins is for whom it has read.
LEMMA ReadBrought ==
    ASSUME IInv, BInv, NEW r \in Request, NEW i, Read(r, i), NEW by \in User \cup {None},
           Brings(i, by), Invite(r, by)
    PROVE  BInv'
<1>1. /\ roles' = roles /\ account' = account /\ request[r] = None
      /\ request' = [request EXCEPT ![r] = i] /\ request \in [Request -> Insert \cup {None}]
  BY DEF Read, IInv, TypeOK
<1>2. /\ people' = people /\ inviter' = [inviter EXCEPT ![r] = by]
      /\ inviter \in [Request -> User \cup {None}]
  BY DEF Invite, BInv, Dated
<1>3. Accounts' = Accounts /\ inviter' \in [Request -> User \cup {None}]
  BY <1>1, <1>2 DEF Accounts
<1>4. Grown /\ Dated' /\ AgentsBrought' /\ StudentsBrought'
  BY <1>1, <1>2, <1>3, TablesBrought
<1>5. ASSUME NEW q \in Request, InFlight(q)' PROVE Brings(request[q], inviter[q])'
  <2>1. CASE q = r
    <3>1. request'[q] = i /\ inviter'[q] = by
      BY <1>1, <1>2, <2>1
    <3>2. Brings(i, by)'
      BY <1>4, BringsStays
    <3> QED
      BY <3>1, <3>2 DEF Brings, Attributed
  <2>2. CASE q # r
    <3>1. request'[q] = request[q] /\ inviter'[q] = inviter[q] /\ InFlight(q)
      BY <1>1, <1>2, <1>5, <2>2 DEF InFlight
    <3>2. PICK j, b : j = request[q] /\ b = inviter[q]
      OBVIOUS
    <3>3. Brings(j, b)
      BY <3>1, <3>2 DEF BInv, RequestsBrought
    <3>4. Brings(j, b)'
      BY <1>4, <3>3, BringsStays
    <3>5. request'[q] = j /\ inviter'[q] = b
      BY <3>1, <3>2
    <3> QED
      BY <3>4, <3>5 DEF Brings, Attributed
  <2> QED
    BY <2>1, <2>2
<1> QED
  BY <1>4, <1>5 DEF BInv, RequestsBrought

LEMMA RegisterBrought ==
    ASSUME IInv, BInv, NEW r \in Request, NEW u \in User, Register(r, u)
    PROVE  BInv'
<1>1. PICK g \in BOOLEAN :
        \/ \E c \in codes : RegisterByCode(r, u, c, g) /\ Invite(r, c.user)
        \/ \E a \in Agents, role \in Rolename, x \in roles :
              /\ x.account = a /\ JoinAccount(r, u, a, g, role) /\ Invite(r, x.user)
        \/ \E a \in Students, role \in Rolename : JoinAccount(r, u, a, g, role) /\ Invite(r, None)
  BY DEF Register
<1>2. ASSUME NEW c \in codes, RegisterByCode(r, u, c, g), Invite(r, c.user) PROVE BInv'
  <2>1. PICK a, role : Read(r, [user |-> u, account |-> a, opens |-> TRUE, registers |-> TRUE,
                                row |-> Opened(c.creates, c.account), role |-> role])
    BY <1>2 DEF RegisterByCode
  <2> DEFINE i == [user |-> u, account |-> a, opens |-> TRUE, registers |-> TRUE,
                   row |-> Opened(c.creates, c.account), role |-> role]
  <2>2. PICK x \in roles : x.user = c.user /\ x.account = c.account
    BY LookUps DEF IInv, CodesOfMembers
  <2>3. c.user \in MemberUsers(c.account) /\ c.user \in User
    BY <2>2 DEF MemberUsers, MembersOf, IInv, TypeOK
  <2>4. Brings(i, c.user)
    BY <2>3 DEF Brings, Opened
  <2> HIDE DEF i
  <2> QED
    BY <1>2, <2>1, <2>3, <2>4, ReadBrought DEF i
<1>3. ASSUME NEW a \in Accounts, NEW role \in Rolename, JoinAccount(r, u, a, g, role),
             NEW by \in User \cup {None}, Invite(r, by), a \in Agents => by \in MemberUsers(a)
      PROVE  BInv'
  <2> DEFINE i == [user |-> u, account |-> a, opens |-> FALSE, registers |-> TRUE,
                   row |-> account[a], role |-> role]
  <2>1. Read(r, i)
    BY <1>3 DEF JoinAccount
  <2>2. Brings(i, by)
    BY <1>3 DEF Brings, Agents, IInv, TypeOK, AccountRow, Roletype
  <2>3. PICK j : j = i
    OBVIOUS
  <2> HIDE DEF i
  <2> QED
    BY <1>3, <2>1, <2>2, <2>3, ReadBrought
<1>4. \A x \in roles : x.user \in User /\ x.user \in MemberUsers(x.account)
  BY DEF IInv, TypeOK, MemberUsers, MembersOf
<1>5. Agents \subseteq Accounts /\ Students \subseteq Accounts
  BY DEF Agents, Students
<1>6. CASE \E a \in Students, role \in Rolename : JoinAccount(r, u, a, g, role) /\ Invite(r, None)
  BY <1>3, <1>5, <1>6 DEF Students
<1>7. CASE \E a \in Agents, role \in Rolename, x \in roles :
              /\ x.account = a /\ JoinAccount(r, u, a, g, role) /\ Invite(r, x.user)
  BY <1>3, <1>4, <1>5, <1>7
<1> QED
  BY <1>1, <1>2, <1>6, <1>7

LEMMA ConvertBrought ==
    ASSUME IInv, BInv, NEW r \in Request, NEW u \in User, Convert(r, u)
    PROVE  BInv'
<1>1. Invite(r, None)
  BY DEF Convert
<1>2. ASSUME NEW i, Read(r, i), ~ i.registers, i.user \in Registered, i.row.kind # "STUDENT",
             GetStudentAccountIdByUserId(i.user) # {}
      PROVE  BInv'
  BY <1>1, <1>2, ReadBrought DEF Brings
<1>3. CASE StudentToAgent(r, u)
  <2>1. PICK s \in GetStudentAccountIdByUserId(u), a \in Fresh :
          Read(r, [user |-> u, account |-> a, opens |-> TRUE, registers |-> FALSE,
                   row |-> Opened("AGENT", account[s].up), role |-> "OWNER"])
    BY <1>3 DEF StudentToAgent
  <2>2. u \in Registered
    BY <1>3 DEF StudentToAgent
  <2>3. PICK row : row = Opened("AGENT", account[s].up)
    OBVIOUS
  <2>4. row.kind # "STUDENT"
    BY <2>3 DEF Opened
  <2> QED
    BY <1>2, <2>1, <2>2, <2>3, <2>4
<1>4. CASE \E a \in Agents : StudentJoinAgent(r, u, a)
  <2>1. PICK a \in Agents : StudentJoinAgent(r, u, a)
    BY <1>4
  <2>2. Read(r, [user |-> u, account |-> a, opens |-> FALSE, registers |-> FALSE,
                 row |-> account[a], role |-> "ADMIN"])
    BY <2>1 DEF StudentJoinAgent
  <2>3. u \in Registered /\ account[a].kind # "STUDENT" /\ GetStudentAccountIdByUserId(u) # {}
    BY <2>1 DEF StudentJoinAgent
  <2>4. PICK row : row = account[a]
    OBVIOUS
  <2> QED
    BY <1>2, <2>2, <2>3, <2>4
<1>5. CASE \E g \in BOOLEAN : AgentToStudent(r, u, g)
  <2>1. PICK g \in GetAgentAccountIdByUserId(u), a \in Fresh : \E role :
          Read(r, [user |-> u, account |-> a, opens |-> TRUE, registers |-> FALSE,
                   row |-> Opened("STUDENT", Beside(g)), role |-> role])
    BY <1>5 DEF AgentToStudent, Beside
  <2>2. PICK role :
          Read(r, [user |-> u, account |-> a, opens |-> TRUE, registers |-> FALSE,
                   row |-> Opened("STUDENT", Beside(g)), role |-> role])
    BY <2>1
  <2>3. u \in Registered /\ GetStudentAccountIdByUserId(u) = {}
    BY <1>5 DEF AgentToStudent
  <2>4. Attributed(u, Beside(g))
    BY <2>3 DEF BInv, AgentsBrought
  <2>5. PICK row : row = Opened("STUDENT", Beside(g))
    OBVIOUS
  <2>6. row.up = Beside(g)
    BY <2>5 DEF Opened
  <2> DEFINE i == [user |-> u, account |-> a, opens |-> TRUE, registers |-> FALSE,
                   row |-> row, role |-> role]
  <2>7. Attributed(u, row.up)
    BY <2>4, <2>6, Zenon
  <2>8. i.user = u /\ i.row = row /\ i.opens = TRUE /\ i.registers = FALSE
    OBVIOUS
  <2>9. row.kind = "STUDENT"
    BY <2>5 DEF Opened
  <2>10. Read(r, i)
    BY <2>2, <2>5
  <2> HIDE DEF i
  <2>11. Brings(i, None)
    BY <2>3, <2>7, <2>8, <2>9 DEF Brings
  <2> QED
    BY <1>1, <2>10, <2>11, ReadBrought
<1> QED
  BY <1>3, <1>4, <1>5 DEF Convert

\* What a request inserts grows the tables, and a new user comes last.
LEMMA CreatedGrows ==
    ASSUME IInv, BInv, NEW r \in Request, Created(r), NEW i, i = request[r]
    PROVE  /\ Grown /\ Commit(r) /\ Brings(i, inviter[r]) /\ i \in Insert
           /\ Registered' = Registered \cup {i.user}
           /\ IF i.registers
              THEN /\ i.user \notin Registered
                   /\ people' = [v \in Registered \cup {i.user} |->
                                   IF v = i.user THEN [since |-> Cardinality(Registered),
                                                       referal |-> inviter[r]]
                                   ELSE people[v]]
              ELSE i.user \in Registered /\ people' = people
<1>1. Commit(r) /\ Shaped(i) /\ InFlight(r)
  BY CommitTables DEF Created
<1>2. DOMAIN people = Registered
  BY DEF BInv, Dated
<1>3. Brings(i, inviter[r]) /\ i \in Insert
  BY <1>1 DEF BInv, RequestsBrought, Shaped
<1>4. i.registers => i.user \notin Registered
  BY <1>1 DEF Commit
<1>5. people' = IF i.registers
                THEN [v \in Registered \cup {i.user} |->
                        IF v = i.user THEN [since |-> Cardinality(Registered), referal |-> inviter[r]]
                        ELSE people[v]]
                ELSE people
  BY <1>2 DEF Created
<1>6. ~ i.registers => i.user \in Registered
  BY <1>3 DEF Brings
<1>7. roles' = roles \cup {RowOf(i)} /\ RowOf(i).user = i.user /\ RowOf(i).account = i.account
      /\ RowOf(i).role = i.role
  BY <1>1, CommitTables DEF RowOf
<1>8. Registered' = Registered \cup {i.user}
  BY <1>7 DEF Registered
<1>9. Grown
  <2>1. roles \subseteq roles' /\ Accounts \subseteq Accounts'
    BY <1>1, <1>7, CommitTables
  <2>2. \A a \in Accounts : (a \in Agents' <=> a \in Agents) /\ account'[a].up = account[a].up
    BY <1>1, CommitTables
  <2>3. \A x \in roles' \ roles : x.account \in Accounts => x.role # "OWNER"
    BY <1>1, <1>7 DEF Shaped, PupilRole
  <2>4. \A u \in Registered : people'[u] = people[u]
    BY <1>4, <1>5
  <2> QED
    BY <2>1, <2>2, <2>3, <2>4 DEF Grown
<1> QED
  BY <1>1, <1>3, <1>4, <1>5, <1>6, <1>8, <1>9

LEMMA CreatedDated ==
    ASSUME IInv, BInv, NEW r \in Request, Created(r)
    PROVE  Dated'
<1> DEFINE n == Cardinality(Registered)
<1>1. PICK i : i = request[r]
  OBVIOUS
<1>2. i.user \in User /\ inviter[r] \in User \cup {None}
  BY <1>1, CreatedGrows DEF Insert, BInv, Dated
<1>3. inviter' \in [Request -> User \cup {None}]
  BY DEF Created, BInv, Dated
<1>4. /\ IsFiniteSet(Registered) /\ n \in Nat /\ people \in [Registered -> Person]
      /\ \A u \in Registered : people[u].since \in Nat /\ people[u].since < n
      /\ \A u, v \in Registered : people[u].since = people[v].since => u = v
  BY FS_CardinalityType DEF BInv, Dated, Person
<1>5. CASE i.registers
  <2>1. /\ i.user \notin Registered /\ Registered' = Registered \cup {i.user}
        /\ people' = [v \in Registered \cup {i.user} |->
                        IF v = i.user THEN [since |-> n, referal |-> inviter[r]] ELSE people[v]]
    BY <1>1, <1>5, CreatedGrows
  <2>2. IsFiniteSet(Registered') /\ Cardinality(Registered') = n + 1
    BY <1>4, <2>1, FS_AddElement
  <2> HIDE DEF n
  <2>3. people' \in [Registered' -> Person]
    BY <1>2, <1>4, <2>1 DEF Person
  <2>4. people'[i.user].since = n /\ \A u \in Registered : people'[u] = people[u]
    BY <2>1
  <2>5. \A u \in Registered' : people'[u].since < n + 1
    BY <1>4, <2>1, <2>4
  <2>6. \A u, v \in Registered' : people'[u].since = people'[v].since => u = v
    BY <1>4, <2>1, <2>4
  <2> QED
    BY <1>3, <2>2, <2>3, <2>5, <2>6 DEF Dated
<1>6. CASE ~ i.registers
  <2>1. Registered' = Registered /\ people' = people
    BY <1>1, <1>6, CreatedGrows
  <2> QED
    BY <1>3, <2>1 DEF BInv, Dated
<1> QED
  BY <1>5, <1>6

\* Whoever comes to an account later is not the first there.
LEMMA CreatedEarliest ==
    ASSUME IInv, BInv, NEW r \in Request, Created(r), NEW i, i = request[r],
           NEW s \in Students, NEW u \in Earliest(s)'
    PROVE  u \in Earliest(s)
<1>1. /\ \A a : a # i.account => MembersOf(a)' = MembersOf(a)
      /\ MembersOf(i.account)' = MembersOf(i.account) \cup {RowOf(i)}
      /\ Shaped(i) /\ Registered' = Registered \cup {i.user} /\ Brings(i, inviter[r])
  BY CommitElsewhere, CommitTables, CreatedGrows
<1>2. \A a : \A x \in MembersOf(a) : x.user \in Registered
  BY DEF MembersOf, Registered
<1>3. \A v \in Registered : people'[v] = people[v]
  BY CreatedGrows DEF Grown
<1>4. PICK x \in MembersOf(s)' :
         x.user = u /\ \A z \in MembersOf(s)' : people'[x.user].since <= people'[z.user].since
  BY DEF Earliest, GetUser
<1>5. MembersOf(s) \subseteq MembersOf(s)'
  BY <1>1
<1>6. x \in MembersOf(s)
  <2> SUFFICES ASSUME x \notin MembersOf(s) PROVE FALSE
    OBVIOUS
  <2>1. s = i.account /\ x = RowOf(i)
    BY <1>1
  <2>2. i.row.kind = "STUDENT" /\ ~ i.opens
    BY <1>1, <2>1 DEF Shaped, Students, Agents, IInv, TypeOK, AccountRow, Roletype
  <2>3. i.registers
    BY <1>1, <2>2 DEF Brings
  <2>4. people'[u].since = Cardinality(Registered)
    <3>1. u = i.user
      BY <1>4, <2>1 DEF RowOf
    <3>2. people' = [v \in Registered \cup {i.user} |->
                       IF v = i.user THEN [since |-> Cardinality(Registered), referal |-> inviter[r]]
                       ELSE people[v]]
      BY <2>3, CreatedGrows
    <3> QED
      BY <3>1, <3>2
  <2>5. PICK z \in MembersOf(s) : TRUE
    BY DEF IInv, Founded, MembersOf
  <2>6. people[z.user].since < Cardinality(Registered) /\ people[z.user].since \in Nat
    BY <1>2, <2>5 DEF BInv, Dated, Person
  <2>7. Cardinality(Registered) <= people[z.user].since
    BY <1>2, <1>3, <1>4, <1>5, <2>4, <2>5
  <2> QED
    BY <2>6, <2>7, FS_CardinalityType DEF BInv, Dated
<1>7. \A z \in MembersOf(s) : people[x.user].since <= people[z.user].since
  BY <1>2, <1>3, <1>4, <1>5, <1>6
<1> QED
  BY <1>4, <1>6, <1>7 DEF Earliest, GetUser

LEMMA CreatedBrought ==
    ASSUME IInv, BInv, NEW r \in Request, Created(r)
    PROVE  BInv'
<1>1. PICK i : i = request[r]
  OBVIOUS
<1>2. PICK by : by = inviter[r]
  OBVIOUS
<1>3. /\ Grown /\ Commit(r) /\ Brings(i, by) /\ i \in Insert /\ Shaped(i)
      /\ Registered' = Registered \cup {i.user}
      /\ i.registers => i.user \notin Registered /\ people'[i.user].referal = by
  <2>1. Grown /\ Commit(r) /\ Brings(i, by) /\ i \in Insert /\ Registered' = Registered \cup {i.user}
    BY <1>1, <1>2, CreatedGrows
  <2>2. ASSUME i.registers PROVE i.user \notin Registered /\ people'[i.user].referal = by
    <3>1. /\ i.user \notin Registered
          /\ people' = [v \in Registered \cup {i.user} |->
                          IF v = i.user THEN [since |-> Cardinality(Registered), referal |-> by]
                          ELSE people[v]]
      BY <1>1, <1>2, <2>2, CreatedGrows
    <3> QED
      BY <3>1
  <2>3. Shaped(i)
    BY <1>1, <2>1, CommitTables
  <2> QED
    BY <2>1, <2>2, <2>3
<1>4. Brings(i, by)'
  BY <1>3, BringsStays
<1>5. /\ roles' = roles \cup {RowOf(i)} /\ RowOf(i).user = i.user /\ RowOf(i).account = i.account
      /\ RowOf(i).role = i.role
      /\ Accounts' = Accounts \cup {i.account} /\ \A a \in Accounts : account'[a] = account[a]
      /\ i.opens => account'[i.account] = i.row
      /\ \A a \in Accounts : a \in Agents' <=> a \in Agents
      /\ i.account \in Agents' <=> i.row.kind # "STUDENT"
  BY <1>1, <1>3, CommitTables DEF RowOf
<1>6. /\ \A u : u # i.user =>
            /\ GetAgentAccountIdByUserId(u)' = GetAgentAccountIdByUserId(u)
            /\ GetStudentAccountIdByUserId(u)' = GetStudentAccountIdByUserId(u)
      /\ \A a : a \in GetAgentAccountIdByUserId(i.user)' <=>
                  a \in GetAgentAccountIdByUserId(i.user) \/ (a = i.account /\ i.row.kind # "STUDENT")
      /\ \A a : a \in GetStudentAccountIdByUserId(i.user)' <=>
                  a \in GetStudentAccountIdByUserId(i.user) \/ (a = i.account /\ i.row.kind = "STUDENT")
      /\ MembersOf(i.account)' = MembersOf(i.account) \cup {RowOf(i)}
  BY <1>1, <1>3, CommitElsewhere
<1>7. Dated'
  BY CreatedDated
<1>8. AgentsBrought'
  <2> SUFFICES ASSUME NEW u \in Registered', NEW g \in GetAgentAccountIdByUserId(u)',
                      GetStudentAccountIdByUserId(u)' = {}
               PROVE  Attributed(u, Beside(g))'
    BY DEF AgentsBrought
  <2>1. PICK b : b = Beside(g)'
    OBVIOUS
  <2>2. ASSUME Attributed(u, b)' PROVE Attributed(u, Beside(g))'
    BY <2>1, <2>2 DEF Attributed
  \* A membership there was.
  <2>3. CASE u \in Registered /\ g \in GetAgentAccountIdByUserId(u)
    <3>1. g \in Accounts /\ b = Beside(g)
      BY <1>5, <2>1, <2>3, LookUps DEF Agents, Beside
    <3>2. GetStudentAccountIdByUserId(u) = {}
      BY <1>3, GrownLookUps
    <3>3. Attributed(u, b)
      BY <2>3, <3>1, <3>2 DEF BInv, AgentsBrought
    <3> QED
      BY <1>3, <2>2, <2>3, <3>3, AttributedStays
  \* A new one.
  <2>4. CASE ~ (u \in Registered /\ g \in GetAgentAccountIdByUserId(u))
    <3>1. u = i.user
      BY <1>3, <1>6, <2>4
    <3>2. g = i.account /\ i.row.kind # "STUDENT"
      <4>1. CASE u \in Registered
        BY <1>6, <2>4, <3>1, <4>1
      <4>2. CASE u \notin Registered
        BY <1>6, <3>1, <4>2, LookUps
      <4> QED
        BY <4>1, <4>2
    <3>3. i.registers
      BY <1>4, <3>1, <3>2 DEF Brings
    <3>4. people'[u].referal = by
      BY <1>3, <3>1, <3>3
    <3>5. CASE i.opens
      <4>1. b = i.row.up /\ by \in MemberUsers(i.row.up)'
        BY <1>3, <1>4, <1>5, <2>1, <3>2, <3>3, <3>5 DEF Brings, Beside, Shaped, Agents, IInv, TypeOK
      <4>2. Attributed(u, b)'
        BY <3>4, <4>1 DEF Attributed
      <4> QED
        BY <2>2, <4>2
    <3>6. CASE ~ i.opens
      <4>1. by \in MemberUsers(g)' /\ g \in Agents /\ i.role # "OWNER"
        BY <1>3, <1>4, <1>5, <3>2, <3>3, <3>6 DEF Brings, Shaped
      <4>2. CASE g = HQ
        <5>1. b = HQ
          BY <1>5, <2>1, <4>1, <4>2 DEF Beside, Agents, IInv, Tree
        <5>2. Attributed(u, b)'
          BY <3>4, <4>1, <4>2, <5>1 DEF Attributed
        <5> QED
          BY <2>2, <5>2
      <4>3. CASE g # HQ
        <5>1. account[g].up \in Agents
          BY <4>1, <4>3 DEF IInv, Tree, Rooted, Agents
        <5>2. b = account[g].up /\ account'[g].up = b
          BY <1>5, <2>1, <4>1, <5>1 DEF Beside, Agents, IInv, TypeOK
        <5>3. [user |-> u, account |-> g, role |-> "OWNER"] \notin roles'
          BY <1>3, <1>5, <3>1, <3>3, <4>1, LookUps
        <5>4. Attributed(u, b)'
          BY <4>3, <5>2, <5>3 DEF Attributed
        <5> QED
          BY <2>2, <5>4
      <4> QED
        BY <4>2, <4>3
    <3> QED
      BY <3>5, <3>6
  <2> QED
    BY <2>3, <2>4
<1>9. StudentsBrought'
  <2> SUFFICES ASSUME NEW s \in Students', NEW u \in Earliest(s)'
               PROVE  Attributed(u, account[s].up)'
    BY DEF StudentsBrought
  <2>1. PICK b : b = account'[s].up
    OBVIOUS
  <2>2. ASSUME Attributed(u, b)' PROVE Attributed(u, account[s].up)'
    BY <2>1, <2>2 DEF Attributed
  <2>3. CASE s \in Students
    <3>1. u \in Earliest(s)
      BY <1>1, <2>3, CreatedEarliest
    <3>2. b = account[s].up
      BY <1>5, <2>1, <2>3 DEF Students
    <3>3. Attributed(u, b) /\ u \in Registered
      BY <2>3, <3>1, <3>2 DEF BInv, StudentsBrought, Earliest, MembersOf, Registered
    <3> QED
      BY <1>3, <2>2, <3>3, AttributedStays
  <2>4. CASE s \notin Students
    <3>1. s = i.account /\ s \notin Accounts /\ i.opens /\ i.row.kind = "STUDENT"
      BY <1>3, <1>5, <2>4 DEF Students, Shaped
    <3>2. b = i.row.up
      BY <1>5, <2>1, <3>1
    <3>3. u = i.user
      <4>1. MembersOf(s) = {}
        BY <3>1 DEF MembersOf, IInv, TypeOK
      <4> QED
        BY <1>5, <1>6, <3>1, <4>1 DEF Earliest
    <3>4. CASE i.registers
      <4>1. by \in MemberUsers(b)'
        BY <1>4, <3>1, <3>2, <3>4 DEF Brings
      <4>2. Attributed(u, b)'
        BY <1>3, <3>3, <3>4, <4>1 DEF Attributed
      <4> QED
        BY <2>2, <4>2
    <3>5. CASE ~ i.registers
      <4>1. Attributed(u, b) /\ u \in Registered
        BY <1>3, <3>1, <3>2, <3>3, <3>5 DEF Brings
      <4> QED
        BY <1>3, <2>2, <4>1, AttributedStays
    <3> QED
      BY <3>4, <3>5
  <2> QED
    BY <2>3, <2>4
<1>10. RequestsBrought'
  <2> SUFFICES ASSUME NEW q \in Request, InFlight(q)' PROVE Brings(request[q], inviter[q])'
    BY DEF RequestsBrought
  <2>1. InFlight(q) /\ q # r /\ request'[q] = request[q]
    BY <1>1, <1>3, CommitTables
  <2>2. inviter'[q] = inviter[q]
    BY <2>1 DEF Created, BInv, Dated
  <2>3. PICK j, w : j = request[q] /\ w = inviter[q]
    OBVIOUS
  <2>4. Brings(j, w)'
    BY <1>3, <2>1, <2>3, BringsStays DEF BInv, RequestsBrought
  <2> QED
    BY <2>1, <2>2, <2>3, <2>4 DEF Brings, Attributed
<1> QED
  BY <1>7, <1>8, <1>9, <1>10 DEF BInv

LEMMA StepBrought ==
    ASSUME IInv, BInv, [PortalNext]_allVars
    PROVE  BInv'
<1>1. ASSUME NEW r \in Request, NEW u \in User, Register(r, u) \/ Convert(r, u) PROVE BInv'
  BY <1>1, RegisterBrought, ConvertBrought
<1>2. ASSUME NEW r \in Request, Created(r) PROVE BInv'
  BY <1>2, CreatedBrought
\* Other steps change no row of roles and no request but one that ends.
<1>3. ASSUME roles' = roles, Accounts' = Accounts,
             \A a \in Accounts : account'[a].kind = account[a].kind /\ account'[a].up = account[a].up,
             people' = people, inviter' \in [Request -> User \cup {None}],
             \A q \in Request : InFlight(q)' =>
                InFlight(q) /\ request'[q] = request[q] /\ inviter'[q] = inviter[q]
      PROVE  BInv'
  <2>1. Grown /\ Dated' /\ AgentsBrought' /\ StudentsBrought'
    BY <1>3, TablesBrought
  <2>2. ASSUME NEW q \in Request, InFlight(q)' PROVE Brings(request[q], inviter[q])'
    <3>1. PICK j, w : j = request[q] /\ w = inviter[q]
      OBVIOUS
    <3>2. Brings(j, w)'
      BY <1>3, <2>1, <2>2, <3>1, BringsStays DEF BInv, RequestsBrought
    <3>3. request'[q] = j /\ inviter'[q] = w
      BY <1>3, <2>2, <3>1
    <3> QED
      BY <3>2, <3>3 DEF Brings, Attributed
  <2> QED
    BY <2>1, <2>2 DEF BInv, RequestsBrought
<1>4. CASE UNCHANGED <<vars, people, inviter>>
  <2>1. /\ roles' = roles /\ account' = account /\ request' = request /\ people' = people
        /\ inviter' = inviter /\ inviter \in [Request -> User \cup {None}]
    BY <1>4 DEF vars, BInv, Dated
  <2> QED
    BY <1>3, <2>1 DEF Accounts, InFlight
<1>5. ASSUME NEW r \in Request, Dropped(r) PROVE BInv'
  <2>1. /\ request' = [request EXCEPT ![r] = None] /\ request \in [Request -> Insert \cup {None}]
        /\ inviter' = [inviter EXCEPT ![r] = None] /\ inviter \in [Request -> User \cup {None}]
        /\ roles' = roles /\ account' = account /\ people' = people
    BY <1>5 DEF Dropped, Rollback, IInv, TypeOK, BInv, Dated
  <2>2. \A q \in Request : InFlight(q)' =>
           InFlight(q) /\ request'[q] = request[q] /\ inviter'[q] = inviter[q]
    BY <2>1 DEF InFlight
  <2> QED
    BY <1>3, <2>1, <2>2 DEF Accounts
<1>6. CASE Elsewhere
  <2>1. /\ roles' = roles /\ request' = request /\ people' = people /\ inviter' = inviter
        /\ account' = account \/ \E a \in Accounts : account' = [account EXCEPT ![a].status = "ACTIVE"]
    BY <1>6 DEF Elsewhere, pages, CompleteInvitationCodes, Settle
  <2>2. Accounts' = Accounts
    BY <2>1 DEF Accounts
  <2>3. \A a \in Accounts : account'[a].kind = account[a].kind /\ account'[a].up = account[a].up
    BY <2>1 DEF Accounts, IInv, TypeOK, AccountRow
  <2> QED
    BY <1>3, <2>1, <2>2, <2>3 DEF InFlight, BInv, Dated
<1>7. CASE \/ \E u \in User, role \in Role : Login(u, role)
           \/ \E u \in User : \/ WechatStudentPortalHandler(u) \/ WechatAgentPortalHandler(u)
                             \/ WechatUserPortalHandler(u)
           \/ Logout
  <2>1. ASSUME NEW token, SetSession(token) PROVE UNCHANGED <<vars, people, inviter>>
    BY <2>1 DEF SetSession
  <2> QED
    BY <1>4, <1>7, <2>1 DEF Login, WechatStudentPortalHandler, WechatAgentPortalHandler,
                            WechatUserPortalHandler, Logout
<1>8. CASE \/ \E a \in Account, s \in Account \cup {None} : UpdateAgentAttributes(a, s)
           \/ \E o \in Order, s \in Account : PlaceOrder(o, s)
           \/ \E o \in Order, days \in {"open", "running"} : PayOrder(o, days)
           \/ \E o \in Order : CloseOrder(o)
           \/ \E s \in Account : RunOut(s)
  <2>1. UNCHANGED <<vars, people, inviter>>
    BY <1>8 DEF UpdateAgentAttributes, PlaceOrder, PayOrder, CloseOrder, RunOut
  <2> QED
    BY <1>4, <2>1
<1>9. CASE UNCHANGED allVars
  BY <1>4, <1>9 DEF allVars, pages
<1> QED
  BY <1>1, <1>2, <1>5, <1>6, <1>7, <1>8, <1>9 DEF PortalNext

LEMMA InitBrought == PortalInit => BInv
<1> SUFFICES ASSUME PortalInit PROVE BInv
  OBVIOUS
<1> DEFINE owner == [user |-> Founder, account |-> HQ, role |-> "OWNER"]
<1>1. roles = {owner} /\ Agents = {HQ} /\ Students = {}
  BY DEF PortalInit, Init, Accounts, Agents, Students
<1>2. Registered = {Founder}
  BY <1>1 DEF Registered
<1>3. /\ people = [u \in {Founder} |-> [since |-> 0, referal |-> None]]
      /\ inviter = [r \in Request |-> None]
  BY DEF PortalInit
<1>4. IsFiniteSet(Registered) /\ Cardinality(Registered) = 1
  BY <1>2, FS_Singleton
<1>5. Dated
  BY <1>2, <1>3, <1>4 DEF Dated, Person
<1>6. AgentsBrought /\ StudentsBrought
  BY <1>1, <1>2 DEF AgentsBrought, StudentsBrought, Attributed
<1>7. RequestsBrought
  BY DEF RequestsBrought, InFlight, PortalInit, Init
<1> QED
  BY <1>5, <1>6, <1>7 DEF BInv

-----------------------------------------------------------------------------
(* What the pages hold.                                                    *)

\* An order that was paid has left its student an entitlement, running, without end or over.
PageRows ==
    /\ DOMAIN demo \subseteq Agents
    /\ session \in Token \cup {None}
    /\ DOMAIN orders \subseteq Order
    /\ orders \in [DOMAIN orders -> [student : Students,
                                    status : {"created", "settled", "declined", "refunded"}]]
    /\ \A o \in DOMAIN orders : orders[o].status = "settled" => orders[o].student \in DOMAIN expiresat
    /\ DOMAIN expiresat \subseteq Students
    /\ expiresat \in [DOMAIN expiresat -> {"open", "running", "over"}]

LEMMA RowsKept ==
    ASSUME IInv, PageRows, [Next]_vars,
           demo' = demo, session' = session, orders' = orders, expiresat' = expiresat
    PROVE  PageRows'
BY StudentsStay DEF PageRows

LEMMA SessionRows ==
    ASSUME IInv, DemoSound, PageRows,
           \/ \E u \in User, role \in Role : Login(u, role)
           \/ \E u \in User : \/ WechatStudentPortalHandler(u) \/ WechatAgentPortalHandler(u)
                             \/ WechatUserPortalHandler(u)
           \/ Logout
    PROVE  PageRows'
<1>1. ASSUME NEW token \in Token \cup {None}, SetSession(token) PROVE PageRows'
  BY <1>1 DEF SetSession, vars, PageRows, Agents, Students, Accounts
<1>2. Agents \subseteq Account /\ Students \subseteq Account
  BY DEF IInv, TypeOK, Agents, Students
<1>3. \A u, role : GetAccountByUserId(u, role) \subseteq Account
  BY <1>2, LookUps DEF GetAccountByUserId
<1>4. \A u : GetDemoAccount(u) \subseteq Account
  BY <1>2 DEF GetDemoAccount, DemoSound
<1>5. ASSUME NEW u \in User, NEW a \in Account \cup {None}, SetSession([user |-> u, account |-> a])
      PROVE  PageRows'
  BY <1>1, <1>5 DEF Token
<1>6. ASSUME NEW u \in User, NEW role, Login(u, role) PROVE PageRows'
  BY <1>3, <1>5, <1>6 DEF Login
<1>7. ASSUME NEW u \in User, WechatStudentPortalHandler(u) PROVE PageRows'
  BY <1>3, <1>4, <1>5, <1>7 DEF WechatStudentPortalHandler
<1>8. ASSUME NEW u \in User, WechatUserPortalHandler(u) PROVE PageRows'
  BY <1>5, <1>8 DEF WechatUserPortalHandler
<1>9. CASE Logout
  BY <1>1, <1>9 DEF Logout
<1> QED
  BY <1>6, <1>7, <1>8, <1>9 DEF WechatAgentPortalHandler

LEMMA OrderRows ==
    ASSUME PageRows,
           \/ \E o \in Order, s \in Account : PlaceOrder(o, s)
           \/ \E o \in Order, days \in {"open", "running"} : PayOrder(o, days)
           \/ \E o \in Order : CloseOrder(o)
           \/ \E s \in Account : RunOut(s)
    PROVE  PageRows'
<1>1. /\ Agents' = Agents /\ Students' = Students /\ demo' = demo /\ session' = session
  BY DEF PlaceOrder, PayOrder, CloseOrder, RunOut, vars, Agents, Students, Accounts
<1>2. ASSUME NEW o \in Order, NEW s \in Account, PlaceOrder(o, s) PROVE PageRows'
  BY <1>1, <1>2 DEF PlaceOrder, PageRows
<1>3. ASSUME NEW o \in Order, NEW days \in {"open", "running"}, PayOrder(o, days) PROVE PageRows'
  <2> DEFINE s == orders[o].student
             e == Extended(s, days)
  <2>1. /\ orders' = [orders EXCEPT ![o].status = "settled"] /\ o \in DOMAIN orders
        /\ expiresat' = [x \in DOMAIN expiresat \cup {s} |-> IF x = s THEN e ELSE expiresat[x]]
    BY <1>3 DEF PayOrder
  <2>2. e \in {"open", "running"}
    BY DEF Extended
  <2>3. s \in Students
    BY <2>1 DEF PageRows
  <2> HIDE DEF e
  <2>4. DOMAIN expiresat' = DOMAIN expiresat \cup {s} /\ DOMAIN orders' = DOMAIN orders
    BY <2>1
  <2>5. expiresat' \in [DOMAIN expiresat' -> {"open", "running", "over"}]
    BY <2>1, <2>2 DEF PageRows
  <2>6. orders' \in [DOMAIN orders' -> [student : Students,
                                       status : {"created", "settled", "declined", "refunded"}]]
    BY <2>1 DEF PageRows
  <2>7. /\ orders'[o].student = s
        /\ \A x \in DOMAIN orders : x # o => orders'[x] = orders[x]
    BY <2>1 DEF PageRows
  <2>8. \A x \in DOMAIN orders' : orders'[x].status = "settled" => orders'[x].student \in DOMAIN expiresat'
    BY <2>4, <2>7 DEF PageRows
  <2> QED
    BY <1>1, <2>3, <2>4, <2>5, <2>6, <2>8 DEF PageRows
<1>4. ASSUME NEW o \in Order, CloseOrder(o) PROVE PageRows'
  BY <1>1, <1>4 DEF CloseOrder, PageRows
<1>5. ASSUME NEW s \in Account, RunOut(s) PROVE PageRows'
  BY <1>1, <1>5 DEF RunOut, PageRows
<1> QED
  BY <1>2, <1>3, <1>4, <1>5

QInv == PInv /\ BInv /\ PageRows

LEMMA StepRows ==
    ASSUME PInv, PageRows, [PortalNext]_allVars
    PROVE  PageRows'
<1>1. IInv /\ DemoSound /\ [Next]_vars
  BY PortalStepIsMembers DEF PInv
<1>2. CASE demo' = demo /\ session' = session /\ orders' = orders /\ expiresat' = expiresat
  BY <1>1, <1>2, RowsKept
<1>3. CASE \E r \in Request, u \in User : Register(r, u) \/ Convert(r, u)
  BY <1>2, <1>3 DEF Register, Convert, Invite
<1>4. CASE (\E r \in Request : Created(r) \/ Dropped(r)) \/ Elsewhere
  BY <1>2, <1>4 DEF Created, Dropped, Elsewhere, pages
<1>5. CASE \/ \E u \in User, role \in Role : Login(u, role)
           \/ \E u \in User : \/ WechatStudentPortalHandler(u) \/ WechatAgentPortalHandler(u)
                             \/ WechatUserPortalHandler(u)
           \/ Logout
  BY <1>1, <1>5, SessionRows
<1>6. CASE \/ \E o \in Order, s \in Account : PlaceOrder(o, s)
           \/ \E o \in Order, days \in {"open", "running"} : PayOrder(o, days)
           \/ \E o \in Order : CloseOrder(o)
           \/ \E s \in Account : RunOut(s)
  BY <1>6, OrderRows
<1>7. CASE \E a \in Account, s \in Account \cup {None} : UpdateAgentAttributes(a, s)
  BY <1>7 DEF UpdateAgentAttributes, PageRows, vars, Agents, Students, Accounts
<1>8. CASE UNCHANGED allVars
  BY <1>2, <1>8 DEF allVars, pages
<1> QED
  BY <1>3, <1>4, <1>5, <1>6, <1>7, <1>8 DEF PortalNext

LEMMA QInvAlways == PortalSpec => []QInv
<1>1. PortalInit => QInv
  <2> SUFFICES ASSUME PortalInit PROVE QInv
    OBVIOUS
  <2>1. PInv /\ BInv
    BY InitIInv, InitBrought DEF PortalInit, PInv, DemoSound
  <2>2. PageRows
    BY DEF PortalInit, PageRows
  <2> QED
    BY <2>1, <2>2 DEF QInv
<1>2. QInv /\ [PortalNext]_allVars => QInv'
  BY PortalNextPInv, StepBrought, StepRows DEF QInv, PInv
<1> QED
  BY <1>1, <1>2, PTL DEF PortalSpec

-----------------------------------------------------------------------------
(* What the pages show.                                                    *)

\* A set of numbers that is not empty has a least one.
LEMMA LeastOf ==
    ASSUME NEW S \in SUBSET Nat, S # {}
    PROVE  \E k \in S : \A j \in S : k <= j
<1>1. PICK k \in S : \A j \in S : ~ (<<j, k>> \in OpToRel(<, Nat))
  BY NatLessThanWellFounded, WFMin
<1>2. \A j \in S : ~ (j < k)
  BY <1>1 DEF OpToRel
<1> QED
  BY <1>2

\* One member of a student's account was a user before the others.
LEMMA OneEarliest ==
    ASSUME IInv, BInv, NEW s \in Students
    PROVE  \E u \in Registered : Earliest(s) = {u} /\ u \in MemberUsers(s)
<1> DEFINE S == {people[x.user].since : x \in MembersOf(s)}
<1>1. \A x \in MembersOf(s) : x.user \in Registered /\ people[x.user].since \in Nat
  BY DEF MembersOf, Registered, BInv, Dated, Person
<1>2. S \in SUBSET Nat /\ S # {}
  BY <1>1 DEF IInv, Founded, MembersOf
<1> HIDE DEF S
<1>3. PICK k \in S : \A j \in S : k <= j
  BY <1>2, LeastOf
<1>4. PICK x \in MembersOf(s) : people[x.user].since = k
  BY <1>3 DEF S
<1>5. \A y \in MembersOf(s) : people[x.user].since <= people[y.user].since
  BY <1>3, <1>4 DEF S
<1>6. ASSUME NEW y \in MembersOf(s), \A z \in MembersOf(s) : people[y.user].since <= people[z.user].since
      PROVE  y.user = x.user
  <2>1. people[y.user].since <= people[x.user].since /\ people[x.user].since <= people[y.user].since
    BY <1>4, <1>5, <1>6
  <2>2. people[y.user].since = people[x.user].since
    BY <1>1, <1>4, <2>1
  <2> QED
    BY <1>1, <1>4, <2>2 DEF BInv, Dated
<1>7. Earliest(s) = {x.user}
  BY <1>4, <1>5, <1>6 DEF Earliest, GetUser
<1> QED
  BY <1>1, <1>4, <1>7 DEF MemberUsers

LEMMA OrdersAreAttributed == QInv => OrdersAttributed
<1> SUFFICES ASSUME QInv, NEW o \in DOMAIN orders
             PROVE  LET s == orders[o].student
                        a == GetUpstreamAgentAttr(s).accountid
                        shown == {row \in ListRestrictedOrders(a) : row.order = o}
                        by == {u \in Registered :
                                 \E row \in ListRestrictedOrdersByReferral(a, u) : row.order = o}
                    IN  /\ Cardinality(shown) = 1
                        /\ \/ Cardinality(by \cap {x.user : x \in MembersOf(a)}) = 1
                           \/ \A u \in Earliest(s) :
                                 \/ u = Founder
                                 \/ \E g \in GetAgentAccountIdByUserId(u) \ {HQ} :
                                       /\ account[g].up = a
                                       /\ [user |-> u, account |-> g, role |-> "OWNER"] \notin roles
  BY DEF OrdersAttributed
<1> DEFINE s == orders[o].student
           a == account[s].up
           shown == {row \in ListRestrictedOrders(a) : row.order = o}
           by == {u \in Registered : \E row \in ListRestrictedOrdersByReferral(a, u) : row.order = o}
<1>1. /\ IInv /\ BInv /\ s \in Students
  BY DEF QInv, PInv, PageRows
<1>2. GetUpstreamAgentAttr(s).accountid = a
  BY DEF GetUpstreamAgentAttr, GetAgentAttr
<1>3. PICK e \in Registered : Earliest(s) = {e}
  BY <1>1, OneEarliest
<1> DEFINE v == people[e].referal
           line == [order |-> o, referal |-> v]
<1>4. shown = {line}
  <2>1. s \in Downstream(a)
    BY <1>1 DEF Downstream
  <2>2. \A row : row \in ListRestrictedOrders(a) <=>
           \E p \in DOMAIN orders : /\ orders[p].student \in Downstream(a)
                                    /\ \E u \in Earliest(orders[p].student) :
                                          row = [order |-> p, referal |-> people[u].referal]
    BY DEF ListRestrictedOrders, GetUser
  <2>3. \A row : row \in shown <=>
           \E u \in Earliest(s) : row = [order |-> o, referal |-> people[u].referal]
    BY <2>1, <2>2
  <2> QED
    BY <1>3, <2>3
<1>5. Cardinality(shown) = 1
  BY <1>4, FS_Singleton
<1>6. \A u : u \in by <=> u \in Registered /\ u = v
  <2>1. \A u, row : row \in ListRestrictedOrdersByReferral(a, u) /\ row.order = o
                      <=> row \in shown /\ row.referal = u
    BY DEF ListRestrictedOrdersByReferral
  <2> HIDE DEF shown
  <2>2. \A u : (\E row \in ListRestrictedOrdersByReferral(a, u) : row.order = o) <=> line.referal = u
    BY <1>4, <2>1
  <2> QED
    BY <2>2
<1>7. Attributed(e, a)
  BY <1>1, <1>3 DEF BInv, StudentsBrought
<1>8. CASE v \in MemberUsers(a)
  <2>1. v \in Registered
    BY <1>8 DEF MemberUsers, MembersOf, Registered
  <2>2. by \cap {x.user : x \in MembersOf(a)} = {v}
    BY <1>6, <1>8, <2>1 DEF MemberUsers
  <2>3. Cardinality(by \cap {x.user : x \in MembersOf(a)}) = 1
    BY <2>2, FS_Singleton
  <2> QED
    BY <1>2, <1>5, <2>3
<1>9. CASE v \notin MemberUsers(a)
  <2>1. \A u \in Earliest(s) :
           \/ u = Founder
           \/ \E g \in GetAgentAccountIdByUserId(u) \ {HQ} :
                 /\ account[g].up = a
                 /\ [user |-> u, account |-> g, role |-> "OWNER"] \notin roles
    BY <1>3, <1>7, <1>9 DEF Attributed
  <2> QED
    BY <1>2, <1>5, <2>1
<1> QED
  BY <1>8, <1>9

LEMMA TypedPages == QInv => PortalTypeOK
BY DEF QInv, PInv, DemoSound, BInv, Dated, PageRows, PortalTypeOK

\* The lists of an agent hold one row for a student for whom no two requests have read at
\* a time.
LEMMA OneRowEach ==
    ASSUME QInv, NEW s \in Students \ raced, NEW a, account[s].up = a
    PROVE  Cardinality({row \in ListStudentDetails(a, FALSE) : row.studentid = s}) = 1
<1>1. \A x, y \in MembersOf(s) : x # y => ~(x.role = y.role /\ x.role \in {"STUDENT", "GUARDIAN_PRIMARY"})
  BY DEF QInv, PInv, IInv, SeatsKept
<1>2. ASSUME NEW role \in {"STUDENT", "GUARDIAN_PRIMARY"}
      PROVE  \E v : MembersAs(s, role) = {v}
  <2> DEFINE them == {x.user : x \in {y \in MembersOf(s) : y.role = role}}
  <2>1. CASE them = {}
    BY <2>1 DEF MembersAs
  <2>2. ASSUME NEW v \in them PROVE them = {v}
    BY <1>1, <2>2
  <2> HIDE DEF them
  <2>3. MembersAs(s, role) = IF them = {} THEN {None} ELSE them
    BY DEF MembersAs, them
  <2> QED
    BY <2>1, <2>2, <2>3
<1>3. PICK v : MembersAs(s, "STUDENT") = {v}
  BY <1>2
<1>4. PICK g : MembersAs(s, "GUARDIAN_PRIMARY") = {g}
  BY <1>2
<1> DEFINE line == [studentid |-> s, student |-> v, guardian |-> g, purchased |-> Purchased(s)]
           lines == {row \in ListStudentDetails(a, FALSE) : row.studentid = s}
<1>5. \A row : row \in lines <=> row = line
  <2>1. \A row : row \in VStudentdetails <=>
           \E t \in Students : \E w \in MembersAs(t, "STUDENT"), h \in MembersAs(t, "GUARDIAN_PRIMARY") :
              row = [studentid |-> t, student |-> w, guardian |-> h, purchased |-> Purchased(t)]
    BY DEF VStudentdetails
  <2>2. \A row : row \in lines <=> row \in VStudentdetails /\ account[row.studentid].up = a /\ row.studentid = s
    BY DEF ListStudentDetails
  <2>3. line \in VStudentdetails /\ line.studentid = s
    BY <1>3, <1>4, <2>1
  <2>4. line \in lines
    <3> HIDE DEF line, lines
    <3> QED
      BY <2>2, <2>3
  <2>5. ASSUME NEW row \in VStudentdetails, row.studentid = s
        PROVE  row = line
    <3>1. PICK t \in Students : \E w \in MembersAs(t, "STUDENT"), h \in MembersAs(t, "GUARDIAN_PRIMARY") :
              row = [studentid |-> t, student |-> w, guardian |-> h, purchased |-> Purchased(t)]
      BY <2>1, <2>5
    <3>2. PICK w \in MembersAs(t, "STUDENT"), h \in MembersAs(t, "GUARDIAN_PRIMARY") :
              row = [studentid |-> t, student |-> w, guardian |-> h, purchased |-> Purchased(t)]
      BY <3>1
    <3>3. t = s
      BY <2>5, <3>2
    <3>4. w = v /\ h = g
      BY <1>3, <1>4, <3>3
    <3> QED
      BY <3>2, <3>3, <3>4
  <2> HIDE DEF line, lines
  <2> QED
    BY <2>2, <2>4, <2>5
<1>6. lines = {line}
  BY <1>5
<1> QED
  BY <1>6, FS_Singleton

\* Every student below an agent has a row there, and no other has.
LEMMA StudentsListed ==
    ASSUME NEW a
    PROVE  \A s : s \in Downstream(a) <=> \E row \in ListStudentDetails(a, FALSE) : row.studentid = s
<1>1. \A s, role : MembersAs(s, role) # {}
  BY DEF MembersAs
<1>2. \A row : row \in VStudentdetails <=>
         \E t \in Students : \E w \in MembersAs(t, "STUDENT"), h \in MembersAs(t, "GUARDIAN_PRIMARY") :
            row = [studentid |-> t, student |-> w, guardian |-> h, purchased |-> Purchased(t)]
  BY DEF VStudentdetails
<1>3. \A row : row \in ListStudentDetails(a, FALSE) <=>
         row \in VStudentdetails /\ account[row.studentid].up = a
  BY DEF ListStudentDetails
<1>4. ASSUME NEW s \in Downstream(a) PROVE \E row \in ListStudentDetails(a, FALSE) : row.studentid = s
  <2>1. PICK w \in MembersAs(s, "STUDENT"), h \in MembersAs(s, "GUARDIAN_PRIMARY") : TRUE
    BY <1>1
  <2> DEFINE row == [studentid |-> s, student |-> w, guardian |-> h, purchased |-> Purchased(s)]
  <2>2. s \in Students /\ account[s].up = a
    BY DEF Downstream
  <2>3. row \in VStudentdetails /\ row.studentid = s
    BY <1>2, <2>2
  <2> HIDE DEF row
  <2> QED
    BY <1>3, <2>2, <2>3
<1>5. ASSUME NEW row \in ListStudentDetails(a, FALSE) PROVE row.studentid \in Downstream(a)
  <2>1. row \in VStudentdetails /\ account[row.studentid].up = a
    BY <1>3, <1>5
  <2>2. PICK t \in Students : \E w \in MembersAs(t, "STUDENT"), h \in MembersAs(t, "GUARDIAN_PRIMARY") :
            row = [studentid |-> t, student |-> w, guardian |-> h, purchased |-> Purchased(t)]
    BY <1>2, <2>1
  <2>3. row.studentid = t
    BY <2>2
  <2> QED
    BY <2>1, <2>3 DEF Downstream
<1> QED
  BY <1>4, <1>5

LEMMA AgentPages ==
    ASSUME QInv, raced \cap Account = {}, NEW a \in Agents
    PROVE  /\ \A s \in Downstream(a) :
                /\ Cardinality({row \in ListStudentDetails(a, FALSE) : row.studentid = s}) = 1
                /\ [studentid |-> s, purchased |-> CheckEntitlementAvailable(s)]
                      \in ListStudentForPlanning(a, FALSE)
                /\ GetActiveEntitlements(s) => CheckEntitlementAvailable(s)
                /\ ExistStudent(s) <=> \E x \in ListStudents(a, FALSE) : x.account = s
           /\ {x.account : x \in TransformSearchStudentBody(a)}
                = {s \in Downstream(a) : s \in DOMAIN expiresat /\ ExistStudent(s)}
<1>1. /\ a # None /\ Students \subseteq Account
      /\ expiresat \in [DOMAIN expiresat -> {"open", "running", "over"}]
  BY DEF QInv, PInv, IInv, TypeOK, PageRows, Students, Agents
<1>2. ASSUME NEW s \in Downstream(a)
      PROVE  /\ Cardinality({row \in ListStudentDetails(a, FALSE) : row.studentid = s}) = 1
             /\ [studentid |-> s, purchased |-> CheckEntitlementAvailable(s)]
                   \in ListStudentForPlanning(a, FALSE)
             /\ GetActiveEntitlements(s) => CheckEntitlementAvailable(s)
             /\ ExistStudent(s) <=> \E x \in ListStudents(a, FALSE) : x.account = s
  <2>1. s \in Students \ raced /\ account[s].up = a
    BY <1>1 DEF Downstream
  <2>2. Cardinality({row \in ListStudentDetails(a, FALSE) : row.studentid = s}) = 1
    BY <2>1, OneRowEach
  <2>3. CheckEntitlementAvailable(s) = PlanningPurchased(s)
    BY <1>1 DEF CheckEntitlementAvailable, PlanningPurchased
  <2>4. PICK row \in ListStudentDetails(a, FALSE) : row.studentid = s
    BY <1>2, StudentsListed
  <2>5. [studentid |-> s, purchased |-> PlanningPurchased(s)] \in ListStudentForPlanning(a, FALSE)
    BY <2>4 DEF ListStudentForPlanning
  <2>6. GetActiveEntitlements(s) => CheckEntitlementAvailable(s)
    BY DEF GetActiveEntitlements, CheckEntitlementAvailable
  <2>7. ExistStudent(s) <=> \E x \in ListStudents(a, FALSE) : x.account = s
    BY <2>1 DEF ExistStudent, ListStudents, MembersOf
  <2> QED
    BY <2>2, <2>3, <2>5, <2>6, <2>7
<1>3. {x.account : x \in TransformSearchStudentBody(a)}
        = {s \in Downstream(a) : s \in DOMAIN expiresat /\ ExistStudent(s)}
  BY <1>1 DEF TransformSearchStudentBody, SearchStudents, ListStudents, Downstream, ExistStudent, MembersOf
<1> QED
  BY <1>2, <1>3

LEMMA MemberPages ==
    ASSUME QInv, NEW u \in Registered, NEW x \in Acting(u)
    PROVE  LET mine == {row.studentid : row \in ListStudentDetailsByReferral(x)} IN
           /\ ListOrdersByReferral(x) \subseteq ListOrders(x)
           /\ {orders[row.order].student : row \in ListOrdersByReferral(x)} \subseteq mine
           /\ {row.studentid : row \in PlanningByReferral(x)} = mine
           /\ {y.account : y \in ListMyInvitedStudents(x, TRUE)}
                = {s \in Downstream(x.account) : ExistStudent(s)}
           /\ u \notin raced => \A c \in ListInvitationCode(x) : c.account = x.account
<1> DEFINE mine == {row.studentid : row \in ListStudentDetailsByReferral(x)}
<1> DEFINE a == x.account
<1>1. IInv /\ BInv /\ PageRows
  BY DEF QInv, PInv
<1>2. x.user = u /\ a \in GetAgentAccountIdByUserId(u)
  BY DEF Acting, GetUserMdw, GetAccountByUserId
<1>3. u \notin raced => \A b \in GetAgentAccountIdByUserId(u) : b = a
  <2> SUFFICES ASSUME u \notin raced, NEW b \in GetAgentAccountIdByUserId(u) PROVE b = a
    OBVIOUS
  <2>1. PICK v \in roles : v.user = u /\ v.account = a /\ a \in Agents
    BY <1>2, LookUps
  <2>2. PICK w \in roles : w.user = u /\ w.account = b /\ b \in Agents
    BY LookUps
  <2>3. v = w
    BY <1>1, <2>1, <2>2 DEF IInv, OneHome
  <2> QED
    BY <2>1, <2>2, <2>3
<1>4. ListOrdersByReferral(x) \subseteq ListOrders(x)
  BY DEF ListOrdersByReferral, ListOrders, ListRestrictedOrdersByReferral
\* The first member of the student was brought in by u.
<1>5. {orders[row.order].student : row \in ListOrdersByReferral(x)} \subseteq mine
  <2> SUFFICES ASSUME NEW row \in ListOrdersByReferral(x) PROVE orders[row.order].student \in mine
    OBVIOUS
  <2>1. row.referal = u /\ row \in ListRestrictedOrders(a)
    BY <1>2 DEF ListOrdersByReferral, ListRestrictedOrdersByReferral
  <2>2. PICK o \in DOMAIN orders : /\ orders[o].student \in Downstream(a)
                                   /\ \E e \in Earliest(orders[o].student) :
                                         row = [order |-> o, referal |-> people[e].referal]
    BY <2>1 DEF ListRestrictedOrders, GetUser
  <2> DEFINE s == orders[o].student
  <2>3. PICK e \in Earliest(s) : row = [order |-> o, referal |-> people[e].referal]
    BY <2>2
  <2>4. PICK m \in MembersOf(s) : m.user = e
    BY <2>3 DEF Earliest
  <2>5. PICK line \in ListStudentDetails(a, FALSE) : line.studentid = s
    BY <2>2, StudentsListed
  <2>6. line \in ListStudentDetailsByReferral(x)
    BY <1>2, <2>1, <2>3, <2>4, <2>5 DEF ListStudentDetailsByReferral, ListStudentDetailsByReferal, GetUser
  <2>7. row.order = o
    BY <2>3
  <2> QED
    BY <2>5, <2>6, <2>7
<1>6. {row.studentid : row \in PlanningByReferral(x)} = mine
  <2> DEFINE brought(row) == \E y \in MembersOf(row.studentid) : GetUser(y.user).referal = x.user
             plan(row) == [studentid |-> row.studentid, purchased |-> PlanningPurchased(row.studentid)]
  <2>1. \A row : row \in ListStudentDetailsByReferral(x) <=> row \in ListStudentDetails(a, FALSE) /\ brought(row)
    BY DEF ListStudentDetailsByReferral, ListStudentDetailsByReferal
  <2>2. \A row : row \in PlanningByReferral(x) <=>
           brought(row) /\ \E line \in ListStudentDetails(a, FALSE) : row = plan(line)
    BY DEF PlanningByReferral, ListStudentForPlanningByReferral, ListStudentForPlanning
  <2>3. \A line : plan(line).studentid = line.studentid /\ (brought(plan(line)) <=> brought(line))
    OBVIOUS
  <2> HIDE DEF brought, plan
  <2>4. ASSUME NEW row \in PlanningByReferral(x) PROVE row.studentid \in mine
    <3>1. PICK line \in ListStudentDetails(a, FALSE) : brought(row) /\ row = plan(line)
      BY <2>2, <2>4
    <3>2. line \in ListStudentDetailsByReferral(x) /\ line.studentid = row.studentid
      BY <2>1, <2>3, <3>1
    <3> QED
      BY <3>2
  <2>5. ASSUME NEW line \in ListStudentDetailsByReferral(x)
        PROVE  \E row \in PlanningByReferral(x) : row.studentid = line.studentid
    BY <2>1, <2>2, <2>3, <2>5
  <2> QED
    BY <2>4, <2>5
<1>7. {y.account : y \in ListMyInvitedStudents(x, TRUE)} = {s \in Downstream(x.account) : ExistStudent(s)}
  BY DEF ListMyInvitedStudents, ListStudents, Downstream, ExistStudent, MembersOf
<1>8. u \notin raced => \A c \in ListInvitationCode(x) : c.account = x.account
  BY <1>1, <1>2, <1>3 DEF ListInvitationCode, ListInvitationCodesByUserId, IInv, CodesOfMembers
<1> QED
  BY <1>4, <1>5, <1>6, <1>7, <1>8

LEMMA PagesAgreeUnraced == QInv /\ raced \cap Account = {} => PagesAgree
<1> SUFFICES ASSUME QInv, raced \cap Account = {} PROVE PagesAgree
  OBVIOUS
<1>1. ASSUME NEW c \in codes
      PROVE  CheckDownstreamStudentExists(c) = {row.studentid : row \in ListStudentDetails(c.account, FALSE)}
  <2>1. PICK a : a = c.account
    OBVIOUS
  <2>2. Downstream(a) = {row.studentid : row \in ListStudentDetails(a, FALSE)}
    BY StudentsListed
  <2> QED
    BY <2>1, <2>2 DEF CheckDownstreamStudentExists, Downstream
<1>2. \A s \in Students : Purchased(s) => s \in DOMAIN expiresat
  BY DEF Purchased, QInv, PageRows
<1> QED
  BY <1>1, <1>2, AgentPages, MemberPages DEF PagesAgree

-----------------------------------------------------------------------------
(* The theorems.                                                           *)

\* The portal is an implementation of who belongs to which account: every step of the
\* pages, the sessions and the orders is a step of module Members or leaves it alone.
THEOREM PortalImplementsMembers == PortalSpec => Spec
<1>1. PortalInit => Init
  BY DEF PortalInit
<1>2. IInv /\ [PortalNext]_allVars => [Next]_vars
  BY PortalStepIsMembers
<1>3. PInv => IInv
  BY DEF PInv
<1> QED
  BY <1>1, <1>2, <1>3, PInvAlways, PTL DEF PortalSpec, Spec

\* As long as no two requests read for one user or one student account at a time, a
\* request acts as a member of the account it acts for, with the menus of the role the
\* user has there, and the shop orders for that student (GetUserMdw, GetRoleOfUser,
\* getUserViewPrivilege, CreateOrder).
THEOREM ActsAsMemberUnraced == PortalSpec => [](raced = {} => ActsAsMember)
<1>1. PInv => (raced = {} => ActsAsMember)
  BY ActsAsMemberWhenUnraced
<1> QED
  BY <1>1, PInvAlways, PTL

\* Every order is on the order page of one agent account, once, and on the page of the
\* member who brought the student in, but for the students nobody of that account brought
\* (listRestrictedOrders, listRestrictedOrdersByReferral); whatever requests overlap.
THEOREM OrdersAttributedAlways == PortalSpec => []OrdersAttributed
  BY OrdersAreAttributed, QInvAlways, PTL

\* As long as no two requests read for one student account at a time, the pages of an
\* account agree with each other and with the gate of the shop, also the pages of a user whom
\* an overlap has put into two agent accounts, of which each request takes one (v_studentdetails,
\* listStudentForPlanning, listStudents, searchStudents, listInvitationCodesByUserId,
\* checkDownstreamStudentExists).
THEOREM PagesAgreeAlways == PortalSpec => [](raced \cap Account = {} => PortalConsistent)
<1>1. QInv => (raced \cap Account = {} => PortalConsistent)
  BY TypedPages, PagesAgreeUnraced DEF PortalConsistent
<1> QED
  BY <1>1, QInvAlways, PTL
=============================================================================
