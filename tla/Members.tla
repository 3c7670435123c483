------------------------------- MODULE Members -------------------------------
(***************************************************************************)
(* Who belongs to which account.  A person registers with an invitation    *)
(* code or by joining an account (register_user), a student becomes an     *)
(* agent or joins the agent above (student_to_agent, student_join_agent),  *)
(* an agent opens a student account (agent_to_student).  Every new row of  *)
(* useraccountrole passes the trigger enforce_role_constraints, which      *)
(* counts the rows it can see.  The transactions are READ COMMITTED and    *)
(* lock nothing, so a request reads in one step and its rows appear in     *)
(* another.                                                                *)
(***************************************************************************)
EXTENDS Naturals, FiniteSets, FiniteSetsExt

CONSTANTS
    User,          \* the people, each with a phone and an openid
    Account,       \* ids of accounts
    HQ,            \* the account of the head quarter
    Founder,       \* its owner
    Request,       \* the requests under way at a time
    None,          \* NULL
    MaxUserCount   \* account.max_user_count; 0 is no limit

ASSUME MembersAssumption ==
    /\ HQ \in Account /\ Founder \in User
    /\ None \notin Account \cup User /\ User \cap Account = {}
    /\ MaxUserCount \in Nat

Roletype == {"HQ", "AGENT", "STUDENT"}
Rolename == {"OWNER", "ADMIN", "STUDENT", "GUARDIAN_PRIMARY", "GUARDIAN_SUPPLEMENT"}
Accountstatus == {"INIT", "ACTIVE"}

VARIABLES
    account,   \* rows of account: kind, upstreamaccount, status
    roles,     \* rows of useraccountrole
    codes,     \* rows of invitationcode
    request,   \* what a request is about to commit
    raced      \* history: users and student accounts two requests read for at a time

vars == <<account, roles, codes, request, raced>>

AccountRow == [kind : Roletype, up : Account \cup {None}, status : Accountstatus]
Useraccountrole == [user : User, account : Account, role : Rolename]
Invitationcode == [user : User, account : Account, creates : {"AGENT", "STUDENT"}]

Init ==
    /\ account = [a \in {HQ} |-> [kind |-> "HQ", up |-> None, status |-> "ACTIVE"]]
    /\ roles = {[user |-> Founder, account |-> HQ, role |-> "OWNER"]}
    /\ codes = {[user |-> Founder, account |-> HQ, creates |-> k] : k \in {"AGENT", "STUDENT"}}
    /\ request = [r \in Request |-> None]
    /\ raced = {}

------------------------------------------------------------------------------
(* What a transaction reads.                                               *)

Accounts == DOMAIN account
Agents == {a \in Accounts : account[a].kind \in {"HQ", "AGENT"}}
Students == Accounts \ Agents

MembersOf(a) == {x \in roles : x.account = a}
Registered == {x.user : x \in roles}

\* getAgentAccountIdByUserId and getStudentAccountIdByUserId: with more than one answer the
\* reader of a page takes one of them, and a function of the database raises.
GetAgentAccountIdByUserId(u) == {x.account : x \in {y \in roles : y.user = u}} \cap Agents
\* Guardians are overlooked.
GetStudentAccountIdByUserId_Pupil(u) ==
    {x.account : x \in {y \in roles : y.user = u /\ y.role = "STUDENT"}} \cap Students
GetStudentAccountIdByUserId(u) == {x.account : x \in {y \in roles : y.user = u}} \cap Students

RoleTaken(a, role) == \E x \in MembersOf(a) : x.role = role

\* enforce_role_constraints without the rule for the owner.
RoleFits_Owners(u, a, kind, role) ==
    kind = "STUDENT" => (role \in {"STUDENT", "GUARDIAN_PRIMARY"} => ~RoleTaken(a, role))

\* enforce_role_constraints on a new row.  A student account has one student and
\* one primary guardian, at most its limit of members, and no supplementary
\* guardian second; an agent's has one owner, who is first.  A user belongs to one
\* account of a kind.
RoleFits(u, a, kind, role) ==
    IF kind = "STUDENT"
    THEN /\ role \in {"STUDENT", "GUARDIAN_PRIMARY"} => ~RoleTaken(a, role)
         /\ GetStudentAccountIdByUserId(u) = {}
         /\ MaxUserCount > 0 => Cardinality(MembersOf(a)) < MaxUserCount
         /\ Cardinality(MembersOf(a)) = 1 => role # "GUARDIAN_SUPPLEMENT"
    ELSE /\ RoleTaken(a, "OWNER") <=> role # "OWNER"
         /\ GetAgentAccountIdByUserId(u) = {}

\* An account may be opened below an active one (check_account_before_insert; the
\* partition it also asks for is Franchise's).  Agents begin INIT.
MayOpen(up) == up # None => account[up].status = "ACTIVE"
Opened(kind, up) ==
    [kind |-> kind, up |-> up, status |-> IF kind = "STUDENT" THEN "ACTIVE" ELSE "INIT"]

------------------------------------------------------------------------------
(* Requests.  What one read and will insert: a role, perhaps an account (row), *)
(* perhaps a new user.                                                     *)

Insert == [user : User, account : Account, role : Rolename, opens : BOOLEAN,
           row : AccountRow, registers : BOOLEAN]

Pending == {request[r] : r \in {q \in Request : request[q] # None}}

\* Ids are fresh: no account has this one, and no request is about to give it.
Fresh == Account \ (Accounts \cup {i.account : i \in Pending})

Read(r, i) ==
    /\ request[r] = None
    /\ RoleFits(i.user, i.account, i.row.kind, i.role)
    /\ request' = [request EXCEPT ![r] = i]
    /\ raced' = raced \cup {x \in {i.user, i.account} \ Agents :
                              \E p \in Pending : x \in {p.user, p.account}}
    /\ UNCHANGED <<account, roles, codes>>

\* The role of a newcomer to a student account: the student, or a guardian, the
\* first of whom is the primary one.
StudentRole(a, guardian) ==
    CASE ~guardian                        -> "STUDENT"
      [] guardian /\ RoleTaken(a, "GUARDIAN_PRIMARY") -> "GUARDIAN_SUPPLEMENT"
      [] OTHER                            -> "GUARDIAN_PRIMARY"

\* register_user by a code: a new account under the code's account, with its owner,
\* student or primary guardian.
RegisterByCode(r, u, c, guardian) ==
    /\ c \in codes /\ u \notin Registered
    /\ c.creates = "AGENT" => ~guardian
    /\ MayOpen(c.account)
    /\ \E a \in Fresh :
         Read(r, [user |-> u, account |-> a, opens |-> TRUE, registers |-> TRUE,
                  row |-> Opened(c.creates, c.account),
                  role |-> IF c.creates = "AGENT" THEN "OWNER" ELSE StudentRole(a, guardian)])

\* register_user of a newcomer to an account: a student's, or an agent's with the
\* role that was offered.
JoinAccount(r, u, a, guardian, role) ==
    /\ a \in Accounts /\ u \notin Registered
    /\ a \in Agents => ~guardian /\ role \in {"OWNER", "ADMIN"}
    /\ a \in Students => role = StudentRole(a, guardian)
    /\ Read(r, [user |-> u, account |-> a, opens |-> FALSE, registers |-> TRUE,
                row |-> account[a], role |-> role])

\* student_join_agent: only the agent directly above the student, never as owner.
StudentJoinAgent(r, u, a) ==
    /\ u \in Registered /\ GetAgentAccountIdByUserId(u) = {}
    /\ a \in Accounts /\ account[a].kind = "AGENT"
    /\ \E s \in GetStudentAccountIdByUserId(u) : account[s].up = a
    /\ Read(r, [user |-> u, account |-> a, opens |-> FALSE, registers |-> FALSE,
                row |-> account[a], role |-> "ADMIN"])

\* student_to_agent: a new agent account beside the student's, under the same agent.
\* With two student accounts the look-up of the agent raises.
StudentToAgent(r, u) ==
    /\ u \in Registered /\ GetAgentAccountIdByUserId(u) = {}
    /\ Cardinality(GetStudentAccountIdByUserId(u)) = 1
    /\ \E s \in GetStudentAccountIdByUserId(u), a \in Fresh :
         /\ MayOpen(account[s].up)
         /\ Read(r, [user |-> u, account |-> a, opens |-> TRUE, registers |-> FALSE,
                     row |-> Opened("AGENT", account[s].up), role |-> "OWNER"])

\* The agent's student account opens below the agent itself.
AgentToStudent_Below(r, u, guardian) ==
    /\ u \in Registered /\ GetStudentAccountIdByUserId(u) = {}
    /\ \E g \in GetAgentAccountIdByUserId(u), a \in Fresh :
         /\ MayOpen(g)
         /\ Read(r, [user |-> u, account |-> a, opens |-> TRUE, registers |-> FALSE,
                     row |-> Opened("STUDENT", g), role |-> StudentRole(a, guardian)])

\* agent_to_student: a new student account beside the agent's, under the same agent;
\* for a member of the head quarter under the head quarter.
AgentToStudent(r, u, guardian) ==
    /\ u \in Registered /\ GetStudentAccountIdByUserId(u) = {}
    /\ Cardinality(GetAgentAccountIdByUserId(u)) = 1
    /\ \E g \in GetAgentAccountIdByUserId(u), a \in Fresh :
         LET up == IF account[g].up = None THEN HQ ELSE account[g].up
         IN /\ MayOpen(up)
            /\ Read(r, [user |-> u, account |-> a, opens |-> TRUE, registers |-> FALSE,
                        row |-> Opened("STUDENT", up), role |-> StudentRole(a, guardian)])

\* The codes of a newly registered member of an agent or of the head quarter.
NewCodes(i) ==
    IF i.registers /\ i.row.kind # "STUDENT"
    THEN {[user |-> i.user, account |-> i.account, creates |-> k] : k \in {"AGENT", "STUDENT"}}
    ELSE {}

\* The rows appear; or the unique phone, or the unique (account, user, role), is
\* taken by now, or the statement fails, and none does.
Commit(r) ==
    /\ request[r] # None
    /\ LET i == request[r]
           row == [user |-> i.user, account |-> i.account, role |-> i.role]
       IN /\ row \notin roles
          /\ i.registers => i.user \notin Registered
          /\ account' = IF i.opens THEN [a \in Accounts \cup {i.account} |->
                                           IF a = i.account THEN i.row ELSE account[a]]
                        ELSE account
          /\ roles' = roles \cup {row}
          /\ codes' = codes \cup NewCodes(i)
    /\ request' = [request EXCEPT ![r] = None]
    /\ UNCHANGED raced

Rollback(r) ==
    /\ request[r] # None /\ request' = [request EXCEPT ![r] = None]
    /\ UNCHANGED <<account, roles, codes, raced>>

\* CompleteInvitationCodes: the codes a user lacks, for the agent account the user
\* belongs to; without one the insert fails (accountid is NOT NULL).
CompleteInvitationCodes(u) ==
    /\ GetAgentAccountIdByUserId(u) # {}
    /\ \E a \in GetAgentAccountIdByUserId(u) :
         codes' = codes \cup {[user |-> u, account |-> a, creates |-> k] :
                    k \in {c \in {"AGENT", "STUDENT"} :
                             \A x \in codes : ~(x.user = u /\ x.creates = c)}}
    /\ UNCHANGED <<account, roles, request, raced>>

\* The head quarter settles an agent's initial franchise order (module Franchise).
Settle(a) ==
    /\ a \in Accounts /\ account[a].status = "INIT"
    /\ account' = [account EXCEPT ![a].status = "ACTIVE"]
    /\ UNCHANGED <<roles, codes, request, raced>>

Next ==
    \/ \E r \in Request, u \in User, g \in BOOLEAN :
          \/ \E c \in codes : RegisterByCode(r, u, c, g)
          \/ \E a \in Account, role \in Rolename : JoinAccount(r, u, a, g, role)
          \/ AgentToStudent(r, u, g)
    \/ \E r \in Request, u \in User :
          StudentToAgent(r, u) \/ \E a \in Account : StudentJoinAgent(r, u, a)
    \/ \E r \in Request : Commit(r) \/ Rollback(r)
    \/ \E u \in User : CompleteInvitationCodes(u)
    \/ \E a \in Account : Settle(a)

Spec == Init /\ [][Next]_vars

------------------------------------------------------------------------------
(* What the head quarter finds.                                            *)

\* searchAgentsWithAttributes, without a filter: an agent account, once per owner, with
\* the owner's phone.
SearchAgentsWithAttributes ==
    {[accountid |-> x.account, owner |-> x.user] :
        x \in {y \in roles : y.role = "OWNER" /\ account[y.account].kind = "AGENT"}}

------------------------------------------------------------------------------
(* Properties.                                                             *)

\* Every variable holds what its declaration says, and roles and codes are of
\* accounts there are.
TypeOK ==
    /\ Accounts \subseteq Account /\ HQ \in Accounts
    /\ \A a \in Accounts : account[a] \in AccountRow
    /\ roles \subseteq [user : User, account : Accounts, role : Rolename]
    /\ codes \subseteq [user : User, account : Accounts, creates : {"AGENT", "STUDENT"}]
    /\ request \in [Request -> Insert \cup {None}]
    /\ raced \subseteq User \cup Account

\* An agent's account, and the head quarter's, always has exactly one owner,
\* however its requests overlap: the owner comes with the account.
OneOwner ==
    \A a \in Agents : Cardinality({x \in MembersOf(a) : x.role = "OWNER"}) = 1

\* A user belongs to at most one agent account and one student account, so that
\* a login finds the account, unless two requests read for the user at a time.
OneHome ==
    \A u \in Registered \ raced :
        \A x, y \in {z \in roles : z.user = u} :
            (x.account \in Agents <=> y.account \in Agents) => x = y

\* A student account keeps to its limit of members, has one student and one primary
\* guardian at most, and of two members one is the student, unless two requests read
\* for the account at a time.
SeatsKept ==
    \A a \in Students \ raced :
        /\ MaxUserCount > 0 => Cardinality(MembersOf(a)) <= MaxUserCount
        /\ \A x, y \in MembersOf(a) :
              x # y => ~(x.role = y.role /\ x.role \in {"STUDENT", "GUARDIAN_PRIMARY"})
        /\ Cardinality(MembersOf(a)) >= 2 => RoleTaken(a, "STUDENT")

\* Every account hangs below an agent of the tree that leads to the head quarter,
\* and never below a student or an agent who was not settled.
Rooted ==
    \A a \in Accounts \ {HQ} :
        account[a].up \in Agents /\ account[account[a].up].status = "ACTIVE"

\* Somebody with both kinds of account is no own upstream: the student account is
\* under the agent's upstream, or under the agent account the student joined, or in
\* the head quarter's; unless two requests read for the user at a time.
SameUpstream ==
    \A u \in Registered \ raced :
        \A g \in GetAgentAccountIdByUserId(u), s \in GetStudentAccountIdByUserId(u) :
            \/ account[s].up = account[g].up
            \/ account[s].up = g /\ [user |-> u, account |-> g, role |-> "ADMIN"] \in roles
            \/ account[s].up = HQ /\ g = HQ

\* A code opens accounts below the agent account of the user who hands it out.
CodesOfMembers ==
    \A c \in codes : c.account \in GetAgentAccountIdByUserId(c.user)

\* The head quarter's editor finds every agent account once, under an owner who gets to it
\* by logging in, unless two requests read for the owner at a time.
AgentsFound ==
    \A a \in Agents \ {HQ} :
        /\ Cardinality({row \in SearchAgentsWithAttributes : row.accountid = a}) = 1
        /\ \A row \in SearchAgentsWithAttributes :
              row.accountid = a /\ row.owner \notin raced => GetAgentAccountIdByUserId(row.owner) = {a}

\* The tables fit together: accounts have the owners and members they may have, hang in
\* the tree and are found.
Consistent == TypeOK /\ OneOwner /\ SeatsKept /\ Rooted /\ AgentsFound

\* What a user with accounts brings in is attributed to the tree it belongs to.
LinkedRight == SameUpstream /\ CodesOfMembers
=============================================================================
