------------------------------- MODULE Portal -------------------------------
(***************************************************************************)
(* What a browser reaches.  A session holds a token with a user and an     *)
(* account; of every request the middleware GetUserMdw trusts only the     *)
(* user, and chooses the account by the role the request asks for, or, in  *)
(* demo mode, puts the student of a demo account in the place of both.     *)
(* The pages read who belongs to which account (module Members), by whom a *)
(* person was brought in, and what students ordered.                       *)
(***************************************************************************)
EXTENDS Members

CONSTANTS
    Order,       \* ids of orders
    Privilege,   \* privname
    Allowed,     \* roleprivilege with isallow, by accountkind and rolename
    Denied       \* and with isdeny

ASSUME PortalAssumption ==
    Allowed \in [Roletype \X Rolename -> SUBSET Privilege]
        /\ Denied \in [Roletype \X Rolename -> SUBSET Privilege]

VARIABLES
    people,      \* rows of users: when created, and referaluserid
    inviter,     \* invite_userid of a request under way
    demo,        \* agentattribute.demo_account of the agents with demo_flag
    session,     \* the token in the browser's session, or None
    orders,      \* rows of orders: the student's account, whether it is paid for
    expiresat    \* rows of studententitlement of the planning report

pages == <<people, inviter, demo, session, orders, expiresat>>
allVars == <<vars, pages>>

Person == [since : Nat, referal : User \cup {None}]
Token == [user : User, account : Account \cup {None}]
Role == {"agent", "student"}

PortalInit ==
    /\ Init
    /\ people = [u \in {Founder} |-> [since |-> 0, referal |-> None]]
    /\ inviter = [r \in Request |-> None]
    /\ demo = [a \in {} |-> None]
    /\ session = None
    /\ orders = [o \in {} |-> None]
    /\ expiresat = [s \in {} |-> "open"]

------------------------------------------------------------------------------
(* The middleware.                                                         *)

\* Users.createdat is when the user is; GetUser and listUsers read the rows.
GetUser(u) == people[u]

\* GetAccountByUserId: the accounts of the role it may answer with, of which it takes the
\* first row there is; {} where the look-up fails, which is where there is none.
GetAccountByUserId(u, role) ==
    IF role = "agent" THEN GetAgentAccountIdByUserId(u) ELSE GetStudentAccountIdByUserId(u)

\* getDemoAccount: its sub-query raises when the user has two rows of agents' roles, and the
\* caller takes that for no demo account.
GetDemoAccount(u) ==
    LET rows == {y \in roles : y.user = u /\ y.account \in Agents}
    IN  IF Cardinality(rows) = 1 THEN {demo[y.account] : y \in {z \in rows : z.account \in DOMAIN demo}}
        ELSE {}

\* getStudentUserByAccountID: one of the members, whichever comes first.
GetStudentUserByAccountID(s) == {x.user : x \in MembersOf(s)}

\* authService.DemoAccount: the pairs of account and user it may return.
DemoAccount(u) ==
    UNION {{[user |-> v, account |-> s] : v \in GetStudentUserByAccountID(s)} :
             s \in GetDemoAccount(u)}

\* Mutant: the user of the token stays.
GetUserMdw_KeepsUser(token, role) ==
    IF role = "student" /\ DemoAccount(token.user) # {}
    THEN {[user |-> token.user, account |-> x.account] : x \in DemoAccount(token.user)}
    ELSE {[user |-> token.user, account |-> a] :
            a \in IF role = "student" /\ GetAccountByUserId(token.user, role) = {} THEN {None}
                  ELSE GetAccountByUserId(token.user, role)}

\* GetUserMdw: the user and account a request acts as; {} when it is refused.  In the
\* branch that follows a vain look for a demo account the error of GetAccountByUserId is
\* assigned to a variable of that branch: the request goes on with an empty account.
GetUserMdw(token, role) ==
    IF role = "student" /\ DemoAccount(token.user) # {} THEN DemoAccount(token.user)
    ELSE {[user |-> token.user, account |-> a] :
            a \in IF role = "student" /\ GetAccountByUserId(token.user, role) = {} THEN {None}
                  ELSE GetAccountByUserId(token.user, role)}

\* Authorize checks the account's organisation first, which an empty account fails;
\* AuthorizeForStudent does not.
Authorize(x) == x.account # None
AuthorizeForStudent(x) == TRUE

\* AssignHttpsCookie and GetRoleOfUser: the role the user has in the account.
GetRoleOfUser(x) == {y.role : y \in {z \in roles : z.user = x.user /\ z.account = x.account}}

\* The kinds of account the menus of a side are for.
AcctKind(role) == IF role = "agent" THEN {"HQ", "AGENT"} ELSE {"STUDENT"}

\* getUserViewPrivilege: what some role of the user in accounts of the kinds allows, and
\* none denies.
GetUserViewPrivilege(x, kinds) ==
    LET uar == {<<account[y.account].kind, y.role>> :
                   y \in {z \in roles : z.user = x.user /\ account[z.account].kind \in kinds}}
    IN  (UNION {Allowed[r] : r \in uar}) \ (UNION {Denied[r] : r \in uar})

\* For which student the handlers of the shop order: CreateOrder takes the account the
\* request acts for; GenerateSimpleOrderWithPaymentMethod, with current_user, looks the
\* account of the user up again, and so does the gate of what the student is entitled to.
CreateOrder(x) == {x.account}
GenerateSimpleOrderWithPaymentMethod(x) == GetStudentAccountIdByUserId(x.user)
EntitlementGate(x) == GetStudentAccountIdByUserId(x.user)

\* getAgentAttr: the demo setting of an agent; getUpstreamAgentAttr: the row of the agent
\* whose ways to pay a student is offered.
GetAgentAttr(a) == [accountid |-> a, demo_account |-> IF a \in DOMAIN demo THEN demo[a] ELSE None]
GetUpstreamAgentAttr(a) == GetAgentAttr(account[a].up)

------------------------------------------------------------------------------
(* What changes the session.                                               *)

SetSession(token) ==
    /\ session' = token
    /\ UNCHANGED <<vars, people, inviter, demo, orders, expiresat>>

\* Login with phone and password, for the role of the header; also what SetJwtSession does
\* with the token that the scan of module ScanLogin ended with.
Login(u, role) ==
    /\ u \in Registered
    /\ \E a \in GetAccountByUserId(u, role) : SetSession([user |-> u, account |-> a])

\* WechatAgentPortalHandler: a user known by openid, as an agent.
WechatAgentPortalHandler(u) == Login(u, "agent")

\* WechatStudentPortalHandler: the demo account comes first; the user stays the agent's.
WechatStudentPortalHandler(u) ==
    /\ u \in Registered
    /\ \E a \in IF GetDemoAccount(u) # {} THEN GetDemoAccount(u)
                ELSE GetAccountByUserId(u, "student") : SetSession([user |-> u, account |-> a])

\* WechatUserPortalHandler: a token without an account.
WechatUserPortalHandler(u) == u \in Registered /\ SetSession([user |-> u, account |-> None])

\* Logout, or the token expires: ValidateJwtToken refuses it.
Logout == session # None /\ SetSession(None)

------------------------------------------------------------------------------
(* What changes what the pages show.                                       *)

\* A request of module Members reads; by is whom a new user's referaluserid will name.
Invite(r, by) ==
    /\ inviter' = [inviter EXCEPT ![r] = by]
    /\ UNCHANGED <<people, demo, session, orders, expiresat>>

\* register_user, where the invitation comes from a code, or from the link a member
\* made for an agent's account (Signup.vue puts no user into the one for a student's).
Register(r, u) ==
    /\ request[r] = None /\ u \notin Registered
    /\ \E g \in BOOLEAN :
        \/ \E c \in codes : RegisterByCode(r, u, c, g) /\ Invite(r, c.user)
        \/ \E a \in Agents, role \in Rolename, x \in roles :
              x.account = a /\ JoinAccount(r, u, a, g, role) /\ Invite(r, x.user)
        \/ \E a \in Students, role \in Rolename : JoinAccount(r, u, a, g, role) /\ Invite(r, None)

\* student_to_agent, agent_to_student and student_join_agent: the user's row stays.
Convert(r, u) ==
    /\ request[r] = None
    /\ \/ StudentToAgent(r, u)
       \/ \E a \in Agents : StudentJoinAgent(r, u, a)
       \/ \E g \in BOOLEAN : AgentToStudent(r, u, g)
    /\ Invite(r, None)

Created(r) ==
    LET i == request[r] IN
    /\ Commit(r)
    /\ people' = IF i.registers
                 THEN [v \in DOMAIN people \cup {i.user} |->
                         IF v = i.user THEN [since |-> Cardinality(DOMAIN people),
                                             referal |-> inviter[r]]
                         ELSE people[v]]
                 ELSE people
    /\ inviter' = [inviter EXCEPT ![r] = None]
    /\ UNCHANGED <<demo, session, orders, expiresat>>

Dropped(r) ==
    /\ Rollback(r) /\ inviter' = [inviter EXCEPT ![r] = None]
    /\ UNCHANGED <<people, demo, session, orders, expiresat>>

\* The other steps of Members.
Elsewhere ==
    /\ (\E u \in User : CompleteInvitationCodes(u)) \/ (\E a \in Account : Settle(a))
    /\ UNCHANGED pages

\* UpdateAgentAttributes, under trg_check_demo_account: the account is a student's.
UpdateAgentAttributes(a, s) ==
    /\ a \in Agents \ {HQ}
    /\ s \in Students \cup {None}
    /\ demo' = IF s = None THEN [b \in DOMAIN demo \ {a} |-> demo[b]]
               ELSE [b \in DOMAIN demo \cup {a} |-> IF b = a THEN s ELSE demo[b]]
    /\ UNCHANGED <<vars, people, inviter, session, orders, expiresat>>

\* generate_simple_order, pay_success, DeclineOrder and revoke_pay as the pages see them
\* (module Settlement has the whole).
PlaceOrder(o, s) ==
    /\ o \in Order \ DOMAIN orders /\ s \in Students
    /\ orders' = [x \in DOMAIN orders \cup {o} |->
                    IF x = o THEN [student |-> s, status |-> "created"] ELSE orders[x]]
    /\ UNCHANGED <<vars, people, inviter, demo, session, expiresat>>

\* CURRENT_DATE + validdays and expiresat + validdays: NULL, which never expires, where
\* the product states no days, and NULL for good.
Extended(s, days) ==
    IF days = "open" \/ (s \in DOMAIN expiresat /\ expiresat[s] = "open") THEN "open" ELSE "running"

PayOrder(o, days) ==
    /\ o \in DOMAIN orders /\ orders[o].status = "created"
    /\ orders' = [orders EXCEPT ![o].status = "settled"]
    /\ LET s == orders[o].student IN
       expiresat' = [x \in DOMAIN expiresat \cup {s} |->
                       IF x = s THEN Extended(s, days) ELSE expiresat[x]]
    /\ UNCHANGED <<vars, people, inviter, demo, session>>

CloseOrder(o) ==
    /\ o \in DOMAIN orders /\ orders[o].status \in {"created", "settled"}
    /\ orders' = [orders EXCEPT ![o].status = IF @ = "created" THEN "declined" ELSE "refunded"]
    /\ UNCHANGED <<vars, people, inviter, demo, session, expiresat>>

\* The days go by, or are taken back by a refund.
RunOut(s) ==
    /\ s \in DOMAIN expiresat /\ expiresat[s] = "running"
    /\ expiresat' = [expiresat EXCEPT ![s] = "over"]
    /\ UNCHANGED <<vars, people, inviter, demo, session, orders>>

PortalNext ==
    \/ \E u \in User, role \in Role : Login(u, role)
    \/ \E u \in User : \/ WechatStudentPortalHandler(u) \/ WechatAgentPortalHandler(u)
                      \/ WechatUserPortalHandler(u)
    \/ Logout
    \/ \E r \in Request, u \in User : Register(r, u) \/ Convert(r, u)
    \/ \E r \in Request : Created(r) \/ Dropped(r)
    \/ Elsewhere
    \/ \E a \in Account, s \in Account \cup {None} : UpdateAgentAttributes(a, s)
    \/ \E o \in Order, s \in Account : PlaceOrder(o, s)
    \/ \E o \in Order, days \in {"open", "running"} : PayOrder(o, days)
    \/ \E o \in Order : CloseOrder(o)
    \/ \E s \in Account : RunOut(s)

PortalSpec == PortalInit /\ [][PortalNext]_allVars

------------------------------------------------------------------------------
(* The pages of an agent account a, and of its member u.                   *)

Downstream(a) == {s \in Students : account[s].up = a}

\* The member who was a user first.
Earliest(s) ==
    {x.user : x \in {y \in MembersOf(s) :
        \A z \in MembersOf(s) : GetUser(y.user).since <= GetUser(z.user).since}}

\* Mutant: any member instead of the first.
ListRestrictedOrders_AnyMember(a) ==
    UNION {{[order |-> o, referal |-> GetUser(x.user).referal] :
              x \in MembersOf(orders[o].student)} :
             o \in {o \in DOMAIN orders : orders[o].student \in Downstream(a)}}

\* listRestrictedOrders: the orders of the students below a, with who brought in the
\* first member.
ListRestrictedOrders(a) ==
    UNION {{[order |-> o, referal |-> GetUser(u).referal] : u \in Earliest(orders[o].student)} :
             o \in {o \in DOMAIN orders : orders[o].student \in Downstream(a)}}

\* listRestrictedOrdersByReferral
ListRestrictedOrdersByReferral(a, u) ==
    {row \in ListRestrictedOrders(a) : row.referal = u}

\* v_studentdetails and listStudentDetails: the rows of the students below a, and with
\* head_quarter of all.
Purchased(s) ==
    \E o \in DOMAIN orders : orders[o].student = s /\ orders[o].status \in {"paid", "settled"}

MembersAs(s, role) ==
    LET them == {x.user : x \in {y \in MembersOf(s) : y.role = role}}
    IN  IF them = {} THEN {None} ELSE them

VStudentdetails ==
    UNION {{[studentid |-> s, student |-> v, guardian |-> g, purchased |-> Purchased(s)] :
              v \in MembersAs(s, "STUDENT"), g \in MembersAs(s, "GUARDIAN_PRIMARY")} :
             s \in Students}

ListStudentDetails(a, headQuarter) ==
    {row \in VStudentdetails : headQuarter \/ account[row.studentid].up = a}

\* listStudentDetailsByReferal: those of whom u brought in a member.
ListStudentDetailsByReferal(a, u) ==
    {row \in ListStudentDetails(a, FALSE) :
        \E x \in MembersOf(row.studentid) : GetUser(x.user).referal = u}

\* checkEntitlementAvailable and listEntitlement of those that are valid.
CheckEntitlementAvailable(s) == s \in DOMAIN expiresat /\ expiresat[s] \in {"open", "running"}

\* Mutant: an entitlement without expiry is overlooked, as in getActiveEntitlements.
PlanningPurchased_Expiring(s) == s \in {x \in DOMAIN expiresat : expiresat[x] = "running"}

\* The column "purchased" of listStudentForPlanning, a query of its own.
PlanningPurchased(s) == s \in {x \in DOMAIN expiresat : expiresat[x] # "over"}

\* listStudentForPlanning
ListStudentForPlanning(a, headQuarter) ==
    {[studentid |-> row.studentid, purchased |-> PlanningPurchased(row.studentid)] :
       row \in ListStudentDetails(a, headQuarter)}

\* listStudentForPlanningByReferral
ListStudentForPlanningByReferral(a, u) ==
    {row \in ListStudentForPlanning(a, FALSE) :
        \E x \in MembersOf(row.studentid) : GetUser(x.user).referal = u}

\* getActiveEntitlements compares with the expiry and overlooks the one that has none.
GetActiveEntitlements(s) == s \in DOMAIN expiresat /\ expiresat[s] = "running"

\* listStudents, the choice of an inventory order's student: accounts with a student.
ListStudents(a, all) ==
    {x \in roles : x.role = "STUDENT" /\ x.account \in Students
                   /\ (all \/ account[x.account].up = a)}

\* searchStudents: of these, the ones that were ever entitled to something.
SearchStudents(a, all) == {x \in ListStudents(a, all) : x.account \in DOMAIN expiresat}

\* GetRoleOfUser's existstudent.
ExistStudent(s) == \E x \in MembersOf(s) : x.role = "STUDENT"

\* checkDownstreamStudentExists: the students below the account of code c.
CheckDownstreamStudentExists(c) == {s \in Students : account[s].up = c.account}

\* listInvitationCodesByUserId
ListInvitationCodesByUserId(u) == {c \in codes : c.user = u}

\* The agent's handlers ask for the account and the user that a request acts as.
ListOrders(x) == ListRestrictedOrders(x.account)
ListOrdersByReferral(x) == ListRestrictedOrdersByReferral(x.account, x.user)
ListStudentDetailsByReferral(x) == ListStudentDetailsByReferal(x.account, x.user)
PlanningByReferral(x) == ListStudentForPlanningByReferral(x.account, x.user)
ListMyInvitedStudents(x, current_account) == ListStudents(x.account, ~current_account)
TransformSearchStudentBody(upstreamaccount) ==
    SearchStudents(upstreamaccount, upstreamaccount = None)
ListInvitationCode(x) == ListInvitationCodesByUserId(x.user)

\* As whom an agent's requests act after a login.
Acting(u) == GetUserMdw([user |-> u, account |-> None], "agent")

------------------------------------------------------------------------------
(* Properties.                                                             *)

PortalTypeOK ==
    /\ people \in [Registered -> Person]
    /\ inviter \in [Request -> User \cup {None}]
    /\ DOMAIN demo \subseteq Agents /\ \A a \in DOMAIN demo : demo[a] \in Students
    /\ session \in Token \cup {None}
    /\ DOMAIN orders \subseteq Order
    /\ \A o \in DOMAIN orders : orders[o].student \in Students
    /\ DOMAIN expiresat \subseteq Students

\* Whatever the browser logged in as, and however memberships and the demo setting have
\* changed since: a request acts as a member of the account it acts for, so that its role
\* can be looked up and the menus are those of that role; in an agent's account only as
\* the user who logged in; as somebody else only in the demo account that the agent's own
\* settings show; and without an account only if Authorize would have turned it away.
\* The handlers of the shop that take the account and those that look it up order for the
\* same student, and the gate asks what that one is entitled to.
ActsAsMember ==
    session # None => \A role \in Role : \A x \in GetUserMdw(session, role) :
        /\ Authorize(x) =>
              /\ GetRoleOfUser(x) # {}
              /\ GetUserViewPrivilege(x, AcctKind(role))
                   = UNION {Allowed[<<account[x.account].kind, r>>] \ Denied[<<account[x.account].kind, r>>] :
                              r \in GetRoleOfUser(x)}
        /\ role = "agent" => x.user = session.user /\ x.account \in Agents
        /\ x.user # session.user =>
              \E y \in GetUserMdw(session, "agent") : GetAgentAttr(y.account).demo_account = x.account
        /\ ~Authorize(x) => role = "student" /\ GetStudentAccountIdByUserId(x.user) = {}
        /\ role = "student" /\ Authorize(x) =>
              /\ CreateOrder(x) = GenerateSimpleOrderWithPaymentMethod(x)
              /\ CreateOrder(x) = EntitlementGate(x)

\* Every order is on the order page of one agent account, once: the one by whose settings
\* the student was offered the ways to pay.  It is on the page of
\* exactly one member, the one who brought the student in, unless nobody did (the
\* founder), or the student's first member joined an agent account by a link and opened
\* the student's account from there: then the order is on no member's page.
OrdersAttributed ==
    \A o \in DOMAIN orders :
        LET s == orders[o].student
            a == GetUpstreamAgentAttr(s).accountid
            shown == {row \in ListRestrictedOrders(a) : row.order = o}
            by == {u \in Registered : \E row \in ListRestrictedOrdersByReferral(a, u) : row.order = o}
        IN  /\ Cardinality(shown) = 1
            /\ Cardinality(by \cap {x.user : x \in MembersOf(a)}) = 1
               \/ \A u \in Earliest(s) :
                     \/ u = Founder
                     \/ \E g \in GetAgentAccountIdByUserId(u) \ {HQ} :
                           /\ account[g].up = a
                           /\ [user |-> u, account |-> g, role |-> "OWNER"] \notin roles

\* The pages agree: every student's account is one row of its agent's list; the planning
\* page says "purchased" where the student's own request passes the gate, also of those
\* whose entitlement counts as active; who is on a member's own order page is on that
\* member's own student pages and on the account's order page; the pages that list by the
\* STUDENT role leave out the accounts of guardians alone and no others; a code on a user's
\* page is one for the account the user's requests act for, unless two requests read for the
\* user at a time, and the sign-up form looks for a name among the students that account sees.
PagesAgree ==
    /\ \A a \in Agents :
         /\ \A s \in Downstream(a) :
              /\ Cardinality({row \in ListStudentDetails(a, FALSE) : row.studentid = s}) = 1
              /\ [studentid |-> s, purchased |-> CheckEntitlementAvailable(s)]
                    \in ListStudentForPlanning(a, FALSE)
              /\ GetActiveEntitlements(s) => CheckEntitlementAvailable(s)
              /\ ExistStudent(s) <=> \E x \in ListStudents(a, FALSE) : x.account = s
         /\ {x.account : x \in TransformSearchStudentBody(a)}
              = {s \in Downstream(a) : s \in DOMAIN expiresat /\ ExistStudent(s)}
    /\ \A u \in Registered : \A x \in Acting(u) :
         LET mine == {row.studentid : row \in ListStudentDetailsByReferral(x)} IN
         /\ ListOrdersByReferral(x) \subseteq ListOrders(x)
         /\ {orders[row.order].student : row \in ListOrdersByReferral(x)} \subseteq mine
         /\ {row.studentid : row \in PlanningByReferral(x)} = mine
         /\ {y.account : y \in ListMyInvitedStudents(x, TRUE)}
              = {s \in Downstream(x.account) : ExistStudent(s)}
         /\ u \notin raced => \A c \in ListInvitationCode(x) : c.account = x.account
    /\ \A c \in codes :
         /\ CheckDownstreamStudentExists(c)
              = {row.studentid : row \in ListStudentDetails(c.account, FALSE)}
    /\ \A s \in Students : Purchased(s) => s \in DOMAIN expiresat

\* What a request shows and whom it acts for.
PortalConsistent == PortalTypeOK /\ PagesAgree
=============================================================================
