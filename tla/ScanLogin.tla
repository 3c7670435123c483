------------------------------ MODULE ScanLogin ------------------------------
(***************************************************************************)
(* Logging in and signing up by a WeChat QR code.  A page opens a session  *)
(* in the server's memory (services/cache/wechat_auth.go) and shows a QR   *)
(* code; the phone that scans it calls WechatRedirectHandler, which marks  *)
(* the session and finds or registers the user; the page polls             *)
(* GetWechatAuthStatus for its token.  A session is a heap object that the *)
(* cache finds by its id: a scan keeps the pointer it read first, while    *)
(* every notification looks the id up again.                               *)
(***************************************************************************)
EXTENDS Naturals, Sequences, FiniteSets

CONSTANTS
    Person,     \* WeChat users, by openid
    Phone,      \* phone numbers a signup form may hold
    Scan,       \* the requests of WechatRedirectHandler, one each
    Nobody,     \* the openid of an entry nobody has scanned
    Owners,     \* the users there are at first: owners of an agent account
    Pupils,     \* and those of a student account
    MaxInits    \* bound: how often the page opens its session

ASSUME PersonsAssumption ==
    /\ Owners \subseteq Person /\ Pupils \subseteq Person \ Owners
    /\ IsFiniteSet(Owners) /\ IsFiniteSet(Pupils)
    /\ Nobody \notin Person
    /\ MaxInits \in Nat

Stage == {"login", "signup"}
Role  == {"AGENT", "STUDENT"}
WechatAuthState == {"INIT", "CODE_SCANNED", "AUTHORIZED", "FAILED"}

\* The form of the page (UserBasicInfo): a phone, the kind of the account, and
\* whether an agent was invited to a role of an existing account.  A login page
\* sends an empty one.
BasicInfo == [phone : Phone \cup {Nobody}, role : Role, join : BOOLEAN]
EmptyForm == [phone |-> Nobody, role |-> "AGENT", join |-> FALSE]

\* A channel that holds one message.
ChannelSize_One == 1

ChannelSize == 3

VARIABLES
    heap,     \* the UserAuthInfo objects made, in order
    session,  \* the object the cache holds under the page's session id, or 0
    webpage,  \* the page: what it shows and the token it was given
    scan,     \* the requests of the phones
    poll,     \* the page's request for the status
    users,    \* rows of users: openid, phone, role of the account
    stale,    \* history: rows inserted after another, unseen by their own check
    crossed   \* history: a scan met another, or an answer, under way

loginVars == <<heap, session, webpage, scan, poll, users, stale, crossed>>

UserAuthInfo ==
    [OpenId : Person \cup {Nobody}, Status : WechatAuthState, BasicInfo : BasicInfo,
     IsFromWechatClient : BOOLEAN, sent : 0..ChannelSize, by : SUBSET Person]

\* A user is a row; the owners and the pupils have no phone of the forms.
UserRow == [openid : Person, phone : Phone \cup Person, role : Role]

Working == {"mark", "exchange", "look", "register", "insert", "authorize", "fail"}

\* A request that has not come, is held by a full channel, or was cut off by a
\* panic or a restart.
Gone(at) == [at |-> at, who |-> Nobody, entry |-> 0, knew |-> 0]
IdlePoll == [at |-> "idle", entry |-> 0]

LoginInit ==
    /\ heap = << >> /\ session = 0
    /\ webpage \in [at : {"form"}, stage : Stage, role : Role, inplace : BOOLEAN,
                 token : {Nobody}]
    /\ webpage.stage = "login" => ~webpage.inplace
    /\ scan = [s \in Scan |-> Gone("idle")]
    /\ poll = IdlePoll
    /\ users = {[openid |-> p, phone |-> p, role |-> "AGENT"] : p \in Owners}
          \cup {[openid |-> p, phone |-> p, role |-> "STUDENT"] : p \in Pupils}
    /\ stale = {} /\ crossed = FALSE

------------------------------------------------------------------------------
(* The cache.                                                              *)

\* InitUserAuthInfoCache: a new object under the page's id.  The page opens its
\* session when it is shown and again when its form is submitted again.
InitUserAuthInfoCache(form) ==
    /\ webpage.at \in {"form", "shown"} /\ Len(heap) < MaxInits
    /\ form \in IF webpage.stage = "login" THEN {EmptyForm}
               ELSE {f \in BasicInfo : /\ f.role = webpage.role /\ f.phone \in Phone
                                       /\ f.join => f.role = "AGENT"}
    /\ heap' = Append(heap, [OpenId |-> Nobody, Status |-> "INIT", BasicInfo |-> form,
                             IsFromWechatClient |-> webpage.inplace, sent |-> 0, by |-> {}])
    /\ session' = Len(heap) + 1
    /\ webpage' = [webpage EXCEPT !.at = "shown"]
    /\ UNCHANGED <<scan, poll, users, stale, crossed>>

\* ClearUserAuthInfoCache: whatever is under the id goes.
ClearUserAuthInfoCache == session' = 0

End_Always(s) ==
    /\ scan' = [scan EXCEPT ![s] = [Gone("done") EXCEPT !.entry = scan[s].entry]]
    /\ ClearUserAuthInfoCache

\* A handler of the phone ends; opened on the phone itself it also clears the
\* session, deferred since the scan was marked.
End(s) ==
    /\ scan' = [scan EXCEPT ![s] = [Gone("done") EXCEPT !.entry = scan[s].entry]]
    /\ IF webpage.inplace THEN ClearUserAuthInfoCache ELSE UNCHANGED session

\* CacheWechatAuthStatus: the status is set on the object under the id now, then
\* the channel is sent to, which nobody receives from: the fourth send blocks.
\* With no object the handler panics.
CacheWechatAuthStatus(s, status) ==
    IF session = 0
    THEN End(s) /\ UNCHANGED heap
    ELSE /\ heap' = [heap EXCEPT
               ![session].Status = status,
               ![session].sent = IF @ = ChannelSize THEN @ ELSE @ + 1,
               ![session].by = IF status = "AUTHORIZED" THEN @ \cup {scan[s].who} ELSE @]
         /\ IF heap[session].sent = ChannelSize
            THEN scan' = [scan EXCEPT ![s] = Gone("stuck")] /\ UNCHANGED session
            ELSE End(s)

------------------------------------------------------------------------------
(* WechatRedirectHandler: the phone's request.                             *)

Rows(p) == {u \in users : u.openid = p}

\* A scan meets another at work, or an answer to the page being made.
Meets(s) == poll.at = "token" \/ \E o \in Scan \ {s} : scan[o].at \in Working

\* A person scans the code the page shows, or has it open on the phone: the
\* pointer under the id is read, which is nil without a session.
WechatRedirectHandler(s, p) ==
    /\ scan[s].at = "idle" /\ webpage.at # "form"
    /\ scan' = [scan EXCEPT ![s] = [at |-> "mark", who |-> p, entry |-> session, knew |-> 0]]
    /\ crossed' = (crossed \/ Meets(s))
    /\ UNCHANGED <<heap, session, webpage, poll, users, stale>>

\* CacheWechatAuthStatus looks the id up again and marks the session it finds.
\* Without one the handler panics, before its clearing is deferred.
MarkScanned(s) ==
    /\ scan[s].at = "mark"
    /\ IF session = 0
       THEN scan' = [scan EXCEPT ![s] = Gone("cut")] /\ UNCHANGED heap
       ELSE /\ heap' = [heap EXCEPT ![session].Status = "CODE_SCANNED",
                                    ![session].sent = IF @ = ChannelSize THEN @ ELSE @ + 1]
            /\ scan' = [scan EXCEPT ![s] = IF heap[session].sent = ChannelSize
                                         THEN Gone("stuck") ELSE [@ EXCEPT !.at = "exchange"]]
    /\ crossed' = (crossed \/ Meets(s))
    /\ UNCHANGED <<session, webpage, poll, users, stale>>

\* The code is exchanged for the openid, which is written on the object the
\* pointer names before anything is checked; or WeChat refuses, or the pointer is
\* nil and the handler panics.
GetUserInfoWithCode(s) ==
    /\ scan[s].at = "exchange"
    /\ \/ End(s) /\ UNCHANGED heap
       \/ /\ scan[s].entry # 0
          /\ heap' = [heap EXCEPT ![scan[s].entry].OpenId = scan[s].who]
          /\ scan' = [scan EXCEPT ![s].at = "look"]
          /\ UNCHANGED session
    /\ UNCHANGED <<webpage, poll, users, stale, crossed>>

\* GetUserByOpenid takes the first row it finds, and a login GetAccountByUserId of
\* that user.  A login of a stranger is reported as failed, one without an account
\* of the required role is not; a signup of a known user is sent away.
GetUserByOpenid(s) ==
    /\ scan[s].at = "look"
    /\ \/ /\ Rows(scan[s].who) = {}
          /\ scan' = [scan EXCEPT ![s].at = IF webpage.stage = "login" THEN "fail" ELSE "register"]
          /\ UNCHANGED session
       \/ \E u \in Rows(scan[s].who) :
             IF webpage.stage = "login" /\ u.role = webpage.role
             THEN scan' = [scan EXCEPT ![s].at = "authorize"] /\ UNCHANGED session
             ELSE End(s)
    /\ UNCHANGED <<heap, webpage, poll, users, stale, crossed>>

\* The checks of register_user, for every form: the branch that would skip them
\* asks that no column of the invitation code is null, and expiresat always is.
MayRegister(p, form) == Rows(p) = {} /\ \A u \in users : u.phone # form.phone

\* RegisterUser with the form of the object the pointer names: its checks read
\* what is committed.
RegisterUser(s) ==
    /\ scan[s].at = "register"
    /\ IF MayRegister(scan[s].who, heap[scan[s].entry].BasicInfo)
       THEN /\ scan' = [scan EXCEPT ![s].at = "insert", ![s].knew = Cardinality(users)]
            /\ UNCHANGED session
       ELSE End(s)
    /\ UNCHANGED <<heap, webpage, poll, users, stale, crossed>>

\* Its insertion, later: of phone and openid only the phone is unique in the table.
\* On a phone a new account's owner is sent on without a word to the session.
InsertUser(s) ==
    /\ scan[s].at = "insert"
    /\ LET form == heap[scan[s].entry].BasicInfo
           row  == [openid |-> scan[s].who, phone |-> form.phone, role |-> form.role]
           sentOn == webpage.inplace /\ (form.role = "STUDENT" \/ ~form.join)
       IN IF \E u \in users : u.phone = form.phone
          THEN End(s) /\ UNCHANGED <<users, stale>>
          ELSE /\ users' = users \cup {row}
               /\ stale' = IF Cardinality(users) > scan[s].knew THEN stale \cup {row} ELSE stale
               /\ IF sentOn THEN End(s)
                  ELSE scan' = [scan EXCEPT ![s].at = "authorize", ![s].knew = 0]
                       /\ UNCHANGED session
    /\ UNCHANGED <<heap, webpage, poll, crossed>>

Authorize(s) ==
    /\ scan[s].at = "authorize" /\ CacheWechatAuthStatus(s, "AUTHORIZED")
    /\ UNCHANGED <<webpage, poll, users, stale, crossed>>

Fail(s) ==
    /\ scan[s].at = "fail" /\ CacheWechatAuthStatus(s, "FAILED")
    /\ UNCHANGED <<webpage, poll, users, stale, crossed>>

------------------------------------------------------------------------------
(* The page.                                                               *)

\* The page is let in as soon as the code is scanned.
GetWechatAuthStatus_Scanned ==
    /\ webpage.at = "shown" /\ ~webpage.inplace /\ poll.at = "idle" /\ session # 0
    /\ heap[session].OpenId # Nobody
    /\ poll' = [at |-> "token", entry |-> session]
    /\ UNCHANGED <<heap, session, webpage, scan, users, stale, crossed>>

\* GetWechatAuthStatus reads the session; unless it is authorized the answer is
\* its status, and a login page gives up when that is FAILED.
GetWechatAuthStatus ==
    /\ webpage.at = "shown" /\ ~webpage.inplace /\ poll.at = "idle" /\ session # 0
    /\ CASE heap[session].Status = "AUTHORIZED" ->
              poll' = [at |-> "token", entry |-> session] /\ UNCHANGED webpage
         [] heap[session].Status = "FAILED" /\ webpage.stage = "login" ->
              webpage' = [webpage EXCEPT !.at = "stopped"] /\ UNCHANGED poll
         [] OTHER -> UNCHANGED <<webpage, poll>>
    /\ UNCHANGED <<heap, session, scan, users, stale, crossed>>

\* The token is for the user of the openid on the object read; a login page asks
\* as an agent, and one without an agent account makes the handler fail.  The
\* answer for a student carries no token.  Then the session is cleared by its id.
\* The answer may be lost on its way.
GenerateJwtToken ==
    LET info == heap[poll.entry]
        asked == IF webpage.stage = "login" THEN "AGENT" ELSE webpage.role
        rows  == Rows(info.OpenId)
    IN /\ poll.at = "token" /\ poll' = IdlePoll
       /\ \/ /\ rows = {} \/ \E u \in rows : asked = "AGENT" /\ u.role # "AGENT"
             /\ UNCHANGED <<session, webpage>>
          \/ /\ \E u \in rows : asked = "STUDENT" \/ u.role = "AGENT"
             /\ IF info.IsFromWechatClient THEN UNCHANGED session ELSE ClearUserAuthInfoCache
             /\ \/ webpage.at = "shown" /\ webpage' = [webpage EXCEPT !.at = "in",
                      !.token = IF asked = "AGENT" THEN info.OpenId ELSE Nobody]
                \/ UNCHANGED webpage
       /\ UNCHANGED <<heap, scan, users, stale, crossed>>

\* After five minutes a login page stops asking; a signup page is left.
LeavePage ==
    /\ webpage.at = "shown" /\ webpage' = [webpage EXCEPT !.at = "stopped"]
    /\ UNCHANGED <<heap, session, scan, poll, users, stale, crossed>>

\* After half an hour the cache drops the session.
Expire ==
    /\ session # 0 /\ ClearUserAuthInfoCache
    /\ UNCHANGED <<heap, webpage, scan, poll, users, stale, crossed>>

\* The cache is in the server's memory, and so are its handlers.
Restart ==
    /\ ClearUserAuthInfoCache
    /\ poll' = IdlePoll
    /\ scan' = [s \in Scan |-> IF scan[s].at \in Working \cup {"stuck"}
                               THEN Gone("cut") ELSE scan[s]]
    /\ UNCHANGED <<heap, webpage, users, stale, crossed>>

ServeScan(s) ==
    \/ MarkScanned(s) \/ GetUserInfoWithCode(s) \/ GetUserByOpenid(s)
    \/ RegisterUser(s) \/ InsertUser(s) \/ Authorize(s) \/ Fail(s)

LoginNext ==
    \/ \E form \in BasicInfo : InitUserAuthInfoCache(form)
    \/ \E s \in Scan, p \in Person : WechatRedirectHandler(s, p)
    \/ \E s \in Scan : ServeScan(s)
    \/ GetWechatAuthStatus \/ GenerateJwtToken
    \/ LeavePage \/ Expire \/ Restart

\* Handlers run on, and a page that is shown asks every three seconds.
LoginFairness ==
    /\ \A s \in Scan : WF_loginVars(ServeScan(s))
    /\ WF_loginVars(GetWechatAuthStatus) /\ WF_loginVars(GenerateJwtToken)

LoginSpec == LoginInit /\ [][LoginNext]_loginVars /\ LoginFairness

------------------------------------------------------------------------------
(* Properties.                                                             *)

\* Every variable holds what its declaration says; a request that works has an entry.
LoginTypeOK ==
    /\ heap \in Seq(UserAuthInfo) /\ session \in 0..Len(heap) /\ Len(heap) <= MaxInits
    /\ webpage \in [at : {"form", "shown", "in", "stopped"}, stage : Stage, role : Role,
                 inplace : BOOLEAN, token : Person \cup {Nobody}]
    /\ \A s \in Scan :
          /\ scan[s].at \in Working \cup {"idle", "stuck", "done", "cut"}
          /\ scan[s].entry \in 0..Len(heap)
          /\ scan[s].at \in Working => scan[s].who \in Person
          /\ scan[s].at \in Working \ {"mark", "exchange"} => scan[s].entry # 0
    /\ poll \in [at : {"idle"}, entry : {0}] \cup [at : {"token"}, entry : 1..Len(heap)]
    /\ users \subseteq UserRow /\ stale \subseteq users
    /\ crossed \in BOOLEAN

\* A page is let in as somebody whose own scan was authorized, unless one scan
\* began before another, or the answer to the page, had ended: the openid is on
\* the entry before its user is looked for.
TokenAuthorized ==
    webpage.token # Nobody /\ ~crossed => \E e \in 1..Len(heap) : webpage.token \in heap[e].by

\* One WeChat user is registered once, unless a registration was committed between
\* the check and the insertion of another: two scans of one openid with different
\* phones, since the openid is not unique in users.
RegisteredOnce ==
    \A u, w \in users : u # w /\ u.openid = w.openid => u \in stale \/ w \in stale

\* On the phone itself a scan that ended left the session it read no longer open.
InplaceCleared ==
    \A s \in Scan :
        scan[s].at = "done" /\ webpage.inplace /\ scan[s].entry # 0 => session # scan[s].entry

\* Nothing takes away an entry nobody was authorized on, but time, a restart, the
\* phone it is opened on, or an answer for the entry it replaced: the answer reads
\* one object and clears whatever the id names then.
LiveEntryKept ==
    [][session # 0 /\ session' = 0 /\ heap[session].by = {}
         => \/ Expire \/ Restart \/ heap[session].IsFromWechatClient
            \/ poll.at = "token" /\ poll.entry # session]_loginVars

\* The scan that is alone on its entry answers its phone: it sends at most twice,
\* and only a channel of others' messages can hold it for ever.
LoneScanEnds ==
    \A s \in Scan :
        scan[s].at \in Working ~> \/ scan[s].at \in {"done", "cut"}
                                  \/ \E o \in Scan \ {s} : scan[o].at # "idle"

\* An authorized session reaches the page that is shown: it is let in, unless the
\* answer is lost, the session goes or is scanned again, or a row of the user has
\* no account of the role the page asks for.
PageLearns ==
    \A p \in Person \ Pupils :
        (/\ webpage.at = "shown" /\ ~webpage.inplace /\ session # 0
         /\ heap[session].Status = "AUTHORIZED" /\ heap[session].OpenId = p
         /\ Rows(p) # {} /\ \A u \in Rows(p) : u.role = "AGENT")
        ~> (\/ webpage.at # "shown" \/ session = 0
            \/ heap[session].Status # "AUTHORIZED" \/ heap[session].OpenId # p)

\* Who is let in was authorized, who signs up is registered once, and a phone leaves no
\* session behind.
LoginConsistent == LoginTypeOK /\ TokenAuthorized /\ RegisteredOnce /\ InplaceCleared

\* Both ends of a scan are answered: the phone's request and the page.
BothAnswered == LoneScanEnds /\ PageLearns
=============================================================================
