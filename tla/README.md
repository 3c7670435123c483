# A verification of xiandeng

Xiandeng sells courses through a tree of agents. A student under an agent orders
a course; when the order is paid, the price is distributed over the agents above
the student, entitlements are granted, stock or a coupon is used up and an external
partner may be charged with a delivery; an order may later be refunded or its awards
revoked. Agents join the tree, pay for their place in it, upgrade, buy stock and
withdraw what they earned. Nearly all of that logic is PL/pgSQL in
`src/xiandeng-db/migrations` (functions and triggers, the last definition of each in
migration order counts); `src/xiandeng-server` (Go) calls it inside transactions, keeps
some state of its own (the sessions of QR-code logins) and serves the Vue pages of
`src/xiandeng-web`, whose buttons decide which calls can be made in which state; a worker
(`src/xiandeng-server/cmd/task`) takes the tasks of the planning reports off a queue.

This directory holds TLA+ modules for those parts, TLC configurations that check them on
small instances, and TLAPS proofs. `PROJECT.json` lists components, runs, mutants,
hazards, findings, theorems and the source lines behind every definition.

To repeat everything: `tlc -config X.cfg MCM.tla` for every configuration `X.cfg`, where
`MCM` is the model-checking module of its name (`Settlement_limit.cfg` and
`Settlement_stale.cfg` go with `MCSettlement.tla`, `PayRace_*.cfg` with
`MCPayRace.tla`), and `tlapm` on each module whose name ends in `Proofs`. No run takes more than a few minutes on two workers.

## Inventory

| component | state | operations | modules |
|---|---|---|---|
| Account tree | `account.upstreamaccount`, type, status, partition | `get_upstreamaccount_chain` | `AgentTree`, `Franchise` |
| Orders and settlement | `orders`, `orderproduct`, `balanceactivity`, `account.balance*`, `partitionaward`, `studententitlement`, `qianliaocoupon` | `generate_simple_order`, `pay_success`, `revoke_pay`, status triggers, UpdateOrder, DeclineOrder, SimpleDeclineOrder, UpdateOrderActualPrice, ConfirmOfflineOrderSucceeded, the pages' queries | `Settlement`, `SettlementPages` |
| The same transactions, concurrent | row versions and locks of `orders`, `account`, `studententitlement`; rows of `balanceactivity` | the statements of `pay_success` and `revoke_pay`, commit, roll-back, deadlock | `PayRace` |
| Deliveries | `projectdelivery` | created by `pay_success`; `confirm_delivery`, `revoke_delivery`, list | `Settlement`, `SettlementPages` |
| Triple-cycle award | `triplecycleaward`, `tripleawardhistory`, `account.balancetriple(lock)` | numbered by `assign_award`; unlocked by sales, rolled back by revocations | `Franchise`, `Settlement` |
| Liuliu statements | `liuliustatement` | insert trigger that matches and force settles | `Settlement` |
| WeChat pay | trade at the gateway, cashier page | prepay, poll (`ConfirmOrderSucceeded`), `ClosePayment` | `WechatGateway`; effect on the order in `Settlement` |
| Order coupons | `ordercoupon`, `orderproduct.couponcode` | checks at generation, release on failure or refund, search | `Settlement`, `SettlementPages` |
| Product inventory | `productinventory`, `inventoryorder`, history | taken and given back by orders; top-up, amendment, purchase from the balance, gift of the head quarter, approval, decline, list | `Settlement`, `Wallet`, `WalletPages` |
| Withdrawals, adjustments | `withdraw`, `userwithdrawmethod`, `adjustment`, `balanceactivity` | request, lock, confirm, decline, adjust, the agent's bank cards, lists | `Wallet`, `WalletPages` |
| Franchise orders | `franchiseorder`, `triplecycleaward`, `partitionaward` | registration, side, upgrade, `assign_award`, the head quarter's editor, the agents' pages | `Franchise`, `FranchisePages` |
| Users, roles, invitation codes | `users`, `useraccountrole`, `invitationcode`, `account` | `register_user`, `student_join_agent`, `student_to_agent`, `agent_to_student`, role trigger, CompleteInvitationCodes | `Members` |
| Login and sign-up by QR code | sessions in the server's memory, `users` | init, scan, poll, expiry | `ScanLogin` |
| Sessions, request context, access control | the cookie's token, `agentattribute` (demo account), `roleprivilege` | portals, login, GetUserMdw, privileges, the lists an agent or student gets | `Portal` |
| Student profile and planning, task queue | `studentattribute`, queue, worker, the language model's service | questionnaire, report, wait for a task, worker | `Planning` |
| Organisations, pricing | `product`, `organization` | `get_product` | constants of `Settlement` |
| Task centre, publisher, mail, object store, WeChat's API, static content | | | not modelled, see below |

How they interact. Nearly all state that matters is in one PostgreSQL database; components
interact through rows and through functions calling one another inside one
transaction: the head quarter's approval changes the payment method, calls
`pay_success` and maybe `revoke_pay`; the insert of a statement does the same from a
trigger; `revoke_pay` calls `revoke_delivery`; a status update fires triggers that
update other orders and coupons; an award update fires triggers that update accounts
and the history that the roll-back reads; the insert of an account places a franchise
order; payments, withdrawals and stock meet in the columns of `account`. The actors are the
student's page, the agent's page, the head quarter's page, the poll of the WeChat cashier,
the phone that scans a code, the import of statements and the worker of the queue. Pages hold
what they loaded: a user can act on a status that has changed since.

Hard behaviours. The same order is paid by several actors; steps of the life cycle come
in every order the pages allow; pages are stale; failures inside a transaction are
sometimes swallowed; redundant copies (`partitionaward`, `tripleawardhistory`,
`balancetriple(lock)`, `balanceafter`) must agree with what they copy; balances cross
zero; limits and stock run out; transactions interleave under READ COMMITTED, and only a few
lock what they check; the gateway's answer is lost, the server stops, a worker
forgets a task; a session's object is replaced while a scan works on it. The list, line by
line, is `hazards` in `PROJECT.json`.

What makes each part correct, in a sentence: an order is distributed once and taken back
whole (settlement, its races); money is explained by rows, and no two steps spend the same
balance unless they overlapped in a way that is named (wallet); what the gateway has and what
the order says agree (gateway); whoever has somebody below is active, has a side and gets its
awards once and in turn (franchise); an account has its owner, its seats and its place in the
tree (members); a token is for who was authorised (scan); a request acts for a member of the
account, and an order is attributed to one agent (portal); a report is delivered, and about
what was submitted (planning).

## Modules

One module per component, a `...Pages` module beside it where its pages compute something
from the same tables, an `MC` module with the values of the instance. A `...Pages` module has
no variables: its operators are the queries, and its properties relate them to the state and
to one another, so that a query that counts or joins something else than the transactions do
is found in a reachable state.

A habit of all modules about concurrency: where the code reads, checks and then writes without
a lock, an operation has two actions, and a history variable (`raced`, `crossed`, `events`)
records which overlap has happened. A property then says *exactly* which overlap breaks what:
its premise excludes that one and no other. Those premises are the list of the races that the
code has.

**AgentTree** gives the tree as constants (`Upstream`, `AccountType`, `Partition`,
`Active`) and what `pay_success` computes from it: the chain of a student, who is paid
across levels (`CrossLevel`, the `award_layer` variable of the loop), who gets the
extension award and on which side (`ExtensionSide`, the `v_partition` carried from one
row to the next), and the checks of status and partition (`UpstreamReady`). The loop's
early exit once both kinds of award are given out changes nothing, since no later row
meets either condition, so the operators are given by quantifiers over the chain.

**Settlement** has two variables: `db`, a record with a field per table, and `today`.
Operators `SetStatus`, `Entitle`, `Distribute`, `MoveAward`, `PostDelivery`,
`ReverseRows`, ... each take a database to a database and stand for a statement with its
triggers; `Pay`, `Revoke`, `RevokeDeliveryOf` compose them as the functions do, with
`CanPay` and `CanRevoke` for the exceptions they raise. An action is a transaction: it
composes those operators, so that for example `ConfirmOfflineOrderSucceeded` is the method
update, then `Pay`, then perhaps `Revoke`, and nothing happens when any raises;
`InsertLiuliuStatement` keeps the method update when `Pay` raises, as the trigger does.

| action | code |
|---|---|
| `GenerateSimpleOrder` | `generate_simple_order`, from CreateOrder and GenerateSimpleOrderWithPaymentMethod |
| `UpdatePaymentMethod`, `ReportOfflinePayment` | UpdateOrder, as the payment drawer calls it |
| `UpdateOrderPrice` | UpdateOrderActualPrice |
| `PaySuccess` | the WeChat poll's success; the agent approving a student's inventory order |
| `ConfirmOfflineOrderSucceeded` | the head quarter's approve and force-settle buttons |
| `InsertLiuliuStatement` | `after_insert_liuliustatement` |
| `DeclineOrder`, `SimpleDeclineOrder`, `ClosePayment` | the three ways to end an open order |
| `RevokePay`, `ConfirmDelivery`, `RevokeDelivery` | the functions of those names |
| `NextDay` | CURRENT_DATE |

`FreshViews` chooses between users who act on what the database holds and users who act
on pages out of date; the server checks the status in none of the updates guarded by
`Seen`, so with `FreshViews = FALSE` those guards are simply true.

A `balanceactivity` row is a record with a `mark` for the prefixes by which `revoke_pay`
tells live rows from undone ones (`【已撤销】`) and reversals (`【撤销】`). Rows are a set:
`PaidOnce` and the invariants below make sure that no two equal rows are ever written,
and `LedgerExplainsBalances` would fail if one were.

What is abstracted: money is in cents; `balanceafter`, timestamps and texts are left out;
`get_product`'s price list is a constant (`Pricing`), a product has one row of each kind;
an order has one product, which the server enforces (`services/payment.go:41-44`); an order
has one delivery (so the run with stale pages, where an order could be paid twice while
open and collect a second delivery row, uses a product without delivery); statements match
an order by its price, so any statement the model allows is one of the right amount; the
status `success`, which no current code writes, and `test_mode`, which no caller sets, are
left out. The types of agents, their status and partitions are constants here; they change in
`Franchise`.

**SettlementPages** has the queries over the same tables: what a student may buy and has
bought, the head quarter's search (an empty method, a bound of zero and an empty list of
statuses mean "any"), the desks of an agent, of the owner of an award and of a delivery
partner, and the search of coupons.

**AwardBook** is what the settlement of orders promises, in two variables: the awards in
force of every order (`live`) and the orders whose awards were taken back (`closed`). An
order's awards are handed out all at once and once (`Distribute`), and taken back all at
once and for good (`TakeBack`); an approval that revokes in the same transaction closes the
order without awards (`Skip`). `Settlement` implements it, with `live` the plain rows of
`balanceactivity` and `closed` the orders with prefixed ones (`ImplementsBook`), and so do
the committed tables of `PayRace`.

**PayRace** runs the same two functions statement by statement, for the question that
`Settlement` cannot ask: what happens between the statements. `db.Begin` takes the default
isolation level, so a statement sees what was committed when it starts and its own
transaction's changes; a query locks nothing; an `UPDATE` takes its row's lock, waits for
whoever holds it, and then works on the new version. `table` and `ledger` are what is
committed, `draft` the versions with uncommitted changes (a session reads the draft of the
rows it holds, `Version`), `lock` who holds a row, `txn` what each session remembers: the
status it read (`v_order.status`), the debt it read (`v_return`), the row of the chain it is
at, the rows its cursor still has to undo. `Commit` and `Rollback` copy the rows a session
holds in one direction or the other; `Victim` is PostgreSQL's deadlock detector.

| action | code |
|---|---|
| `LockOrder` | the UPDATE of the payment method with which an approval begins |
| `Read`, `Check`, `Raise` | `SELECT INTO v_order`, then the exceptions; the activity check is a later query than the read |
| `Entitle` | the upsert of the entitlement, the first row an unlocked payment locks |
| `ReadOwed`, `PostAwards`, `Convert` | a row of the loop: the debt is read, awards are posted; on the row of the direct agent the coupon's agent is credited in between |
| `Settle`, `FailOther`, `FailedAll` | the final status and the limit trigger's UPDATE, row by row |
| `Fetch`, `Undo`, `UndoneAll` | the cursor of `revoke_pay` and its loop |
| `Prefix`, `Withdraw`, `Close` | the prefixes, the entitlement, the status |

A session is a confirmation (the poll of the WeChat cashier), a statement of an order that
is `liuliupay` already, an approval that settles by an offline method, or a revocation that
refunds. Left out: stock, deliveries and the triple-cycle award (whose rows are only touched
under locks that are modelled), approvals that revoke or leave the order paid, a statement
that changes the method. Runs differ in which sessions meet on which orders, so the kinds and
orders of sessions are constants.

**WechatGateway** is the cashier page (`page`), the calls the server is handling (`call`), the
orders table as far as it matters here (`order`, `endedBy`) and the gateway's own transactions
(`txn`, external: as the calls of `services/wechatpay.go` use them). A call is a sequence of
steps; `Crash` ends every call and rolls every open transaction back, and the gateway's answer
may be lost at each question.

| action | code |
|---|---|
| `CreateOrder`, `CreateWechatpayPrepay`, `BridgeOk`, `BridgeClose`, `Leave`, `ConfirmPayment` | the payment drawer and the cashier's JS bridge |
| `GetPaymentByOrderId`, `ConfirmPaid` | `ConfirmOrderSucceeded`: the query to the gateway, then `pay_success` |
| `FailOrder`, `CloseOrder`, `Commit`, `Rollback` | `ClosePayment`: the UPDATE, the gateway, the end of the transaction |
| `ConfirmOfflineOrderSucceeded`, `DeclineOrder` | the head quarter's desk |
| `Pay`, `Refund` | what happens at the gateway (external) |

**Wallet** has one agent and one product: withdrawals, top-ups, purchases from the balance and
approvals as two-step sessions (`CreateWithdraw`/`InsertWithdraw`,
`ConfirmWithdraw`/`PayWithdraw`, `TopUp`/`InsertTopUp`, `Purchase`/`SettlePurchase`,
`ConfirmInventoryOrder`/`GrantTopUp`), the calls that are one statement (`AmendTopUp`,
`HqInitiated`, `UpdateWithdrawStatus`, `UpdateInventoryOrderStatus`, and the three of the
bank cards, of which a withdrawal keeps the id), and `Move` for what
settlement and adjustments do to a column meanwhile. `posted` has the sum of the
`balanceactivity` rows by cause and column, so that column and rows can be compared;
halves are rounded as `numeric(_,2)` does, apart for the column and the row. **WalletPages** has
the lists of withdrawals, of activities and of stock.

**Franchise** grows the tree that `AgentTree` takes as given: `Register` (the insert of an
agent with its triggers), `UpdateAgentPartition`, `UpdateAgentTargettype`/`InsertUpgrade`,
`AssignAgentAward`/`Distribute` (the two halves of `assign_award`) and
`OpenEditor`/`UpdateAgentByHQ`, which saves a whole row that was loaded before.
**FranchisePages** has what an agent is told at login, the tree below it with what each side
has brought, its triple cycle and the head quarter's queue.

**Members** has the rows of `account`, `useraccountrole` and `invitationcode`. A request reads
and passes the trigger `enforce_role_constraints` in one step (`RegisterByCode`,
`JoinAccount`, `StudentJoinAgent`, `StudentToAgent`, `AgentToStudent`), and its rows appear in
another (`Commit`), where only unique indexes are checked again.

**Portal** EXTENDS `Members` and composes its steps with the tables that the pages read: who
brought whom in, the demo account, the cookie, orders and entitlements. `GetUserMdw` is the
middleware; `AuthorizeForStudent`, `GetUserViewPrivilege`, `CreateOrder`, `ListRestrictedOrders`,
`ListStudentForPlanning`, ... are what the handlers behind it compute.

**ScanLogin** models the cache of `services/cache/wechat_auth.go` as a heap of objects and the
one the session id names now, because the code does: a scan keeps the pointer it read first
while every notification looks the id up again, and the channel in an object holds three messages
that nobody receives. `WechatRedirectHandler` (the pointer), `MarkScanned` (the other look-up),
`GetUserInfoWithCode`, `GetUserByOpenid`, `RegisterUser` (the checks of `register_user`),
`InsertUser`, `Authorize`, `Fail` are the phone's request; `InitUserAuthInfoCache`,
`GetWechatAuthStatus`, `GenerateJwtToken`, `LeavePage` the page (`webpage`); `Expire` and `Restart`
empty the cache.

**Planning** has one student's row, the requests about it, the queue's tasks and the service
that writes the suggestion. `UpdateStudentAttr`, `SendProfileTask`, `CommitProfile`,
`RollbackProfile` are the submission of the questionnaire (the task is sent before the commit);
`OpenReport`, `GetStudentAttrs`, `UpdateStudentStudySuggestion`, `SendTask`, `SendFails`,
`WaitResult`, `TimeOut` the request for a report; `Take`, `MarkPending`, `ScrapeAndParse`,
`WorkerStops` the worker; `LlmWrites`, `LlmRefuses` the service (external); `Crash` the server.

**SettlementProofs** (also about `SettlementPages`), **PayRaceProofs**, **WalletProofs**,
**FranchiseProofs**, **PortalProofs** (with those about `Members`, which `Portal` extends) and
**PlanningProofs** hold the theorems about the modules they are named for, **WechatProofs** those
about `WechatGateway` and `ScanLogin` (whose names are told apart for it: `LoginSpec`),
**SumProofs** the lemmas about sums over finite sets. **MCSettlement**, **MCPayRace**,
**MCWallet**, **MCWechatGateway**, **MCFranchise**, **MCMembers**, **MCPortal**, **MCScanLogin**
and **MCPlanning** hold the values of the instances.

Operators with a name like `ConfirmWithdraw_AnyStatus` are what a definition would be with a
plausible mistake in the code; no specification uses them. Each property of a run is violated
when one of them takes the place of the definition it is named after (`mutants` in
`PROJECT.json`).

## Properties and runs

| run | question | distinct states |
|---|---|---|
| `limit` | a course with limit 1 and a delivery, every way of paying, current pages: `Consistent`, `BooksExplain`, `LimitKept`, `DeliveriesSound`, `StockExplained` | 50 313 |
| `stale` | pages out of date, a course without delivery, two days: `RevokedOrdersPayNobody`, `ReversalsMatch`, `PaidOnce`, `TripleBalancesMatchLocks`, `EntitlementCoversOrders`, `PartitionAwardMatchesLedger`, `ImplementsBook` | 51 140 |
| `race_serial` | two approvals of one order, a statement and a revocation of another, coupons crossing: `Consistent`, `ImplementsBook`, `EverySessionEnds` | 17 849 |
| `race_limit` | three approvals of two orders of one student at limit 1 and a revocation: `WithinLimit`, `GrantedPerOrder`, `FailedStaysFailed` | 2 929 |
| `race_twice` | two confirmations of one order: `DistributedOnce` | violated |
| `wallet` | two withdrawals, two inventory orders and a card, two calls at a time: `WalletConsistent`, `LedgerMatches`, `WithdrawalsSound`, `OnlyMovesUncover` | 446 804 |
| `gateway` | a page, the server and the gateway over calls that are late, lost or refused: `Consistent`, `GatewayPaymentStays`, `EverythingAnswered` | 149 900 |
| `franchise` | agents register, choose sides, upgrade and are edited while approvals overlap: `FranchiseConsistent`, `AwardsSound`, `AwardsTelescope` | 187 682 |
| `scan` | two phones at a page that opens its session again, with restarts: `LoginConsistent`, `LiveEntryKept`, `BothAnswered` | 261 997 |
| `members` | registrations, joins and conversions, two at a time: `Consistent`, `OneHome`, `LinkedRight` | 165 966 |
| `planning` | three requests on one student's suggestion, worker and service: `Consistent`, `FreshReport`, `EverythingEnds` | 143 520 |
| `portal` | two newcomers join, convert, log in, use demo accounts and order: `PortalConsistent`, `ActsAsMember`, `OrdersAttributed` | 11 846 |

A property with a broad name is a conjunction of named parts, each with a comment of its
own; a violated run names the part that fails by the state it shows. In short:

- **Settlement.** `PaidOnce`, `RevokedOrdersPayNobody`, `ReversalsMatch` and `ImplementsBook`
  say that an order is distributed once and taken back whole whatever statuses are written
  over it meanwhile; `BooksExplain`, `PartitionAwardMatchesLedger`, `TripleBalancesMatchLocks`
  that columns and copies agree with the rows; `LimitKept`, `EntitlementCoversOrders`,
  `DeliveriesSound` and `StockExplained` that students, partners and agents get what was paid
  for, no more, and see it on their pages.
- **PayRace.** Sessions that lock their order first are the single steps of `AwardBook`, and
  keep the limit; all of them end, although they deadlock; nothing is lost or left over.
- **Wallet.** `LedgerMatches` names the only two overlaps that part a column from its rows (a
  purchase that overwrites a change of the account, a withdrawal paid twice). `WithdrawalsSound`
  names those that let two withdrawals be open, or one be paid twice. `OnlyMovesUncover` says
  who may spend what an open withdrawal asks for. `WalletConsistent` has units granted once,
  the price of a purchase, the quantity the page offers, and that lists show the rows, cards
  included.
- **WechatGateway.** The order's status and the gateway's agree (`ClosedUnpaid`,
  `GatewayPaymentStays`), and what waits ends.
- **Franchise.** Whatever the order of registrations, approvals, upgrades and edits, the tree
  is one that `assign_award` does not fail on; awards are handed out once, in turn, on the right
  side; `AwardsTelescope` says what an approval pays in sum, without following its loop.
- **ScanLogin.** Who is let in was authorised, unless two scans crossed (`crossed` says how);
  a person is registered twice only where one form looked before the other inserted (`stale`);
  nobody but those named takes away a live entry; both ends of a scan are answered.
- **Members, Portal.** One owner, seats, a place in the tree, one home for everybody whose
  requests did not overlap; a request acts for a member of the account, or for a student in
  demo mode, although the token is old; an order is on one agent's page, under one member.
- **Planning.** A pending report has somebody at work on it, unless work was lost; it is about
  the questionnaire stored last, unless one was submitted meanwhile; whoever waits is told.

### Instances and why they are enough

`Settlement`: head quarter, an agent of each level in one chain, one student under the
lowest; one course, one coupon, one entitlement, one award linked to the lowest agent and
owned by the next; two orders. One chain of three levels reaches every branch of the
distribution loop (direct, across levels, extension on both conditions). Two orders
are what every pairwise interaction needs: two purchases against a limit of 1, a sale that
finishes a debt and one after it, one unit of stock for two orders, one order reviving an
entitlement that another's refund shortens. Amounts are chosen to cross boundaries: the
dealer's debt (50) is less than one return (100), the manager's equals it; the award (200)
is two returns, so that two sales reach exactly zero. `MaxDay` = 2, `Refund` = {30}, `Order` and
`Price` bound days, partial refunds, orders and the prices an agent types: {0, 700} in `limit`,
where an order is approved at price zero, priced and refunded, and {700} in `stale`.
The two orders are interchangeable, and both runs use that symmetry (they check safety only).

`PayRace`: two dealers under one manager and a student under each, so that chains meet in the
manager and each dealer can be the coupon's agent of the other's order: the smallest tree in
which two payments lock accounts in opposite orders. Three or four sessions are enough for a
session to wait on one that waits on a third.

`Wallet`: two withdrawals and two inventory orders, which are what "while one is open" needs,
two calls in flight at a time and three in all (`MaxCalls`, which also counts changes of
cards), one settlement or adjustment (`MaxMoves`). While there is a card no order is looked at
(`CardsApart`, a bound on the states explored: cards matter to withdrawals only). The opening balances (2, 1, 2 and 6), the
unit price (3), the amount (1) and the quantities (1 and 2) make a purchase take from one
column, from two or from all, an odd half be rounded, and a side be the smaller one. Amounts and
quantities are positive, which the drawer and the form of the web application ask for
(`BalanceStat.vue:211`, `InventoryOrder.vue:161`; the form does not while the maximum it has
loaded is zero, and the server never does): what an entry of zero or less does is not modelled.

`WechatGateway`: two orders of one page, two calls in flight, one poll (`MaxPolls`): a close
of the first order while the page is at the second, and a poll behind a close.

`gateway`, `scan` and `planning` check liveness, for which TLC's symmetry is not sound. Their
`NamesInOrder` has orders, scans, telephone numbers and requests of one kind, which differ in their
names only, come into use in one order. It leaves out only states that are those of another
behaviour under other names, and no step that fairness asks for: nobody has to begin anything.

`Franchise`: an agent who was approved once before and two newcomers below or beside it, two
approvals or upgrades in flight, two orders, one edit, `ExtensionLevel` 1. While the editor
is open one call is in flight at most (`OneBesideEditor`, a bound on the states explored).

`ScanLogin`: an owner, a pupil and a stranger (who have an agent's account, a student's, none),
two telephone numbers, two scans, two openings of the session (`MaxInits`).

`Members`: the founder, three people, two accounts to open, two requests at a time, two seats
in a student's account. `Portal`: the founder, two people, two accounts to open, one request
at a time (overlaps are `Members`' matter), one order; a behaviour has either a session and demo
settings or an order (`Apart`, a bound: no action or property reads both).

`Planning`: three requests of any three kinds, taken in one order of kinds (`Duties`), since
nothing tells requests of a kind apart; each sends a task at most. Three is a questionnaire,
a report asked for meanwhile and one more.

Deadlock is not checked where the system may stop: every order has ended and the days are
over (`Settlement`), all sessions, requests or scans have ended (`PayRace`, `Franchise`,
`Members`, `Portal`, `ScanLogin`, `Planning`). That none hangs before is what the liveness
properties say. In `Wallet` and `WechatGateway` somebody can always act.

### Fairness

Nothing in the code obliges anybody to pay, approve, scan or ask, and no module assumes it.
What has been taken up goes on:

- `PayRace`: weak fairness of the statements of each session, for once a transaction has begun
  the server sends its statements (most go with the function call, the rest follow it in the
  handler without waiting for a user), and of the deadlock detector, which PostgreSQL runs
  after `deadlock_timeout`. Beginning a transaction is not fair.
- `WechatGateway`: weak fairness of the handling of each call the server has taken, and of
  the page's poll, which is a timer. Nobody has to pay, confirm or close, and the gateway may
  answer anything; `Crash` may end all calls, so the properties speak of what is committed.
- `ScanLogin`: weak fairness of each request's handler and of the page's poll.
- `Planning`: weak fairness of the server's handling of a request, of the worker and of the
  model's service, each of which may fail instead. `Crash` and `WorkerStops` are not fair.

The other modules state no liveness.

## Proofs

All theorems hold for every value of the constants that satisfies the named assumptions of
the modules (which TLC also evaluates in the runs). Where a theorem needs more, it says so in
its statement: `FreshViews => (Spec => []P)`.

**SettlementProofs** proves, for every tree, price list, coupon list, opening balances and set
of orders, and for both values of `FreshViews`:

- `StaysConsistent`: `Spec => []Consistent`, the inductive invariant;
- `TypeCorrect` (`TypeOK`), `DistributedOnce` (`PaidOnce`), `RevocationComplete`
  (`RevokedOrdersPayNobody`), `ReversalsExact` (`ReversalsMatch`), `RefundReleases`
  (`RefundReleasesOrder`), as its consequences.

Why the invariant has the parts it has. `PaidOnce` is not inductive alone: a payment adds the
rows of an order that has none (`HasActivity`), so it needs only that those rows are
distinct by account and source; a revocation replaces live rows by a revoked one and its
reversal, which needs `ReversalsMatch` to know that no other revoked row with that key is
there; a delivery adds a row under a source of its own, which needs that a delivery is
confirmed only once (`NoOrphans`: a pending delivery has no row yet).
`RevokedOrdersPayNobody` needs `NoOrphans` for orders that do not exist yet, and that a
payment, the only step that adds live rows, leaves a status that is not a revoked one: if
a stale update could write `refunded` it would fail. `RefundReleasesOrder` needs that a
pending delivery blocks a refund, and that `pay_success` and `confirm_delivery` do not touch
a refunded order. The steps are proved action by action over the operators on databases, one
lemma for each operator and conjunct (`Pay` keeps, `Revoke` keeps, ...), so that an action
that composes operators cites their lemmas.

`AwardsByTheBook`: `Spec => ImplementsBook` is there too, under the same assumptions. From the effect of each operator on `balanceactivity` it derives what the book
sees (`PayBook`, `RevokeBook`; a delivery and an edit change nothing there), shows that each
transaction does one payment or one revocation as seen from the book (`NextBooked`; the approval
that revokes is both, and amounts to a revocation from the state before), and that these are
steps of the book or stutter (`BookStep`). The invariant `Consistent` supplies the types and
that an order with a delivery exists.

The second half of the module proves everything else that the runs check of `Settlement`. Every step is a
new day or a transaction of one of five kinds (`Transacts`): it edits an order, pays one, writes
a status, revokes, or moves a delivery; a payment goes through three databases (`InSteps`): the
prepared one, the settled one, and the one an approval may have taken back. What a transaction
does to one table is a lemma about each of its operators, so that the invariants below are proved
kind by kind. They come in three layers.

- `Books`, for pages however stale and without further assumption: `Copied`
  (`CopiesMatch`), `Delivered` (the rows of a delivery are none, one or two, by its status:
  `PartnersPaidByStatus`), `Explained` (`LedgerExplains`), `HistoryAddsUp` (`UnlockDetailsAddUp`:
  a revocation writes its change under the order that moved the award *last*, so the invariant
  needs that there is one) and `LocksMatch` (`LocksAlwaysMatch`). Sums change by one row, or by
  the rows of one order, whose accounts and sources differ (`PaidOnce`); that is where the first
  layer rests on `Consistent`.
- `Covers`, on the first day and again for any pages: `OrdersHeldAreCovered`, and from it
  `BuyersStayEntitled`. A step moves what is held and what is granted by the same days, or grants
  more; it is inductive only for the orders that bring days at all, since an order without
  entitlement leaves no row.
- `Current`, when nobody acts on an outdated page (`FreshViews`): awards in force are of orders
  that were paid (`AwardedWhenPaid`), deliveries due or done of orders that are held or were
  declined (`DeliveredWhenHeld`), and an order that can still be paid has room in its limit
  (`RoomLeft`: settling an order fails the ones it leaves no room for). A stale page breaks each of
  these, by reopening a settled order or declining a paid one. `BooksAreExplained`,
  `DeliveriesStaySound` and `LimitIsKept` follow, and `StockIsExplained` from `GoodsKept`, which
  says of each shelf that the units gone are those of a set of orders between the ones that hold
  goods and the ones that may still (`UnitsKept`: a declined order took its unit or not, which its
  row does not tell). An order approved at price zero takes no unit and gives one back when it has
  been priced and is refunded (see the divergences), which its row does not tell either; the audit
  log does (`Audited`), and `UnitsKept` has the units too many come from a set of orders of that
  log between the ones that are refunded and the ones that may have been. An order is logged only
  when it is settled, and is then final for good on current pages (`LogSettled`).

The proofs led to four changes of the model. `FiniteAssumption` says that agents and orders are
finitely many, being rows of tables. `PricingAssumption` tells `NULL` from the methods. The opening
triple balances of an agent are any, so `TripleBalancesMatchLocks` speaks of the difference from
them. And `EntitlementCoversOrders` speaks of orders that bring the entitlement: one that brings
none is held by a student whose entitlement of that type may never have started.

**SumProofs** has what the ledgers need of sums: the sum of a function over a finite set of
integers is an integer, the empty sum is zero, one element more or one value changed adds to
it, a sum over a union of disjoint sets, a sum of sums, and sums over a set and its image. The
sum is a fold of the community modules, which is defined by `CHOOSE` over a recursive function;
the lemmas prove that the recursion is well defined and independent of the order by well-founded
induction over the subsets of one finite set, where what is proved is the set of subsets that
satisfy it (`SubsetInduction`), so that no lemma takes an operator as a parameter.

**PayRaceProofs** is about statements that interleave, for every tree and any number of orders
and sessions, with roll-backs and victims of deadlocks wherever they happen. Three invariants
build on each other.

- `IInv` holds of every schedule, and `TablesBalance` (`Consistent`) follows without a further
  condition. It says what a lock is for: what is not committed of an account is what its holder
  has posted (`AccountsFit`), and a row is its session's until the session is done (`RowsFit`,
  `LedgerFit`), so that `Commit` adds to both sides of the balance the same rows and `Rollback`
  none. A payment posts no row twice because its loop goes up a chain in which no account comes
  twice (`ChainOnce`, by induction over the chain).
- `SInv` holds when the row of the order serialises its sessions (`Serialised`): who does not
  lock the order before reading it, a confirmation or a statement, is its only payer, and one
  session revokes it. Then what a session has read of the order is still so when it commits
  (`StillTrue`, `Holds`), and the status tells which rows there are (`StatusFit`).
  `GrantsMatchOrders`, `SerialisedDistributeOnce` and the refinement `SessionsKeepTheBook` follow.
  The code does not ensure `Serialised`: `race_twice` is what happens without the first half, and
  two revocations of one order without the second (see the divergences).
- `LInv` is for the limit, when every payer locks its order first (`LocksFirst`): while an order
  of a student is open there is room for it (`RoomIn`), and a payment about to commit has failed
  what is open or leaves room for it (`TurnLeavesRoom`). Two payments of different orders of one
  student do not overlap there, because both extend the entitlement and wait for its row.
  `LimitHolds` also assumes that the opening orders leave room, as the ones that
  `SettlementProofs` proves to be left open do (`RoomLeft`); `FailedStays` needs no such assumption.

The proofs led to three changes of the model: agents and orders are finitely many, the head
quarter is no student and `NULL` no status; and `GrantedPerOrder` is stated as a difference from
the opening, which says the same of an order that was paid before and is revoked.

**WalletProofs** proves all four properties of the run `wallet`, `LedgerMatchesAlways`,
`WithdrawalsStaySound`, `WalletStaysConsistent` and the action property
`OnlyMovesUncoverAlways`, for every finite set of withdrawals and inventory orders, every set
of sessions, amounts, quantities and moves, and every opening balance; it assumes
(`WalletAssumption`) that ids, sessions and rows are told from each other and from `NULL`. What
is committed next depends on the calls in flight, so the invariant `IInv` says of each call
what its reads still tell about the tables (`CallsFit`: what it read is so, unless the overlap
was noted in `raced`), and that an id which is to be inserted belongs to one call (`NewIds`).
Of the ledger it says *why* each row is there: a withdrawal has the rows of its amount exactly
when it is paid (`PostedWhy`), a purchase the rows of its price (`PurchasePaysPrice`), an order
its units once it is settled (`UnitsWhy`, `UnitsGrantedOnce`). `LedgerMatches` then changes by
the same amount on both sides of each statement, one lemma about sums per kind of posting.

**WechatProofs** proves, of `WechatGateway`, `CloseAgrees` (`Consistent`) and `FoundStaysPaid`
(`GatewayPaymentStays`) for any number of pages, orders and calls. Neither is inductive: what
is committed next depends on calls in flight. The invariant adds that pages and calls are
about orders that exist (`PagesAndCalls`), that a call which is past the gateway's answer
still has it right, since what is closed at the gateway never opens again and what is paid
stays paid or is refunded (`AnswersHold`), and that nobody has ended an order that is still
open (`OpenNotEnded`).

Of `ScanLogin` it proves `LoginsStayConsistent` (`LoginConsistent`) and the action property
`LiveEntriesKept` (`LiveEntryKept`), for any number of people, scans and openings of the session,
with sessions that expire and servers that restart. That a page is let in as somebody who was
authorized rests on `Alone`: unless scans crossed, one works at a time, what it finds on the object
the id names now is its own mark, or nobody's when the page has opened its session again, and an
answer under way is for an object no marked scan works on. Registration is a check and an insert
that are apart: `Known` says that whoever is registered since the check was inserted since, by
the number of rows the request has seen, so that the second row of an openid is in `stale`.
`LiveEntryKept` needs `OfThePage` (every object says whether its page is open on the phone) and
`Granted` (an object that is read for an answer has been authorized by somebody). For the proof the
opening users are finitely many (`PersonsAssumption`).

**PortalProofs** first proves, of `Members`, `MembersConsistent`, `OneHomeEach` and `LinkedRightAlways`. The
invariant speaks of the tables (every account has its owner and a place, every row of a role
its account) and of the requests in flight: what each is going to insert has the right shape
and is for an account no other request creates, and what it has read of homes and seats is
still so, unless another request for the same user or account has been noted in `raced`. The
heart is `Commit`: inserting what was decided earlier is right because what was read then
still holds.

Of `Portal` it proves that every step of the portals, sessions and orders is a step of
`Members` or leaves it alone (`PortalImplementsMembers`), so that the invariant of `Members` is
the portal's too, and from it and the fact that demo accounts are and stay students'
`ActsAsMemberUnraced`: `ActsAsMember` as long as no two requests have overlapped for one user
or account. (The run checks it without that premise, since its instance has one request at a
time.)

`OrdersAttributedAlways` needs no such premise. Its invariant says who brought whom (`BInv`): users
are told apart by when they came and a new one comes last, so the first member of a student's
account never changes; a member of an agent account who has no student's account yet was brought
in, or came, in a way that `OrdersAttributed` allows for the account beside which
`agent_to_student` would open one (`AgentsBrought`); the first member of a student was
(`StudentsBrought`); and so will be whoever a request under way inserts (`RequestsBrought`).
The last part survives overlaps, because the tables only grow and the owner of an account comes
with it (`Grown`). `PagesAgreeAlways` states `PortalConsistent` as long as no two requests read for
one student account at a time: two that do may both take the seat of the student or of the first
guardian, and then `v_studentdetails` has two rows for the account, which module `Members` allows
and its `SeatsKept` excludes otherwise. A user whom an overlap has put into two agent accounts acts for
one of them in each request (`GetAccountByUserId` is a set, of which every page takes any
element), and what is said of the pages is said of either; only the page of codes, which lists
those of both, is excepted for that user.

**PlanningProofs** proves `PlanningConsistent` and `ReportsAreFresh` for any number of requests.
The lock of the student's row is the first half: whoever writes writes for a version that is
committed, or is about to commit itself. The second is that unless something was overtaken,
work under way is alone: no two requests, tasks or answers are on their way for different
versions (`Alone`), what is on its way is for the current one (`Current`), and a suggestion for
an older one is going to be replaced (`Replaced`).

**FranchiseProofs** is about the growing tree, for any number of agents, orders and calls in
flight. The chain of upstreams is a recursive function, so the module first proves that it is
defined, by induction over its rows (`PathRows`), and that an account in the tree keeps its chain,
since no step moves an account (`ChainStays`). `GrowthInvariant` says of the tree that whoever has
somebody below was activated and has a side (`Rooted`: both are never taken back), of the
orders that the first keeps its agent `INIT` while it waits and that what is pending came
last, and of each call in flight that what it has read is still so, unless another call that ended
meanwhile made it stale (`AwardRead`, `UpgradeRead`). From it follow `TreeStaysConsistent` (the part
`Consistent` of `FranchiseConsistent`) and `AwardsStaySound`. `AwardsAlwaysTelescope` also needs
that nobody is above itself (`Acyclic`, by a depth that grows down the tree): then no account comes
twice in a chain, and the loop of `assign_award` has, after each row, handed out what the highest
rank so far earns (`PaidTo`). `OpeningAssumption` says of the opening tree what the code ensures
of the one it builds: it is activated, has its sides, and has no cycle. `MembersSeeTheTree` adds
the pages. What a side has brought is a sum over orders there and a sum over agents here; the
two agree because whoever sells below an account is at one level below it and on one side
(`SellerOnSide`, `OneSide`), so that the orders fall into groups by seller (`SumByGroups`). The
theorem assumes that `ExtensionLevel` is at most 7: `sevenLevelSubAgents` lists seven levels, and an
award from an eighth would be in the total and under no agent.

Every safety property of every passing run is thus stated by a theorem, for every value of the
constants and under the conditions named above. Only model-checked: liveness (`EverySessionEnds`,
`EverythingAnswered`, `BothAnswered`, `EverythingEnds`), which the provers have no means for.

## Known divergences

`race_twice` is listed as a finding: the message of `pay_success` says that an order with
activities is not paid again, and two confirmations do so, because neither locks the order and
the unique index that should stop the second does not apply (`franchiseorderid` is NULL in the
rows of an order). An approval cannot: its first statement locks the order (`race_serial`, whose
mutant without that lock is distributed twice).

Others were met while the modules were written. They are not stated as properties, and the
properties above hold with them:

- *A settled order can be reopened.* `UpdateOrder` writes any status over any status
  (`internal/controller/order.go:262`). The activity check keeps the order from being
  distributed a second time.
- *A paid order that can never be settled:* the activity check of `pay_success` counts the row
  of a delivery that was confirmed before the settlement (migration 76, lines 41 and 48).
- *Revoking a sale does not restore the award it unlocked*, because the logged change is
  negative and is added again (76:438). Locks and balances stay consistent with each other all
  the same.
- *No unlocking once the earnest money is returned*, although the comment at 76:180 says otherwise
  (the branch at 76:173).
- *A unit of stock is minted* by approving an inventory order at price zero, pricing it and
  refunding it (76:131, 76:456). This happens in `limit`, and `StockExplained` says that it is the
  only way: the units too many are at most the orders that went through it.
- *A coupon that leaves any of its terms open gives no discount*: `v_coupon IS NOT NULL` (70:302)
  is true of a record only when none of its columns is null. The order still counts as a use.
- *Two revocations of one order take it back twice* (76:405), and unlocked payments return
  more earnest money than is owed, because the debt is read before the account is locked.
- *Wallet:* the quantity the page offers is rounded to the nearest unit, not down; two pending
  top-ups, which two overlapping calls can leave, make the next one raise; the list of
  stock shows a declined top-up as on its way until the first unit arrives; the activity page's
  filter for withdrawals matches nothing; a paid withdrawal leaves its owner's list, which goes
  by the last operator; `ListWithdraw` reads `current_user` without asking whether it was sent;
  a change of a card also changes what past withdrawals show.
- *Franchise:* two approvals of one order distribute it twice and give one number in the triple
  cycle out twice; the editor writes a type it loaded before an approval; an agent set active
  by hand keeps a first order that cannot be approved.
- *Gateway:* the close has no guard on the status; a page's count of polls is not reset for
  the next order; cancelling forgets the order; the notification is ignored; a price changed
  between prepay and payment does not reach the gateway.
- *ScanLogin:* the fourth message to an entry blocks its sender for good; the branch of a
  student in the answer is empty and returns an empty token (`internal/controller/auth.go:716`),
  a missing account is reported through a nil error (`auth.go:720`); the openid is not unique, so
  that two scans of one person with two phones can both pass the check (75:76) and insert. The
  branch that would skip the checks (75:66) is never taken: it asks that no column of the
  invitation code is null, and `expiresat` always is (75:173).
- *Members:* overlapping requests put one user into two accounts of a kind, after which the
  look-up at login takes either; agents converted from students have no codes until they are completed.
- *Planning:* a waiting request never refreshes the task's state; a failed enqueue, worker or
  service leaves "pending" for good; the task is sent before the commit; the worker ignores an
  error of its own update.
- *Portal:* the error of the account look-up is lost in a shadowed variable
  (`internal/middlewares/user.go:92`); an entitlement without an expiry survives a refund, and
  `getActiveEntitlements` overlooks it; the link to join a student's account names no inviter;
  a coupon is listed as expired on its due date, on which an order still takes it, and the list
  of expired ones has every coupon with a due date (`db/models/custom.go:26-39`);
  `listPartitionAgents` (`custom.go:446`) compares a role's id with a name and always fails.

## Not modelled

- *Task centre*: triggers on tables that nothing in the server or the web application of this
  repository writes. *Publisher* (`internal/pubsub`): imported by no package.
- *Organisations, product and price editors*: single-row updates nothing else waits for; prices
  are constants, also where an order reads a price an editor may change. *Order tags, wordings,
  resources, showcase, dictionaries of universities and majors*: rows that are read or written
  alone.
- *Mail, object store, WeChat's API, ciphers, the scraper, logging, configuration, generated
  API documentation*: I/O and libraries. *Casbin* evaluates its own policy files.
- *Passwords, expiry of tokens*; the pool of gin contexts; the pool of connections.
- *Settlement*: `test_mode`, several products in an order, publish states and filters by name and
  date; two orders generated at once against a coupon's maximum (a hazard with no property: the
  order is generated in one step here, and `PayRace` begins with the payment).
- *PayRace*: stock, deliveries, fees and awards of the triple cycle, approvals that revoke.
- *Wallet*: the organisation's variant of a unit's price, several products.
- *Members*: the extra check of roles for INDEPENDENT_SALES.
- *Statistics of the planning report*: they read tables that do not change.

## Plan

The plan was, in the order of importance: settlement and its refinement, its races, the wallet,
the gateway, the franchise tree, who belongs to which account, logins, planning, and what the
pages show; each as a module of its own that its pages or its proofs extend, `Portal` composing
`Members` with sessions and orders, `Settlement` and `PayRace` both implementing `AwardBook`. All
of these are written. What would come next:

1. `PayRace`: generation of orders (the coupon's count), stock and approvals that revoke.
2. The editors of products and organisations as actions of `Settlement`, with the price an order
   was generated for.
