# Verification of CloudSilk/usercenter

TLA+ models of the parts of usercenter where several actors write the same
state: payments, refunds, delivery, logins, phone codes and access tokens,
permissions and their catalogue, and the AI gateway. TLC checks small
instances, TLAPS proves the safety properties for every value of the constants.
All paths below are relative to the repository.

## 1. The system

usercenter is a Go service over one SQL database (GORM), with an HTTP interface
(`http/`), RPC facades (`provider/`, `pkg/server/`), and packages other services
embed (`pay/`, `authorization/`). Each request runs in a goroutine, several
processes may share the database, and state that is not in the database is a
cache in the process or in Redis. There is hardly a transaction around a
protocol: handlers read a row, call somebody, and write the row with an UPDATE
whose WHERE clause is the guard. That is the pattern most of the models follow.

| Component | State | Operations | What is hard | What makes it correct |
|---|---|---|---|---|
| Orders, `internal/wechatpay` | `pay_order` rows, merchant configuration | create and retry, query, close, batch close, callback, reconciliation loop | no lock spans row, upstream call and row; callbacks are lost and repeated; writes fail half-way | PAID only after the charge and for good; every charge is booked; no order stays open for ever without a reason |
| Refunds, `internal/wechatpay` | `pay_refund` rows, approval switch | apply, approve, reject, query, callback | quota and status are read long before they are used; answers get lost | SUCCESS is real and final; a completed refund stays open to queries; a rejection sticks |
| Delivery, `pay/delivery.go` | `pay_deliveries` rows | `Once` | repeated and concurrent pushes, crashes | at most once; success is answered for a delivery |
| Tokens and sessions, `internal/auth/token`, `internal/session`, `internal/user` | token cache (memory or Redis), `user_session` rows | login, refresh with rollback, logout, revocation, forced logout | two stores changed one after the other; the memory cache locks only its index | one usable token per session; a revoked session has none |
| Login, lockout, passwords, `internal/user`, `mfa_challenge.go` | failure counter, lock, challenges in memory | login, second factor, password changes | the lock is decided from a stale counter; a challenge is got and deleted in two steps | a bounded number of guesses |
| One-time codes, `phone_auth.go` | rows of codes, a mutex per process | issue, verify | attempts counted from a snapshot; the mutex ends at the process | accepted once, only the newest, bounded attempts |
| OIDC, `http/oidc.go`, `keyrotation.go` | authorization codes in memory, refresh-token rows, signing keys | code and refresh grants, revocation, rotation | read and revocation are apart | a code or refresh token is exchanged once |
| Role policy, `permission/casbin.go`, `role.go` | casbin rows, a policy and a decision cache per process | role changes, rebuild, `EnforceCached` | clear and create are separate statements; stale decisions are stored after a flush | a change that runs alone leaves everything right; stale decisions are few and end |
| Grants, `permission/role_authorization.go`, `tenant_menu_authorization.go`, `menu_function_binding.go`, `menu.go`, `api_resource.go` | menus, functions, APIs, the tenant's grants, the selections of roles, rules | publications, bindings, menu and API changes | each has to find and rebuild every role it concerns, while another transaction runs | rules equal selections; selections within grants; no publication overwritten unseen; and which writers go around this |
| Authorization catalogue, `authorization/catalog.go` | the same tables | `Apply` at every start of every instance | versions differ; what was applied before is told from the rows | rules within grants; nothing administrators decided is taken back |
| AI gateway, `http/aigateway*.go`, `internal/apikey`, `internal/usage` | keys with cooldown, usage rows | budget, key selection, failover, backoff, usage | check-then-act; keys change between attempts | a bounded overshoot; a call fails only when failover is exhausted |
| Statistics and bills, `stats.go`, `persist.go` | bill files, settings | daily jobs | a failed day is not retried | one file per day |
| Runtime authorization, `authorization/`, `internal/accesseffect` | none | evaluation of a request | many cases | equals its definition |
| Records: tenants, users, SCIM, prompts, dictionaries, settings, audit, webhooks | rows | create, read, update, delete | little concurrency | isolation of tenants |

They interact through the database and through direct calls: every login path
(password, MFA, phone, WeChat, OIDC) ends in `token.EncodeToken` and
`persistLoginSession`; password, role, menu and API changes end in
`DelByUserID`; payments are read by their callers through `SyncOrderStatus`.
`PROJECT.json` lists the hazards, each at its line, with the properties that
cover it or the reason why none does yet.

## 2. The modules

| Module | Models | Proofs | Instances |
|---|---|---|---|
| `PayLedger` | what the order table promises (abstract) | | |
| `PayOrder` | orders: `service.go`, `model.go`, `reconcile.go` | `PayOrderProofs` | `MCPayOrder` |
| `PayRefund` | refunds: `service.go`, `model.go` | `RefundDeliveryProofs` | `MCPayRefund` |
| `TokenSession` | `token_cache.go`, `session.go`, `user.go` | `AccountProofs` | `MCTokenSession` |
| `DeliveryLedger` | `pay/delivery.go` | `RefundDeliveryProofs` | `MCDeliveryLedger` |
| `Login` | `user.go`, `mfa_challenge.go` | `AccountProofs` | `MCLogin` |
| `PhoneCode` | `phone_auth.go` | `PhoneCodeProofs` | `MCPhoneCode` |
| `RolePolicy` | `casbin.go`, `role.go`, `adapter.go` | `RolePolicyProofs` | `MCRolePolicy` |
| `RoleGrants` | `role_authorization.go`, `tenant_menu_authorization.go`, `menu_function_binding.go`, `menu.go`, `api_resource.go` | `RoleGrantsProofs` | `MCRoleGrants` |
| `Catalog` | `authorization/catalog.go` | `CatalogProofs` | `MCCatalog` |
| `AIGateway` | `aigateway.go`, `aigateway_ext.go`, `apikey.go`, `usage.go` | `AIGatewayProofs` | `MCAIGateway` |

The models are built alike. Rows are functions from keys to records or statuses.
`job[p]` is what goroutine `p` is doing (`serving` in `DeliveryLedger`,
`attempt` in `Login`): its `pc` names the next database statement or outside
call, the other fields are the locals it has carried over from earlier ones, so
a stale snapshot is stale in the model too. An action is one statement or one
outside call with everything up to the next one; the reads before the first are
one step with it. `Crash` (`ServingStops` in `DeliveryLedger`) forgets a job: a
process that stops, a cancelled request, and a failed statement after which the
code returns. Where the code goes on after a failure there is an action for that
(`ApplyWriteFails`, `RotateRefused`, the `fault` of `DeliveryLedger`).
Definitions marked "Mutant" are what a bug would make of the one after them; no
specification uses them. `DeliveryLedger` and `Login` share a module of proofs
with another component, which extends both, so their definitions have names of
their own: `LedgerSpec`, `LedgerTypeOK`, `LoginSpec`, `LoginTypeOK` and so on.
(The `LedgerSpec` of `PayOrder` is the refinement of `PayLedger`.)

**PayOrder.** `row` is the order, `wx` the order as WeChat Pay has it,
`offered` the orders whose parameters a client has, `notices` the orders whose
payment notifications keep coming: repeatedly, late, or, after `LoseNotices`, no
more. `todo` is the rest of the batch a loop has scanned, with the expiry as it
was read. `CreateJSAPIPayment` is `CreateRead`, `PrepayAccepted` or
`PrepayFails`, then `InsertOrder` or `ExtendOrder`. `SyncOrderStatus` and
`ReconcileStaleOrders` share `reconcileOrder`: `QueryAnswers`, one of the
`Apply` actions, `CloseExpired`, `MarkExpired`. `ClosePayOrder` is `CloseRead`,
`CloseUpstream` or `CloseFails`, `MarkMerchant`; a batch close is a sequence of
them, and the administrator's manual reconciliation is another `Loop`. A
`Crash` of a loop is one failed statement, or the end of its process, which
loses the rest of the batch. `Opened` says which orders are open at the start.
`PayOrder!Ledger` maps the rows and charges to `PayLedger`.

**PayRefund.** `ref` is the row's status, `wxr` the refund upstream, `config`
the merchant configuration, which must exist for a request and be enabled for a
notification. `ApplyRefund` is `ApplyRead`, then `CreatePending`, or
`ApplyRequest` and `InsertRefund`; `ApproveRefund` is `ApproveRead`,
`ApproveRequest` and `MarkRefundApproved`; `SyncRefundStatus` is `SyncRead`,
`QueryAnswers` and `MarkSynced`; a notification is `ApplyRefundEvent`, unless
`LoseNotice` comes first. The refund interface of WeChat Pay is external: it
knows a refund by its number and refuses what exceeds the order.

**TokenSession.** One user. `cache` and `index` are the two maps of the memory
cache; `known` says that the index has an entry for the user. `ReplaceToken` is
`Check`, `Swap` (the locked section), `Store`, `Drop` in memory and
`ReplaceScript` on Redis; `RefreshToken` adds `Rotate`, or `RotateRefused` and
the same replacement the other way round (`back`). `persistLoginSession`,
`Logout` and `DelByUserID` follow their statements likewise. `Usable(t,
readable)` is what a request with `t` meets whose revocation check could, or
could not, read the table (`session.go:127`).

**DeliveryLedger.** `Once` is `Insert`, then `Look`, or `Deliver` or
`DeliverFails`, and `Mark` or `Release`. `delivered` counts what `deliver` has
done, `answered` the pushes that were acknowledged.

**Login.** One account. `account` is the row, with the counter, the lock and
`enable`; `challenges` is `mfaChallenges`. `LoginWithSession` is `Begin`, which
reads the row, then `RecordLoginFailure` or `RecordFails`, which decide the lock
from the counter read by `Begin`, or `ClearLoginFailure` or `ClearFails` and
then `IssueMFAChallenge` or `Answer`. `ConsumeMFAChallenge` is `TakeChallenge`
and `VerifyMFACode`. `guesses` and `verified` count what a guesser gets answered;
`overlapped` and `shared` remember whether passwords were compared at the same
time, and which challenges two goroutines had taken.

**PhoneCode.** Codes of one number, `rows` by their number in the order of the
requests; `home` is the process of a goroutine, chosen at the start, and
`operation` the mutex of each process. `issueCode` is `Issue`, `Create`,
`Digest`, `SendCode`, `Retire`, or `IssueFails`; `consumeCode` is `Verify`, then
`Attempt` or `Consume`. `Cancel` ends a goroutine anywhere, and frees its mutex.

**RolePolicy.** One role. `role` is what it should be allowed, `rules` the
casbin rows, `policy` and `cached` what each process decides by.
`updateRoleAuth` is `GetFullRole` and two rounds of `ClearCasbin` and a load, then
`CreateRules` and another load; `Publish` and `DeleteRole` write the rules in
the transaction and only load. A load is `LoadPolicy`, which reads the rows,
`Swap`, which makes them the policy, and `Flush`, which empties the cache.
`EnforceCached` is `Enforce` and `SetDefault`. `settled` remembers which process ran the last change, if it
ran alone and without an error.

**RoleGrants.** One tenant. `db` has the rows, `rules` the casbin rows. An
administrator views (`View`, which keeps the revision), begins a transaction
(`Begin`, with lock, comparison and snapshot), and writes: `PublishRole`,
`PublishTenant`, `ReplaceBindings`, `UpdateMenu`, `DeleteMenu`, `EnableApi`.
`Isolated` says whether overlapping transactions make each other fail
(SQLite) or read from snapshots behind row locks (MySQL). The older operations
(`UpdateRole`, `CreateRole`, `ImportRole`) are the transaction `UpdateRole`, with
neither boundary nor revision, and `updateRoleAuth` after it: `GetFullRole`,
`ClearCasbin`, `CreateRules`. `loose` remembers the roles that these, or a
transaction whose reads were no longer true at its commit, have written or
should have, until a publication with true reads sets them right; `overtaken`
the transactions whose target one with another lock has changed.

**Catalog.** `Apply` is `Begin` (what it reads), `Commit` or `Fail`, and
`OpenRules`. `Applied` is what the transaction writes, composed of one operator
per helper of the code: `Upserted`, `Seeded`, `WithPolicies`, `Backfilled`;
`Effective` is the rules it adds. Administrators publish, switch APIs, edit
policies, update and create roles and assign users in between; `RoleGrants` has
the steps of their transactions, here they are one step each, and `UpdateRoleAuth`
a second one after `UpdateRole`. `loose` is as in `RoleGrants`.

**AIGateway.** `key` are the keys: enabled, on cooldown, possible to decrypt.
`call[c]` is a request in `forwardWithRetry` or `forwardMultipart`. `Start`
checks the budget, of which some queries may fail: `read` says what the check
could read, and `Allowed` lets through what it could not. `SelectKey` passes
over routes whose queries fail, whose keys are used, or whose best key cannot be
decrypted; then come `BuildFails`, which ends the call, or an upstream answer
(`UpstreamAnswers`, `UpstreamFails`, or `Upstream429` and `MarkCooldown`), with
`TryAgain`, `NoKeyLeft` and `AfterRound` deciding what follows, `Backoff` or
`Abandon` between rounds, and `RecordUsage` or `Fail` at the end. `used` counts
the tokens of the calls whose check could read the day's sum. `owed` remembers
the keys that were in reach of a selection (`InReach`) all through a round and
have not been called.

## 3. What is checked

Twelve runs; `PROJECT.json` says of each what it shows. Eleven pass; one refutes
a statement of the code's own comments and of the documentation.

| Run | Specification | Properties | Bounds |
|---|---|---|---|
| `order` | `Spec` | `TypeOK` `ChargeIsBooked` `MerchantCloseSticks` `LedgerSpec` | 1 order, 2 requests, 1 loop, 2 amounts, clock 0..3 |
| `order_live` | `FairSpec` | `ChargeReachesRow` `OrderIsResolved` | 2 open orders, batches of 1, 1 loop, configurations that are deleted |
| `refund` | `Spec` | `TypeOK` `SuccessIsReal` `SuccessIsFinal` `RejectionSticks` `OrphanOnlyByFailure` `ClosedIsReal` | 2 refunds of 2 out of 3, 2 goroutines |
| `token` | `Spec` | `TypeOK` `OneActiveToken` `RevokedShutsOut` | 4 tokens, 2 sessions, 2 goroutines, both caches |
| `delivery` | `LedgerSpec` | `LedgerTypeOK` `AtMostOnce` `DeliveredIsReal` `AnswersAreDelivered` | 2 transactions, 3 goroutines, with and without faults |
| `login` | `LoginSpec` | `LoginTypeOK` `GuessesAreBounded` | 3 goroutines, limit 3, 2 challenges, 1 lost UPDATE |
| `phone` | `Spec` | `TypeOK` `GuessesAreBounded` `UsedIsAccepted` `AcceptedOnce` | 3 goroutines in 1 or 2 processes, 2 codes, 3 attempts |
| `role` | `FairSpec` | `TypeOK` `AloneRepairs` `StaleIsBounded` `DecisionsSettle` | 1 process, 2 concurrent calls of 3 in all, 2 rules, 1 request, 1 fault |
| `grants` | `Spec` | `TypeOK` `RulesAreExact` `WithinBoundary` `NoLostPublication` | 2 administrators, 2 roles, 1 menu, 1 function, 1 API, not isolated |
| `catalog` | `Spec` | `TypeOK` `RulesFollowGrants` `SeededOnce` | 2 instances, 2 versions, 2 of each item, 1 change by an administrator, isolated and not |
| `gateway` | `FairSpec` | `TypeOK` `OvershootIsBounded` `FailoverIsExhausted` `EveryCallEnds` | 2 providers with 1 key each, a chat and an upload, 2 attempts, 1 backoff round, 1 token |
| `gateway_month` | `Spec` | refuted: `MonthlyLimitHolds` | 1 key, 1 call, 2 tokens a day and a month |

**Why the bounds are enough.** In the safety of an order no other order has a
part; one order with two requests and a loop lets every pair of handlers meet on
the row, with the callback, the payer, the operator and the clock as further
actors without a job. Two amounts are needed for a retry with another amount,
and four clock values for an order that is created, goes stale and expires, with
a tick left. `CreateRead` and `InsertOrder` are bounded by `MaxTime` so that an
order of the model has the time to go stale; without it the liveness properties
would fail at the edge of the clock only. For liveness orders meet in the batch:
two open orders and a batch of one let one whose configuration is gone stand in
the way of the other. Two refunds of 2 out of 3 compete for the quota, and each
is also handled by two goroutines at once. Four tokens of two sessions allow two
refreshes of one session, or one of each. Three goroutines and two transactions
let a push meet a delivery, its release and the next delivery. Three goroutines
and a limit of three reach both bounds of `Login`, `MaxErr + lost` without
overlap and `2 (|Proc| - 1)` more with it. Two codes let one be verified while
the next retires it; three goroutines in two processes overwrite a counter.
Three calls let a change of a role come alone after two that overlapped. Two
administrators are all that can meet in a transaction and its conflict, and a
role with a boundary and one without are the two kinds there are; one menu with
one function is what lets TLC cover the overlapping transactions of MySQL and
the three steps of `updateRoleAuth` (the function opens the API or is not there);
several menus, functions that open nothing, and isolated databases,
are covered by the proofs. Two versions are needed for an instance that is
behind. Two providers with a key each, two attempts and a round of backoff make
every way through the retry loop possible; a key that hides others of its
provider from a selection takes more, and is covered by the proof. The proofs of
section 4 carry the safety properties to every size.

**Fairness.** `PayOrder!Fairness`: time passes; a notification that keeps being
sent arrives, but `LoseNotices` may end it before it ever does; the loop is
driven by a ticker (`StartReconcileLoop`), so a scan that is possible happens,
and its failures (an upstream error, a failed write, a crash) are transient,
which is strong fairness of each step for each order. `AIGateway!FairSpec`: the
goroutine of a call goes on (`Serve`), since its HTTP client and its timer have
time limits. `RolePolicy!Fairness`: goroutines go on (`Work`, `SetDefault`), and
a cached decision ends with its time to live (`Expire`). No fairness is assumed
of clients, payers, operators, administrators, of the pushes of a channel, of
WeChat Pay's refund notifications, or of the database in a faulty instance. So
there is no liveness property of deliveries and refunds: a push is repeated a
limited number of times (15, `docs/PAY.md:49`), and a refund whose notifications
are lost, or refused because the configuration is disabled, waits until somebody
calls `SyncRefundStatus`. What is checked instead is that such a row stays where
that call corrects it (`ClosedIsReal`), and that a success is not answered for
nothing (`AnswersAreDelivered`).

**Conditions.** Where the code breaks what its documentation says, a property
says what the code does guarantee and names the exception; the list of known
differences below has the documentation's side.

- `ChargeReachesRow` and `OrderIsResolved` end where the operator disables or
  deletes the configuration (a callback needs an enabled one, the loop an
  existing one), or where as many orders without a configuration as a batch
  holds are in the way. A charge whose notifications are all lost may leave its
  row CLOSED.
- `OneActiveToken` and `RevokedShutsOut` hold on Redis with a failing database,
  and in memory with one that works; TLC finds a counterexample to
  `OneActiveToken` in 18 steps if the database may fail under the memory cache.
  `RevokedShutsOut` is about requests whose revocation check could be read.
- `AtMostOnce` needs that a `deliver` which returns an error has had no effect,
  which is a duty of the embedding service. `AnswersAreDelivered` excepts the
  push that met a placeholder and looked when it was released.
- `GuessesAreBounded` of `Login` gives the documented limits to requests that do
  not overlap, and bounds what an overlap adds. The bounds of `PhoneCode` are
  those of one process where the mutex matters; with two, `GuessesAreBounded` is
  wider and `UsedIsAccepted` says nothing, and with three processes TLC finds
  more guesses than either bound allows.
- `RulesAreExact`, `WithinBoundary` and `RulesFollowGrants` are about roles that
  are not loose. In an isolated database only the older operations make a role
  loose (theorem `IsolatedReadsTrue`); on MySQL transactions that overlap do too.
  `NoLostPublication` excepts transactions that were overtaken.
- `SeededOnce` leaves out a version all of whose rows are older than their IDs,
  which the code takes for new every time.
- `DecisionsSettle` and `AloneRepairs` are about the process of a change that ran
  alone: two rebuilds of a role that overlap may leave it with fewer rules until
  the next change. `StaleIsBounded` excepts the window between a new policy and
  its flush.
- `OvershootIsBounded` counts the calls whose check could read the day's sum.
  `FailoverIsExhausted` is about keys in the reach of a selection, and excepts
  selections that could not be read, requests that could not be built, and
  clients that have left.

**Refuted.** `MonthlyLimitHolds`: `CheckBudget` sums the month with the query
object that already carries the condition of the day, so the monthly limit
counts the tokens of today alone. The costs, a few lines below, are summed with
separate objects for this very reason.

**Known differences without a run.** Met while modelling; the models have them,
and no property contradicts them.

- `applyTransaction` logs a failed write of SUCCESS, and `reconcileOrder` then
  closes the order as expired although it is paid (`service.go:176`,
  `docs/USAGE.md:1274`). The charge still reaches the row by the callback, and
  when the callbacks are lost (`reconcile.go:15`), it stays CLOSED.
- Orders of a deleted configuration are never resolved, are the oldest, and may
  fill the batch of every round; younger orders then stay CREATED
  (`reconcile.go:200`, `docs/USAGE.md:1310`).
- While the configuration is disabled, refund notifications are refused
  (`service.go:587`), and the row stays behind when they are not repeated later.
- The refund quota is checked before, not with, the insert (`service.go:317`,
  `docs/USAGE.md:1287`): WeChat Pay refuses the excess, pending rows remain.
- `ApproveRefund` calls WeChat Pay before its guarded UPDATE and ignores how many
  rows that changed (`service.go:439`): a refund another approver has rejected
  may be upstream, where `model.go:281` has it local.
- In memory, with a failing database, `ReplaceToken` stores the new token after
  giving up its lock (`token_cache.go:362`, `user.go:806`): two may be active.
- On Redis `DelByUserID` gives DEL a pattern, which deletes no token
  (`token_cache.go:99`, against the comment at `:37`).
- A push that finds its placeholder gone, or cannot read it, is answered as
  delivered with nothing delivered (`pay/delivery.go:49`, against the comment at
  `:37`); after a crash, or a DELETE that fails, the placeholder stays
  "delivering" and refuses every push, until an operator has looked.
- `IsRevoked` drops the error of its query and answers that the session is not
  revoked (`session.go:127`): with a failing database, a token that is revoked
  and still cached is let in.
- Goroutines that overlap compare more passwords without a lock than the five of
  `docs/USAGE.md:302`, since the lock is decided from a counter read before the
  comparison (`user.go:503`), and more than one code for a challenge that is
  "single use" (`mfa_challenge.go:34`, `:40`, `docs/USAGE.md:199`), since it is
  got and deleted in two steps.
- `CheckBudget` lets everything through when the budget or the day's sum cannot
  be read, and takes a month's sum that cannot be read for 0 (`usage.go:169`,
  `:181`; `docs/USAGE.md:899`).
- A key that cannot be decrypted ends its route (`apikey.go:323`): the keys
  behind it are not looked at, though one key is not to fail a caller
  (`aigateway.go:479`). A query that fails counts as a route without keys, and
  a request that cannot be built ends the call with keys left
  (`aigateway.go:514`).
- `UpdateRole`, `CreateRole` and `ImportRole` write `role_menus` without the
  boundary of the tenant and without a revision (`role.go:59`, `:195`,
  `http/role.go:42`, `:272`), and `updateRoleAuth` builds rules without the
  tenant's grants (`role.go:98`): a role may select, and be allowed, what its
  tenant is not granted, until a publication narrows it.
- On MySQL (`docs/USAGE.md:35`) the publications of a role and of its tenant lock
  different rows: when they overlap, a role may keep selections outside the
  grants, or rules from rows that have changed.
- Between `LoadPolicy` and `InvalidateAuthCache` (`casbin.go:58-62`) requests are
  served cached decisions of the policy before.
- The enforcers of other processes are never told of a change: a callback is
  registered (`casbin.go:134`) and nothing publishes (`docs/USAGE.md:37`).
- The second factor of a login looks neither at `enable` nor at the lock
  (`CompleteMFALogin`; `docs/USAGE.md:304`).
- `UpdateMenu` removes functions without pruning the selections that name them.
- The rules of APIs that need no role are written for disabled APIs too
  (`api.go:187`), where role rules are not.
- `Apply` adds rules and removes none, so a rule an older version gave stays
  until the next publication (`catalog.go:887`).

## 4. What is proved

Eight modules of proofs, for any number of orders, refunds, transactions, calls,
keys, tokens, sessions, codes, roles, menus, administrators, instances,
goroutines and processes and any limits, from the assumptions the modules name
(`PayOrderAssumption` and so on): the "none" values are not members, amounts are
positive, times, limits and sizes natural numbers, and sets whose size is spoken
of finite. Nothing is assumed of the outside beyond the external actions of the
models. Every component
goes the same way: an invariant, here `IInv`, holds at first and is kept by every step, one lemma per
action or kind of action, and the properties follow from it or, if they are
about steps, from it and the step.

- **Orders.** `IInv == TypeOK /\ OrderInv /\ JobInv /\ TodoInv`. The properties
  are not inductive, since they do not say what a goroutine remembers. `OrderInv`
  links the row with WeChat Pay and with the parameters handed out; `JobInv` says
  which of its locals a goroutine may still rely on at each `pc`: the amount it
  gave to Prepay is the amount upstream, an answer SUCCESS or CLOSED is still
  true, an order about to be marked as closed by the merchant is closed
  upstream; `TodoInv` that scanned orders have rows. Each rests on a fact about
  WeChat Pay that only moves forward. From it: `TypeCorrect`, `ChargesAreBooked`,
  `MerchantClosesStick`, and `ImplementsLedger`, where every step is shown to be
  one of `Open`, `Charge`, `Settle`, `Close` or a stutter.
- **Refunds.** `IInv == TypeOK /\ RowInv /\ JobInv`, around `Onward`: a refund
  upstream neither disappears nor leaves SUCCESS or CLOSED, so an answer or a
  notification of either cannot get out of date. From it `TypeCorrect`,
  `SuccessesAreReal`, `ClosedAreReal`, and the action properties `SuccessesStay`
  and `RejectionsStick`, by the lemma `RowMoves` on what a step may do to a row.
  `OrphansOnlyByFailure` needs `KnownInv` too: who works on a row has found one,
  who writes an answer has got one, and rows stay.
- **Delivery.** `LedgerInv == LedgerTypeOK /\ ServerInv /\ HolderInv /\
  LedgerRowInv`. `HolderInv` says that the goroutine between `Insert` and `Mark`
  or `Release` is alone with its placeholder and that nothing was delivered
  before its `deliver`. From it `LedgerTypeCorrect`, `DeliversOnce`,
  `RowsAreReal` and `AnswersDelivered`, with failing statements and crashes.
- **Tokens and sessions.** `TokenInv == StructInv /\ (Reliable => SafeInv)`. The
  cache and the row change one after the other, so neither can be read off the
  other between two statements. What is inductive is `ActiveInv`: a token that a
  client has and that is in the cache is the one in the row of its session.
  `StructInv` holds for every cache and database: tokens belong to sessions
  with rows, a login is alone with its new session, a refresh with the token it
  is about to give. `MemoryInv` is about the index, which alone is locked: of
  an active session one token is in the index or on its way through a refresh,
  and only a revocation makes a refresh go back. `RedisInv` is simpler, since the
  script is atomic: one token of a session in the cache, and a refresh that is
  not settled is alone with its old token. From them `TokenTypeCorrect`,
  `OneTokenActive` and `RevokedAreShutOut`. The last two are under
  `Reliable == Memory => ~MayFail`: with the memory cache and a database that
  fails, two refreshes of one session, one of them taken back, leave two tokens.
- **Logins.** `LoginInv` counts the wrong passwords that may still be answered.
  `CountedInv`: below the limit each is in the counter, but for lost UPDATEs.
  `NearInv`: once the counter is at the limit and the account not locked, those
  who compare with an older counter (`Low`) may each fail once. `LockedInv`: once
  it is locked, all who still compare may fail once, which together gives
  `2 * Others`. `ChallengeInv` does the same for second factors: whoever
  compares a code has taken its challenge before it was deleted. `AloneInv` and
  `SingleInv` are the same for requests that do not overlap: who compares has
  read the counter as it is, and who has taken a challenge is alone with it. From
  them `LoginTypeCorrect` and `LoginGuessesBounded`, which has the bounds that
  TLC reaches.
- **AI gateway.** `BoundInv` turns the overshoot into a budget of its own: what is
  used leaves an answer for each call in flight whose check could be read, and
  `SpentInv` links it with the sum the check reads. `OwedInv` says that the keys
  a round owes its client are in reach and untried, `LoopInv` how far the loop
  may be. From them `OvershootBounded` and `FailoverExhausted`, with every error
  path of the selection.
- **Role policy.** `AloneInv` says how far a change that has the role for itself
  has come (`Reached`): what it has read is due, the rows are gone after a clear
  and complete after the insert. From it `AloneRepairsAlways`. `StaleBounded`
  has an argument of its own: outside the window between `Swap` and `Flush` there is
  no stale decision but those being taken, and storing one only moves it.
- **Grants.** `RulesAreExact` and `WithinBoundary` need each other: a tenant's
  publication leaves the rules of a role it does not narrow alone, which is right
  because the role was within the boundary. A transaction whose reads are true
  keeps both, and one whose reads are not makes every role it concerns loose, the
  ones it knows of and the ones it should. `UpdatingInv` says that what
  `updateRoleAuth` writes is of a loose role, `SeenInv` that what a transaction
  replaces is what was seen unless it was overtaken, `ReadsAreTrue` that in an
  isolated database reads stay true. From them `RulesExact`, `BoundaryKept`,
  `NothingLost` and `IsolatedReadsTrue`, for either kind of database.
- **Phone codes.** `LifeInv` and `IdInv` hold in any number of processes: a row is
  made once and deleted only before its code is sent. `OneInv` is what the mutex
  adds in one process: what a goroutine has read is still so. From them
  `GuessesBounded` (for one process), `UsedAccepted` and `CodesAreOnce`.
  `GuessesBoundedInTwo` is the wider bound of two processes. Its invariant
  `TwoInv` gives each count a worth, `Left(v)`, twice the wrong codes a row that
  has counted `v` may still answer: the row and each count that a goroutine has
  read leave room for what was answered, and of two counts read the smaller
  brings back the guesses between them, but only once.
- **Catalogue.** `TypeOK` includes that the rows agree with each other; with
  `RulesFollowGrants` and the snapshot it is inductive, in either kind of
  database: an application with old reads makes the roles it writes rules of
  loose. `SeedsOnce` follows from
  what `Applied` does to each field, lemma by lemma.

Only model-checked: what needs fairness (`ChargeReachesRow`, `OrderIsResolved`,
`EveryCallEnds`, `DecisionsSettle`), which the prover does not handle. Every other property of a passing run is stated
by a theorem.

## 5. What is not modelled

Formats, signatures, ownership checks, display columns, audit rows and alerts
of the modelled handlers, as the header of each module says. Of sessions: token
expiry, `CleanExpiredSessions`, tenant switching, and the key material the cache
keeps per session. Of logins: the expiry of passwords, the phone and WeChat
paths, and that a query for a second factor which fails answers there is none
(`HasEnabledMFA`). Of orders: the trade state `REFUND`, which WeChat Pay answers
of orders whose rows are PAID already, and a prepay without an ID. Of phone codes: the limits per hour. Of permissions: `CopyRole`,
which copies a role's rows and the rules its enforcer has, another writer
without a boundary (`role.go:163`); `UpdateCasbinApi`, which changes the path of
rules (`casbin.go:66`, called at `api.go:145`); copies of menus, parameters and
buttons, the parsing of rules, ABAC conditions. The run of `RolePolicy` has one
process; the proofs have any number. In `Catalog` administrators delete no menu
and rebind no function: those of a catalogue are protected (`menu.go:286`,
`:463`, `menu_function_binding.go:481`), others are not in its versions. Of the
gateway: changes to routes, rate limits, costs apart from tokens, moderation and
streams.

OIDC is left for later: its one protocol with more than one step is the rotation
of refresh tokens, whose lock is released between finding and revoking one
(`http/oidc.go:268`, in the list of hazards). Statistics, bills, the payment providers' formats, tenants, users,
SCIM, prompts, conversations, dictionaries, settings, audit, alerts and webhooks
are record keeping or translation with nothing running between two steps that
matter to each other. Most of the repository is generated code, interface
description, SDKs, and such records, so the lines the models stand for are a
small part of the whole.

## 6. Plan

1. OIDC: authorization codes and refresh tokens against one abstract "exchanged
   once" specification.
2. `TokenSession`: expiry and clean-up, tenant switching, claims that are older
   than a role change, and an abstract session that both caches implement.
3. Composition of `RolePolicy` and `RoleGrants`: publications of one process
   seen by the enforcers of another.
4. Proofs: a bound for `PhoneCode` in any number of processes, which needs a
   measure over all counts that are on their way; and the abstract session of 2,
   implemented by both caches.
5. The evaluation of a request in `authorization/` as a checked algorithm.
