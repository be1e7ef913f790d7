# A TLA+ model of payserver

payserver takes payment requests from tenants, opens checkouts at WeChat Pay, Alipay or
Stripe, records the payments the gateways report, and tells the tenants. This directory
models that program in TLA+, model-checks the models with TLC on small instances, and proves
its safety properties with TLAPS for every instance.

Paths below are relative to the repository root. `PROJECT.json` lists the runs, the lines each
definition models, the hazards and the findings.

## 1. The system

| Part | State it keeps | Operations | Talks to |
|---|---|---|---|
| payments table (`internal/store/payments.go`) | one row per `order_id`: owner, terms, `status`, `callback_status`, `callback_retries` | insert-or-get, store gateway result, mark paid, three callback statements, list pending callbacks | everybody, through autocommit statements |
| tenants table (`internal/store/tenants.go`) | active flag, callback URL and secret, secret hash | create, get, list, update, rotate, delete | `payments.tenant_id` refers to it, `ON DELETE RESTRICT` |
| payment creation (`internal/server/handler.go`, `auth.go`) | one goroutine per request | authenticate, insert, fetch, call gateway, store its answer | store, gateway |
| webhooks (`internal/notify/{stripe,alipay,wechat}.go`) | one goroutine per notification | verify, look up, phase 1 (mark paid), acknowledge, phase 2 (tell the tenant, record the outcome) | store, gateway, callback client |
| callback client (`internal/notify/callback.go`) | none | `Send` | the tenants' endpoints |
| compensation worker (`internal/compensate`) | one goroutine per replica, the batch in hand | every 30 s: list, look up tenant, send, record | store, callback client |
| process (`cmd/payserver/main.go`) | signal goroutine, main goroutine, pool | boot, serve, shut down, `rescue` (a session for a locked-out operator) | worker, HTTP server, store |
| admin API (`internal/server/admin_handler.go`) | one goroutine per call | create, get, update, rotate, delete, lists; one or two statements each | store |
| admin login (`internal/server/oidc.go`, `session.go`) | signed cookies | login, callback, logout, session check | OIDC provider |
| migrations (`internal/store/store.go`) | `schema_migrations` | create database, apply in order | Postgres |
| gateways (`internal/gateway`) | settings, keys | open a checkout for an order number and an amount; check a notification | WeChat, Alipay, Stripe |
| configuration (`internal/config`) | read once | load file and environment, validate | `main.go` |
| admin UI | none that matters here | | admin API |

What makes it hard:

* **Nothing spans two statements.** Every store call is its own transaction, and between any two
  of them other requests, webhooks, workers and administrators run, on any replica.
* **Both sides retry.** Clients replay `POST /payments`; gateways repeat a notification until it
  is answered with success, also while an earlier one is being served; the worker repeats
  callbacks.
* **Anything can fail half way**: a statement may take effect although its error is reported, a
  gateway may open a checkout although its answer is lost, an endpoint may get a callback although
  `Send` returns an error, a replica may die.
* **The order of the parts of a shutdown** decides what is lost.
* **A restart changes the settings** under payments that are under way: a gateway may be gone, or
  the process may not come up.
* **Order numbers and amounts are rewritten** on the way to a gateway and back, by code in two
  packages that must agree. The number of an order is its id without the hyphens; a notification
  leads to the row whose id `uuidFromCompact` makes of the number, which may be another order's, or
  nobody's.

What makes each part correct is listed with the properties in section 4.

## 2. Modules

```
OrderNumber <- Store <- Outside <- CreatePayment \
                                <- Notify         >- Payserver <- MCPayserver        (TLC)
                                <- Compensate    /      |     \<- PayserverStepProofs <- PayserverProofs
                                       PaymentLedger  <-(INSTANCE)
Shutdown <- MCShutdown (TLC), ShutdownProofs
Migration <- MCMigration (TLC), MigrationProofs
AdminSession <- MCAdminSession (TLC), AdminSessionProofs
TenantAdmin <- MCTenantAdmin (TLC), TenantAdminProofs
Wire <- WireProofs <-------\
Config, OrderNumber, Wire <- Deployment <- DeploymentProofs
                           <- MCDeployment (TLC)
```

* **OrderNumber**: `OutTradeNo`, the id of an order without its hyphens, and `UuidFromCompact`,
  what the webhooks look up. An order id is a record of its text and of how hyphens stand in it:
  none, as in a UUID, or otherwise. The server takes every string for an id (`handler.go` checks
  only that it is not empty), and `OrderId` has all three forms. `Returns(o)` says of an id that
  what is looked up for it is itself.
* **Store**: the two tables, and one operator per SQL statement. A row is a record
  keyed by `order_id`; `NoRow` stands for no row. `updated_at` is kept as the order it induces on
  the rows (`older`), which is all that the `ORDER BY updated_at` of the list query looks at.
  `FOR UPDATE SKIP LOCKED` excludes nobody here, because its locks end with the statement; that it
  may skip a row whose statement is under way at that instant is left out.
* **Outside**: what is not code of the repository, as the code uses it: gateways
  (`checkouts`, `captures`, `acked`; a capture knows the order it is for, but a notification
  carries only the number), endpoints (`received`, `satisfied`, `failed`), and faults.
  Every fault or administrative change uses up one of `upsets`.
* **CreatePayment**: `tenantAuthMiddleware` and `handleCreatePayment`, one action per
  call: `Authenticate`, `InsertOrGetPayment` (its INSERT), `FetchExisting` (its SELECT, and the
  branch for a payment that exists), `CallGateway`, `SaveGatewayResult`. `request[q]` is the
  goroutine: where it is, and what it was asked for.
* **Notify**: the three `ServeHTTP` of `internal/notify`, which share their shape; the checks on
  the row differ (`StripeAccepts`, `AlipayAccepts`, `WechatAccepts`). `OrderOf` is the order that
  a handler makes out of the number; all it does is done to the row of that order. `Lookup`,
  `MarkPaid` (phase 1), `ResolveTenant`, `Deliver`, `Record` (phase 2). The answer 200 is written
  at the end of phase 1; net/http may hold it back until the handler returns, so the gateway
  receives it at any time in phase 2 (`AnswerSent`) or when it ends (`Return`), or never, if the
  replica dies.
* **Compensate**: `run` and `processPending`. A pass holds snapshots of rows; rows and
  tenants may change under it. A batch is a set: the order in which the rows of one batch are
  taken is left open, and so is whether the back-off of a row has elapsed.
* **PaymentLedger**: the abstract specification: an order is entered once; money is received for it
  and booked to the account its order has at the gateways, `Account[o]`, which is that order or
  another; an order is settled once, and only when exactly its amount is booked to it; its tenant is
  told only then. Money on a `Selective` channel settles only orders of that channel: Stripe's
  handler is the only one that compares the channel.
* **Payserver**: all of them over one database, with payers, administrators and crashes
  (`Crash(r)` forgets every goroutine of replica r). It states the properties and the
  refinement mapping to PaymentLedger.
* **Shutdown**: how one replica comes up and stops, from the start of the worker on. Between that
  and the end there are three ways out without a stop: a `log.Fatalf` of the boot (`BootFails`) or
  of `ListenAndServe` (`ServeFails`), and a signal before `signal.Notify` (`KilledEarly`). What an
  exit does to the goroutines in progress is `Crash` in Payserver; this module is about which of
  them can be in progress then.
* **Migration**: how replicas start (`store.New`). `ensureDatabase` and `migrate`, one action per
  statement that another replica, or the release before 002, can come between. 002 goes up to its
  ADD COLUMN in `Apply`; its UPDATE (`Update`) touches the rows that it sees, and SET NOT NULL
  (`Constrain`) fails if another is there by then. What a transaction has done before its commit
  is not in `schema` yet, but makes the others wait (`Holds`), the old release too (`Locked`). An
  error and a death lead to the same state, because every error of `store.New` ends the process.
* **AdminSession**: the admin login. The server keeps no sessions, so the state is that of
  the browsers (their two cookies), the callbacks in flight, and the clock. `eligibleAt` is history:
  it remembers when an account was last one that may log in.
* **TenantAdmin**: the tenants table under the handlers of `admin_handler.go`, one action per
  statement, by operators who work at the same time, and the two steps of `tenantAuthMiddleware`
  (lookup, comparison with the hash). A value in a column is named by the call that wrote it, so
  that "the secret that was shown last" and "an older description" can be said; whether a call
  precedes another (`before`) is history. Payserver has only what payments see of tenants.
* **Config**: `Load` and `Validate`, what `main.go` asks for before it builds a part, and what the
  constructors need. A configuration is the set of keys that have a value.
* **Wire**: `formatAmount` and `parseYuanToFen`, character by character and in integers of `Width`
  bits, because an amount that comes back changed is the hazard. `Notations` is the other side:
  the ways Alipay may write an amount.
* **Deployment**: composes Config, OrderNumber and Wire. The operator edits file and environment,
  `runServer` boots part by part in its order, any error ends it, and what is up serves only the
  routes of the gateways it has built, while trades opened under earlier settings stay open. A
  handler is one step here: what can come between its statements is the business of Payserver.
* **MCPayserver**, **MCShutdown**, **MCMigration**, **MCAdminSession**, **MCTenantAdmin**,
  **MCDeployment**: instances for TLC.
* **PayserverStepProofs**, **PayserverProofs**, **ShutdownProofs**, **MigrationProofs**,
  **AdminSessionProofs**, **TenantAdminProofs**, **WireProofs**, **DeploymentProofs**: section 5.

Operators whose name ends in `_Something` after the name of an operation are mistaken versions of
that operation. They are used nowhere in the specifications; each property is shown to fail when
the operation is replaced by one of them.

### The backlog

`Backlog` deserves a word. The worker lists rows with `callback_status = 'pending'`, and no
statement of the code ever writes that value (section 6). The worker therefore has work only if
rows come from elsewhere: its own test writes the status by hand. `Backlog` is a set of orders
that are in this state at the start. Runs about what the server does by itself leave it empty.

## 3. Runs

| Run | Instance | Question |
|---|---|---|
| `core` | 2 orders that share a number (a UUID with its hyphens and without), 2 tenants, 2 requests, 2 webhooks, channels stripe and alipay, amounts {1, 2}, 1 upset | all of payment creation, webhooks and administration interleaved: 9 invariants, the stability of the record, and every step is one of PaymentLedger (1,094,000 states up to symmetry and the view) |
| `deliver` | 4 orders: two in the backlog, and for the one request a UUID, which comes back, or its compact form, which does not and leads to nobody; 1 tenant whose callback URL may be right or wrong, 1 request, 1 webhook, 1 worker, `BatchSize` 1, `MaxRetries` 1, 1 upset | what the callback columns say about the sends; every listed row is finished in the end; PaymentLedger with its fairness: money booked to an order in full settles it in the end (64,000 states) |
| `shutdown` | 2 requests, a pass of up to 2 rows | the order of a shutdown, under a signal or a `log.Fatalf` at any point, and that it ends (1,228 states) |
| `migration` | 4 replicas: two with different secrets, one without, one with a quote in it; 2 rows of the old release; 1 fault; a new, an empty or an older database | schema and `schema_migrations` agree, no row is left without a tenant, nobody serves on half a schema, everybody serves in the end (295,000 states) |
| `admin_session` | 2 browsers, 2 accounts that claim one email, 2 logins, 1 callback in flight, 3 configurations, `TTL` 1, clock up to 2 | who is admitted and for how long (521,000 states up to symmetry) |
| `tenant_admin` | 3 calls, 1 tenant at the start and an id for another, 2 names, 4 bodies of PATCH (off, on with an ignored key, another column, one with a null), 1 request that authenticates, 1 upset | what operators and tenants may rely on while calls overlap |
| `deployment` | a UUID with and without its hyphens, amounts of 100 and 105 fen, 10-bit integers, all parts configured but WeChat, 7 keys the operator may set or remove in file or environment, 2 upsets | boots that were validated are complete, amounts and numbers come back, and captures are recorded under changing settings (119,000 states) |
| `lost_callback`, `exhausted`, `shared_rows`, `shared_number`, `drained` | the smallest instance that shows it | the findings of section 6 |

**Bounds.** Two orders meet in two ways: they compete for a batch (`deliver`), or one number leads
from one to the other (`core`; each of the two requests may be for either of them). The UUID comes
back; its compact form leads to the UUID if that is on record, and to nobody if not. That is all
that an id can do: `order-123` is to `order123` what the compact form is to the UUID. Two requests
and two webhooks are the least that race. Two tenants are needed for a replay by another tenant,
two amounts and two channels for a notification that does not match its row. One upset in `core`
is any one fault or change at any place; what a second adds to it is covered by the proofs, which
hold for every `MaxUpsets`. `core` looks at its states through the view `WithoutOlder`: `older` is
read by the list query of the worker only, which finds nothing there, since there is no backlog.
`deliver` is small for the sake of its liveness properties: its invariants are proved for every
instance (section 5), and each of its temporal properties needs one webhook and one worker, a
backlog that is larger than the batch, and one fault. A tenant without a callback URL, for which
`Send` succeeds and posts nothing, is in the model and the proofs, and in none of the runs.
Symmetry is used only for safety, over requests, webhooks and tenants, which no definition tells
apart. `MaxUpsets` also keeps `failed` and `callback_retries` finite. Deadlock is checked in
`admin_session` only, where the configuration may always change. The other runs really may stop:
requests are finite in number, payers and gateways need not act, and a migrated replica is at
rest. In `migration`, replicas race for one lock, of which two are never able to apply 002; one
row of the old release may be there when 002 updates while the other comes later; and the fault
can be the death of any of them at any place, or the lost answer to a commit. In `admin_session` a
clock of 2 with `TTL` 1 reaches a session that is valid, one at its last instant and one past it;
two logins are two tabs of one browser or one of each of two. In `tenant_admin`, two calls collide
and a third sees the outcome, or is the one that makes a request's secret stale. In `deployment`,
the seven keys include one of each kind: the trigger of a gateway, the two that `main.go` asks for
WeChat, one that a constructor needs and one that none checks, one that is not bound to its
variable and one that Validate does not ask for; two upsets are an edit and the crash that makes
it take effect. 100 fen is an amount with zeros to leave out, 105 one with a zero to keep, and 10
bits let `RoundTrips` run over every amount up to 511; Go has 64 bits, and `AmountsRoundTrip` is
proved for every width.

**Fairness.** A goroutine that can take its next step does (weak fairness). A notification that is
not acknowledged is delivered again and again, and some handler takes it (strong fairness, because
the model has finitely many handlers which may all be busy, where the server starts a goroutine
for each). A back-off elapses: a worker that passes a row again and again attempts it at some time
(strong fairness of `Attempt`). Clients, payers, administrators and faults are not obliged to act,
and faults stop because `upsets` runs out. In Shutdown the worker's `select` picks at random among
a tick and a cancelled context, so that it does not pick the tick for ever (strong fairness of
`Leave`). In Migration each replica takes its next step, and its supervisor starts it again when
it is down (weak fairness of `Startup(r)`). AdminSession and TenantAdmin have safety only. In
Deployment something starts the process again and a boot goes on (weak fairness of `BootStep`),
and the notification for an order is repeated until it is taken (strong fairness, because the
process may be down again and again between the repetitions).

## 4. Properties

* `OneCheckoutPerOrder`: however many requests race, at most one checkout is opened for an order.
* `PaidIsCaptured`: a row is paid only if exactly its amount was captured under its number; it is a
  capture for this order, on its own gateway, unless another order on record has the same number
  (`Alone`); and an order whose id does not come back is never paid. Two of the three handlers never
  compare the channel; it still is the row's, because a checkout is only ever opened on the
  channel of the row.
* `AckedIsPaid`: what was acknowledged is on record, in its amount, in the row that its number leads
  to, whatever failed or crashed in between. (That this may be the row of another order is the
  finding `shared_number`.)
* `CallbacksOnlyForPaid`: phase 2 never runs ahead of phase 1.
* `SuccessIsEarned`, `RetriesAreFailedSends`: the callback columns tell the truth about the sends,
  although webhooks and workers write them from old snapshots.
* `AnswersAreOwn`: a 200 goes to the owner of the row, a link only if a checkout was opened.
* `OwnerExists`: the owner of a payment is never gone.
* `RecordIsStable`: terms never change; a paid row keeps its record.
* `OnRecord`: what every goroutine in progress and every gateway assumes about the database is so.
  It is the strengthening that makes the others inductive, and is checked as an invariant too.
* `ImplementsLedgerSafety`, `ImplementsLedger`: refinement of PaymentLedger, safety and liveness,
  with what `UuidFromCompact` makes of an order's number for its account. The liveness says that
  money captured for an order is recorded in the end in the order that its number leads to, if that
  order is there and has this amount; money that leads nowhere stays where it is.
* `BacklogDrains`: every listed row is finished, or has used up its retries.
* `WorkerBeforePool`: the worker never meets a closed pool.
* `NoStatementCut`: a replica that has stopped its worker ends under no statement, neither by the
  return of `main` nor by a `log.Fatalf` in between. Before that it may: a boot that fails after
  `compWorker.Start`, a listener that breaks, and a signal before `signal.Notify` end the process
  where it is. They are in the model, and the property does not deny them.
* `SignalObeyed`: a signal ends the process, even one that comes while it boots.
* `AtomicMigrations`: `schema_migrations` lists exactly what is committed, whatever died.
* `ServesMigrated`: a replica that serves has the whole schema under it.
* `RowsAccounted`: after 002 no row is without a tenant, although 002 updates only the rows it
  sees and the old release goes on writing: the lock that ADD COLUMN takes keeps it out between
  UPDATE and SET NOT NULL, and the constraint from then on.
* `EveryoneServes`: replicas that lose a race come back and serve, even those that could never have
  applied 002 themselves.
* `OwnLogin`: a browser gets the session only of a login that it began.
* `EligibleLately`: an admitted account was verified and allowed within the last 24 hours, although
  it is looked at once and the configuration may change at any time.
* `SessionsExpire`: no token of any origin outlives 24 hours.
* `LinkHandedOutIsKept`: once a client was given a link, the row keeps one, so that a replay is
  answered with it.
* `AckedWritesStay`: what an admin call was acknowledged to have written is there until a later
  call replaces it: no rotation or PATCH brings back what it read before.
* `ShownIsFresh`: a tenant is shown no older than what had been answered before.
* `SecretIsKnown`: the stored secret was shown to somebody, unless a statement failed or the
  process died; then the operator has to rotate again. It is about concurrent rotations and
  creations; it excuses the rotation whose answer is lost (`admin_handler.go:176`), which the code
  does not prevent, and which therefore is a hazard without a property.
* `RevokedIsRefused`: a request that begins after its access was ended is refused, although it is
  checked against a copy.
* `ValidatedIsComplete`, `ServesWhatIsConfigured`: a configuration that passes `Validate` boots to
  the end, and to all the gateways it names.
* `AmountsSurvive`, `PaidInFull`: the payer is asked for the amount of the row, and only a capture
  of it under the number of the row settles the row, however the amount is written; and only the
  order's own money at its own gateway, unless another order on record has its number.
* `CapturesRecorded`: what was captured for an order whose id comes back is recorded, unless the
  operator took the gateway away, left a configuration that does not start, or opened the trade
  without a `notify_url`.

## 5. Proofs

The theorems hold for every value of the constants that satisfies the named assumptions
(`OrderNumberAssumption`, `ConstantsAssumption`, `OutsideAssumption`, `CompensateAssumption`,
`PayserverAssumption`, `ShutdownAssumption`, `MigrationAssumption`, `AdminSessionAssumption`,
`TenantAdminAssumption`, `WireAssumption`, `DeploymentAssumption`): any number of orders, tenants,
requests, webhooks, replicas and upsets.

`IInv` of PayserverProofs is `TypeOK /\ OnRecord /\ Promises`. None of the properties is
inductive alone: that `MarkPaid` marks the right row needs that the webhook checked it
(`HooksOnRecord`); that the row's channel is the capture's needs that the checkout was opened by
the request that inserted the row (`GatewayOnRecord`, `RequestsOnRecord`); that there is only one
needs that a request at the gateway is alone (`SoleCaller`); even `TypeOK` needs `HooksOnRecord`,
because phase 2 looks up the tenant of the row. Nothing is assumed of the order ids but that the
long texts are texts (`OrderNumberAssumption`) and that `Orders` has every order that a number of
one leads to. The argument has three layers:

1. `PayserverStepProofs` first shows that every step keeps the types and what is on record
   (`RowsKept`),
2. and then what a step can do to one row, request, webhook, worker, to the gateways and the
   endpoints, as predicates on steps (`RowEffect`, `RequestEffect`, ...).
3. `PayserverProofs`: every conjunct of `IInv` follows from the effects; then
   `Safety => []IInv`, and a theorem for each property: `TypeCorrect`, `SnapshotsStayRight`,
   `CheckoutsAreUnique`, `PaymentsAreCaptured`, `AcknowledgedIsRecorded`,
   `CallbacksFollowPayment`, `SuccessesAreEarned`, `AnswersGoToOwners`, `OwnersStay`,
   `LinksStay`, `RecordsAreStable`.

`RetriesAreEarned` (`callback_retries` never exceeds the sends that failed) needs a second
invariant, `Counted`: the retries of a row and the webhooks and workers that still owe it an
increment are together no more than its failed sends. A failed send adds one that is owed, and
only what is owed is counted.

`PaymentsAreCaptured` follows from its first half, which is inductive (`PaidByNumberKept`), and a
lemma about numbers: a capture that leads to an order is for an order with the same text, so that an
order which is alone with its text has no other's money (`AloneIsOwn`).

`WorkersHaveNothingToDo` proves that the finding `lost_callback` is not a matter of bad luck: on a
database that only this code has written nothing ever waits for the worker, in any interleaving and
under any faults. By `RowEffect` a callback column only ever becomes "n/a" (with the row), "success"
or "failed", and what a worker takes up it had already or the query has just listed (`TakenEffect`);
so only the backlog is ever waiting (`WorkersHaveOnlyTheBacklog`).

`OnlyInactiveIsGivenUp` is the same for the finding `exhausted`: as long as the owners of the
payments are active (`OwnersActive`), no callback ends as "failed", because only an inactive owner
sends a webhook or a worker to the statement that writes it (`HooksGoOn`, `WorkersGoOn`), and the
retry limit never does.

`ServerIsALedger` proves the refinement, `Safety => ImplementsLedgerSafety`, with the account of an
order being whatever `UuidFromCompact` makes of its number. A step changes at most
one row (`RowStep`), and what it does to that row (`RowEffect`) is to enter its order, to settle it,
or nothing that the ledger sees, because its terms are kept (`RowsKept`). A capture is the
ledger's `Receive`, and the first one for its order, because the order has checkouts at one
gateway only (`GatewayOnRecord`). A callback that was posted is its `Tell`, because those who post
it know that the row is paid (`HooksOnRecord`, `WorkOnRecord`).

`ShutdownProofs` proves the order of a shutdown (`WorkerLeavesFirst`, `StatementsComplete`) from
`StopOrder`: the pool is closed only in a shutdown, the worker is done in every shutdown, and
nothing is served before the listener is open, so that a `log.Fatalf` of `ListenAndServe` which
comes after the signal finds no request.

`MigrationProofs` proves the safety of a startup (`MigrationsAreAtomic`, `ServingIsMigrated`,
`RowsStayAccounted`). Its `IInv` adds what the program counter of a replica says (`PlaceOK`): a
replica at migration m has found all the earlier ones, and one that has executed 002 has a usable
bootstrap; and `SeesAll`: from its UPDATE to its commit a replica has updated every row that is
without a tenant, because it holds the lock that the old release waits for.

`AdminSessionProofs` proves `SessionsAreOwn`, `AdmittedWereEligible` and `TokensExpire`. Its `IInv`
says of every token, in a browser or on its way to one, whose login it came from and how long
its account had been eligible at least (`TokenGood`). A step never takes back what a token refers
to (`Later`), so that good tokens stay good (`GoodStays`), and only good ones are issued.

`TenantAdminProofs` proves the four properties of TenantAdmin and its types
(`AcknowledgedWritesStay`, `AnswersAreFresh`, `StoredSecretIsKnown`, `RevokedAccessIsRefused`) from
one invariant: every column was written by a call that can have written it (`WritersGood`); what an
answered call has set is still there or was replaced by a later one (`WriteKept`); and what a
request has found outlives nothing that was revoked before it began (`FoundGood`).

`DeploymentProofs` proves that a boot which was validated is complete and serves what was asked
for (`ValidatedBootsComplete`, `ConfiguredIsServed`): up to where the process is, it has built
exactly the gateways wanted (`BootIsSound`), and Validate asks for all that `main.go` and the
constructors do (`ValidIsEnough`). The theorems about money (`OrdersArePaidInFull`,
`TradesAskForTheAmount`) rest on `AmountsRoundTrip` of WireProofs and on `Tally`, which says that
what is captured belongs to an order on record with that number (`BelongsTo`).

`WireProofs` proves `RoundTrips`: `formatAmount` writes every amount as a text that means it, and
`parseYuanToFen` reads every notation of it as exactly it, in integers of every width. `Decimal`
and `Read` are recursive functions, and the library's induction theorems take an operator, which
no prover here can instantiate. The module therefore states strong induction for the *set* of the
numbers that have a property (`StrongInduction`), from the well-foundedness of `<`, and with it
that a function defined by recursion exists and is the only one (`RecursionExists`,
`RecursionIsUnique`); this is what gives the two functions their equations (`DecimalFollows`,
`ReadFollows`). Then the digits of a number are read as it (`DigitsAreRead`), with a point or
without (`PointIsRead`, `DecimalIsRead`, `DecimalsAreRead`), and wrapping around leaves alone what
is below the largest integer (`WrapFits`).

Only model-checked: everything under fairness (`ImplementsLedger`, `BacklogDrains`, `SignalObeyed`,
`EveryoneServes`, `CapturesRecorded`), which is out of the prover's reach.

## 6. Findings

* **A failed callback is never retried** (`lost_callback`). The handlers say "will retry" and leave
  it to the worker, which lists rows with `callback_status = 'pending'`; nothing writes it.
* **An exhausted row stays pending** (`exhausted`). The branch of the worker that marks it failed
  is dead, because the list query leaves such rows out.
* **Workers share rows** (`shared_rows`). The row locks of the list query end with the query.
* **Two tenants' orders share a number** (`shared_number`). A comment on `MarkPaymentPaid` says that
  unique order ids make collisions impossible, and that the tenant guard would keep tenants apart.
  Two ids that differ only in their hyphens have one number at the gateway; the webhook takes the
  tenant for the guard from the row it finds. The money of one tenant's order settles the other's.
* **A shutdown does not drain** (`drained`). The main goroutine does not wait for `Shutdown`, so
  the process exits while requests are in progress. Nothing paid is lost (`AckedIsPaid` holds under
  crashes), but callbacks are cut short, and by the first finding they are not repeated.

Noted while modelling, not findings of a run:

* The comment of `Load` says "Env values always win over file values"
  (`internal/config/config.go:178`), but the list of bound keys lacks
  `oidc.allow_any_authenticated`: its variable is seen only if the file names the key
  (`Bound` and `Named` in Config).
* An id that is neither a UUID with its hyphens nor free of hyphens and of another length than 32
  never comes back: its notifications are answered with 404 for ever, or settle another order, and
  it is never paid (`Returns`, `PaidIsCaptured`). Nothing in the server refuses such ids.
* A second notification overwrites the "success" of the first with "failed" if the tenant was
  deactivated meanwhile: `MarkCallbackFailed` does not look at the status it replaces
  (`ResolveTenant` and `Record` in Notify).
* The WeChat handler does not look at `trade_state`, where the other two pass over what is not a
  completed payment. It relies on WeChat sending no other notifications, and so does the model.
* `Validate` does not ask for a `notify_url`; a trade that was opened without one is never
  reported.
* A request that another replica looked up before a rotation is still admitted with the old secret
  afterwards; `RevokedIsRefused` is about requests that begin later.

## 7. What is not modelled

* Signatures, request encoding and payload parsing beyond the order number and the amount: pure, and
  mostly the work of external libraries.
* `normalizePEM` and the reading of keys; a bad key is one of the ways to die in Deployment.
* `validateReturnURL`, `validateCallbackURL` and the other checks of single fields: they refuse
  before anything changes.
* `backoffDuration`: the models have no clock for it, and leave open whether a row is due.
* The list pages (reads that decide nothing), logging, `created_at`, `raw_notify`, `paid_at`.
* The admin single page application, which keeps no state the server depends on.
* In Config, which of two values of a key wins: a value is there or not.

What could follow: a model in which the handlers of TenantAdmin and Payserver share one table of
tenants, which are now related only by their common statements.
