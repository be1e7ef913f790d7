----------------------------- MODULE Payserver -----------------------------
(***************************************************************************)
(* The server as a whole: requests that create payments, the webhooks of   *)
(* the gateways, the compensation workers and the administration of the    *)
(* tenants, over one database, on one or more replicas.                    *)
(***************************************************************************)
EXTENDS CreatePayment, Notify, Compensate

CONSTANTS
    HostOf,      \* the replica that serves each request and each webhook
    Backlog      \* orders that an operator or an earlier release left paid,
                 \* with callback_status 'pending'

ASSUME PayserverAssumption ==
    /\ HostOf \in [Requests \cup Handlers -> Replicas]
    /\ Backlog \subseteq {o \in Orders : Returns(o)}

vars == <<rowVars, tenants, gatewayVars, endpointVars, upsets, request, hook, worker>>

TypeOK ==
    /\ StoreTypeOK
    /\ OutsideTypeOK
    /\ RequestTypeOK
    /\ NotifyTypeOK
    /\ CompensateTypeOK

(***************************************************************************)
(* The rows of the backlog were paid long ago, and their captures have     *)
(* been acknowledged.  No statement of this code gives a row the callback  *)
(* status 'pending'; the worker's test does it by hand.                    *)
(***************************************************************************)
BacklogRow(t, c, a) ==
    [tenant |-> t, channel |-> c, amount |-> a, url |-> "link",
     trade |-> IF c = "stripe" THEN "session" ELSE "transaction",
     status |-> "paid", callback |-> "pending", retries |-> 0]

CaptureOf(o) ==
    [order |-> o, no |-> OutTradeNo(o), channel |-> rows[o].channel, amount |-> rows[o].amount]

Init ==
    /\ \E t \in Tenants, c \in Channels, a \in Amounts :
         rows = [o \in Orders |-> IF o \in Backlog THEN BacklogRow(t, c, a) ELSE NoRow]
    /\ older = {}
    /\ tenants \in [Tenants -> [present : {TRUE}, active : {TRUE}, callback : Callbacks]]
    /\ checkouts = {}
    /\ captures = {CaptureOf(o) : o \in Backlog}
    /\ acked = captures
    /\ received = {} /\ satisfied = {}
    /\ failed = [o \in Orders |-> 0]
    /\ upsets = MaxUpsets
    /\ CreatePaymentInit /\ NotifyInit /\ CompensateInit

-----------------------------------------------------------------------------
(***************************************************************************)
(* Actions.                                                                *)
(***************************************************************************)
Client(q) ==
    /\ BeginRequest(q) \/ CreatePaymentStep(q)
    /\ UNCHANGED <<hook, worker>>

Webhook(h) ==
    /\ NotifyStep(h) \/ AnswerSent(h)
    /\ UNCHANGED <<request, worker>>

Notification(c) ==
    /\ \E h \in Handlers : Receive(h, c)
    /\ UNCHANGED <<request, worker>>

Worker(r) ==
    /\ CompensateStep(r)
    /\ UNCHANGED <<request, hook>>

Payer(k, a) ==
    /\ Pay(k, a)
    /\ UNCHANGED <<rowVars, tenants, endpointVars, upsets, request, hook, worker>>

\* The administration of the tenants: PATCH and DELETE /tenants/{id}.
Admin(t) ==
    /\ \/ \E active \in BOOLEAN, callback \in Callbacks : UpdateTenant(t, active, callback)
       \/ DeleteTenant(t)
    /\ Upset
    /\ UNCHANGED <<rowVars, gatewayVars, endpointVars, request, hook, worker>>

(***************************************************************************)
(* A replica dies and is started again.  Everything is in the database:    *)
(* the new process knows nothing of what the old one was doing, and the    *)
(* clients and the gateways get no answer.                                 *)
(***************************************************************************)
Crash(r) ==
    /\ Upset
    /\ request' = [q \in Requests |->
                     IF HostOf[q] = r /\ request[q].pc \in {"insert", "fetch", "gateway", "save"}
                     THEN Lost ELSE request[q]]
    /\ hook' = [h \in Handlers |-> IF HostOf[h] = r THEN NoHook ELSE hook[h]]
    /\ worker' = [worker EXCEPT ![r] = NoWork]
    /\ UNCHANGED <<rowVars, tenants, gatewayVars, endpointVars>>

Next ==
    \/ \E q \in Requests : Client(q)
    \/ \E h \in Handlers : Webhook(h)
    \/ \E c \in captures : Notification(c)
    \/ \E r \in Replicas : Worker(r) \/ Crash(r)
    \/ \E k \in checkouts, a \in Amounts : Payer(k, a)
    \/ \E t \in Tenants : Admin(t)

Safety == Init /\ [][Next]_vars

(***************************************************************************)
(* Fairness.  A goroutine goes on to its next statement.  A gateway keeps  *)
(* sending a notification until it is answered with success; the server    *)
(* starts a goroutine for each, so Handlers being all busy must not starve *)
(* one for ever.  A worker ticks, and a back-off elapses: a worker that    *)
(* sees rows again and again does not skip them all for ever.  Nothing     *)
(* obliges clients, payers, administrators or faults to act.               *)
(***************************************************************************)
Fairness ==
    /\ \A q \in Requests : WF_vars(CreatePaymentStep(q) /\ UNCHANGED <<hook, worker>>)
    /\ \A h \in Handlers : WF_vars(NotifyStep(h) /\ UNCHANGED <<request, worker>>)
    /\ \A c \in Capture : SF_vars(c \in captures \ acked /\ Notification(c))
    /\ \A r \in Replicas : /\ WF_vars(Worker(r))
                           /\ SF_vars(Attempt(r) /\ UNCHANGED <<request, hook>>)

Spec == Safety /\ Fairness

-----------------------------------------------------------------------------
(***************************************************************************)
(* Safety.                                                                 *)
(***************************************************************************)

\* However many requests for an order arrive together, and whichever of them
\* fail, at most one checkout is ever opened for it (the insert-first pattern
\* of handleCreatePayment).
OneCheckoutPerOrder ==
    \A x, y \in checkouts : x.order = y.order => x = y

\* The notification of c leads to the row of o, and agrees with it as far as the
\* handlers compare the two.
Pays(c, o) ==
    /\ OrderOf(c) = o
    /\ c.amount = rows[o].amount
    /\ c.channel = "stripe" => rows[o].channel = "stripe"

\* No other order on record differs from o only in its hyphens.
Alone(o) == \A x \in Orders \ {o} : Present(x) => x.text # o.text

\* A row is paid only if a gateway has captured exactly its amount under its
\* number.  As long as no other order has that number, it is a capture for this
\* order on its own gateway, although the Alipay and WeChat handlers never look at
\* the channel.  An order whose id does not come back (uuidFromCompact) is never
\* paid.
PaidIsCaptured ==
    \A o \in Orders :
        rows[o].status = "paid" =>
            /\ \E c \in captures : Pays(c, o)
            /\ Alone(o) => CaptureOf(o) \in captures
            /\ Returns(o)

\* A gateway that was answered with success will not send the notification
\* again, so by then the order that its number leads to must be on record as
\* paid, in that amount, whatever failed or crashed in between.
AckedIsPaid ==
    \A c \in acked : rows[OrderOf(c)].status = "paid" /\ Pays(c, OrderOf(c))

\* Phase 2 never runs ahead of phase 1: as long as an order is not paid, its
\* tenant has heard nothing of it and its callback columns are untouched.
CallbacksOnlyForPaid ==
    \A o \in Orders :
        rows[o].status # "paid" =>
            /\ o \notin received \cup satisfied
            /\ failed[o] = 0
            /\ Present(o) => rows[o].callback = "n/a" /\ rows[o].retries = 0

\* callback_status is 'success' only if some Send for the order succeeded:
\* webhooks and workers that write it from old snapshots do not make it up.
SuccessIsEarned ==
    \A o \in Orders : Present(o) /\ rows[o].callback = "success" => o \in satisfied

\* callback_retries never runs ahead of the sends that really failed, so that
\* a failed tenant lookup never costs a payment one of its retries.
RetriesAreFailedSends ==
    \A o \in Orders : Present(o) => rows[o].retries <= failed[o]

\* A 200 is given only to the tenant that owns the row, and a link in it only
\* when a checkout was opened for the order.
AnswersAreOwn ==
    \A q \in Requests :
        request[q].pc = "done" =>
            /\ request[q].answer \in {"200 link", "200 empty"} =>
                 /\ Present(request[q].order)
                 /\ rows[request[q].order].tenant = request[q].tenant
            /\ request[q].answer = "200 link" =>
                 \E k \in checkouts : k.order = request[q].order

\* A link that a client was given is on record as long as the payment is
\* pending, so that every replay is answered with it: no other request, failed
\* statement or late answer of the gateway takes it back.
LinkHandedOutIsKept ==
    \A q \in Requests :
        request[q].pc = "done" /\ request[q].answer = "200 link" =>
            LET row == rows[request[q].order] IN row.status = "pending" => row.url = "link"

\* A tenant that owns a payment is never gone, even if it was deleted while a
\* request it had authenticated was under way.
OwnerExists ==
    \A o \in Orders : Present(o) => tenants[rows[o].tenant].present

\* What was agreed never changes, and nothing but the callback columns of a
\* row changes once it is paid: neither a gateway answer that comes late nor a
\* second notification overwrites the record of the payment.
Terms(row) == <<row.tenant, row.channel, row.amount>>
PaymentRecord(row) == <<Terms(row), row.status, row.trade, row.url>>

RowsKept ==
    \A o \in Orders :
        /\ Present(o) => Present(o)' /\ Terms(rows'[o]) = Terms(rows[o])
        /\ rows[o].status = "paid" => PaymentRecord(rows'[o]) = PaymentRecord(rows[o])

RecordIsStable == [][RowsKept]_vars

(***************************************************************************)
(* What makes those invariants inductive: what each goroutine in progress, *)
(* and each fact a gateway holds, says about the database.                 *)
(***************************************************************************)

\* The row under which a checkout or a capture was made is there, and on the
\* same gateway.
GatewayOnRecord ==
    \A k \in checkouts \cup captures :
        Present(k.order) /\ rows[k.order].channel = k.channel

\* A request past the insert works on its own row; one past the conflict has a
\* row to fetch.
RequestsOnRecord ==
    \A q \in Requests :
        LET p == request[q]
        IN  /\ p.pc \in {"fetch", "gateway", "save"} => Present(p.order)
            /\ p.pc \in {"gateway", "save"} =>
                 Terms(rows[p.order]) = <<p.tenant, p.channel, p.amount>>

\* A request about to call the gateway is the only one to do so for its order,
\* now or ever.
SoleCaller ==
    \A q \in Requests :
        request[q].pc = "gateway" =>
            /\ \A k \in checkouts : k.order # request[q].order
            /\ \A r \in Requests \ {q} :
                 request[r].pc = "gateway" => request[r].order # request[q].order

\* The link of a row that is not paid yet, or about to be stored in one, is
\* that of an open checkout.
LinksAreOpen ==
    /\ \A o \in Orders :
         rows[o].status = "pending" /\ rows[o].url = "link" =>
             \E k \in checkouts : k.order = o
    /\ \A q \in Requests :
         request[q].pc = "save" => \E k \in checkouts : k.order = request[q].order

\* A webhook in progress is about a real capture, past its checks one that
\* matches the row it leads to, and in phase 2 that row is paid.
HooksOnRecord ==
    \A h \in Handlers :
        LET c == hook[h].about
        IN  /\ hook[h].pc # "idle" => c \in captures
            /\ hook[h].pc \in {"paid"} \cup PhaseTwo =>
                 Present(OrderOf(c)) /\ Pays(c, OrderOf(c))
            /\ hook[h].pc \in PhaseTwo => rows[OrderOf(c)].status = "paid"
            /\ hook[h].pc = "success" => OrderOf(c) \in satisfied

\* The snapshots of a worker are of paid rows, and their tenant is still right.
SnapshotIsRight(p) ==
    rows[p.order].status = "paid" /\ rows[p.order].tenant = p.tenant

WorkOnRecord ==
    \A r \in Replicas :
        LET w == worker[r]
        IN  /\ w.pc # "idle" => \A p \in w.batch : SnapshotIsRight(p)
            /\ w.pc \in Attempts => SnapshotIsRight(w.now)
            /\ w.pc = "success" => w.now.order \in satisfied

OnRecord ==
    /\ GatewayOnRecord
    /\ RequestsOnRecord
    /\ SoleCaller
    /\ LinksAreOpen
    /\ HooksOnRecord
    /\ WorkOnRecord

(***************************************************************************)
(* Liveness and refinement.                                                *)
(***************************************************************************)

\* The server implements the ledger: money captured in full is recorded in the
\* end, exactly once, in the order that its number leads to if there is one, and
\* the tenant of that order is told only afterwards.
Ledger == INSTANCE PaymentLedger WITH
    Account <- [o \in Orders |-> UuidFromCompact(OutTradeNo(o))],
    Selective <- {"stripe"},
    Settled <- Backlog,
    ledger <- [o \in Orders |->
                 IF Present(o)
                 THEN [state |-> IF rows[o].status = "paid" THEN "settled" ELSE "open",
                       tenant |-> rows[o].tenant, channel |-> rows[o].channel,
                       amount |-> rows[o].amount]
                 ELSE [state |-> "none"]],
    money <- {[order |-> c.order, channel |-> c.channel, amount |-> c.amount] : c \in captures},
    told <- received

ImplementsLedgerSafety == Ledger!Safety
ImplementsLedger == Ledger!Spec

Waiting(o) == rows[o].status = "paid" /\ rows[o].callback = "pending"
Exhausted(o) == Present(o) /\ rows[o].retries >= MaxRetries
GivenUp(o) == Present(o) /\ rows[o].callback = "failed"

\* The worker is done with every row it lists in the end: it succeeds, fails
\* for good or has used up its retries.
BacklogDrains ==
    \A o \in Orders : Waiting(o) ~> (~Waiting(o) \/ Exhausted(o))

(***************************************************************************)
(* What comments and messages of the code say, and the code does not do.   *)
(***************************************************************************)

\* "callback failed, will retry" (notify/stripe.go:168): after a failed send
\* the callback is attempted until it succeeds, is given up as failed, or has
\* used up its retries.
FailedIsRetried ==
    \A o \in Orders : failed[o] > 0 ~> (o \in satisfied \/ GivenUp(o) \/ Exhausted(o))

\* "compensate: max retries reached" (compensate.go:81-85): a row that has
\* used up its retries is marked as failed.
ExhaustedIsFailed ==
    \A o \in Orders : Waiting(o) /\ Exhausted(o) ~> GivenUp(o)

\* "using FOR UPDATE SKIP LOCKED to prevent concurrent workers from processing
\* the same rows" (store/payments.go:206-207).
InHand(r) == {p.order : p \in Taken(worker[r])}

RowsNotShared ==
    \A r, s \in Replicas : r # s => InHand(r) \cap InHand(s) = {}

\* "The tenantID guard prevents a tenant-A caller from mutating a tenant-B payment
\* if order_id collisions ever arose (...): the payments.order_id UNIQUE constraint
\* makes collisions impossible today" (store/payments.go:107-110): the payment of a
\* tenant is paid only by what was captured for an order of that tenant.
TenantsKeptApart ==
    \A o \in Orders :
        rows[o].status = "paid" =>
            \E c \in captures : OrderOf(c) = o /\ rows[c.order].tenant = rows[o].tenant

=============================================================================
