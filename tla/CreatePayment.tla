--------------------------- MODULE CreatePayment ---------------------------
(***************************************************************************)
(* POST /payments: tenantAuthMiddleware followed by handleCreatePayment,   *)
(* one action per call of the store or of the gateway.  A request that     *)
(* fails authentication or validation (401, 400) touches nothing and is    *)
(* left out.                                                               *)
(***************************************************************************)
EXTENDS Outside

VARIABLE request  \* request[q]: the goroutine that serves q

\* "200 empty" is a 200 whose payment_url is the empty string.
Answers == {"none", "200 link", "200 empty", "409", "500", "502"}

NoRequest == [pc |-> "idle"]
Lost == [pc |-> "lost"]

Request == [pc : {"insert", "fetch", "gateway", "save", "done"},
            tenant : Tenants, order : Orders, channel : Channels, amount : Amounts,
            answer : Answers]

RequestTypeOK == request \in [Requests -> Request \cup {NoRequest, Lost}]

CreatePaymentInit == request = [q \in Requests |-> NoRequest]

GoTo(q, pc) == request' = [request EXCEPT ![q].pc = pc]

Answer(q, answer) ==
    request' = [request EXCEPT ![q].pc = "done", ![q].answer = answer]

(***************************************************************************)
(* The tenant is looked up once, here; the request goes on with what was   *)
(* read even if the tenant is deactivated or deleted meanwhile.            *)
(***************************************************************************)
Authenticate(q, t, o, c, a) ==
    /\ request[q].pc = "idle"
    /\ tenants[t].present /\ tenants[t].active
    /\ request' = [request EXCEPT ![q] =
                     [pc |-> "insert", tenant |-> t, order |-> o, channel |-> c,
                      amount |-> a, answer |-> "none"]]
    /\ UNCHANGED <<rowVars, tenants, gatewayVars, endpointVars, upsets>>

\* The result of the insert is not looked at: a replay goes to the gateway too.
InsertOrGetPayment_Replays(q) ==
    LET p == request[q]
    IN  /\ p.pc = "insert"
        /\ IF Present(p.order)
           THEN UNCHANGED rowVars
           ELSE tenants[p.tenant].present /\ InsertRow(p.order, p.tenant, p.channel, p.amount)
        /\ Calm
        /\ GoTo(q, "gateway")
        /\ UNCHANGED <<tenants, gatewayVars, endpointVars>>

(***************************************************************************)
(* The INSERT of InsertOrGetPayment: it inserts, finds the order_id taken, *)
(* violates the foreign key because the tenant is gone, or fails.          *)
(***************************************************************************)
InsertOrGetPayment(q) ==
    LET p == request[q]
        Insert == InsertRow(p.order, p.tenant, p.channel, p.amount)
    IN  /\ p.pc = "insert"
        /\ \/ /\ Present(p.order)
              /\ Calm
              /\ GoTo(q, "fetch")
              /\ UNCHANGED rowVars
           \/ /\ ~Present(p.order) /\ tenants[p.tenant].present
              /\ Insert
              /\ Calm
              /\ GoTo(q, "gateway")
           \/ /\ ~Present(p.order) /\ ~tenants[p.tenant].present
              /\ Calm
              /\ Answer(q, "500")
              /\ UNCHANGED rowVars
           \/ /\ ~Present(p.order) /\ tenants[p.tenant].present
              /\ StatementFails(Insert)
              /\ Answer(q, "500")
        /\ UNCHANGED <<tenants, gatewayVars, endpointVars>>

\* The owner of the fetched row is not compared with the caller.
FetchExisting_AnyOwner(q) ==
    LET p == request[q]
        existing == rows[p.order]
    IN  /\ p.pc = "fetch"
        /\ \/ existing.status = "paid" /\ Answer(q, "409")
           \/ /\ existing.status # "paid"
              /\ Answer(q, IF existing.url = "link" THEN "200 link" ELSE "200 empty")
        /\ Calm
        /\ UNCHANGED <<rowVars, tenants, gatewayVars, endpointVars>>

(***************************************************************************)
(* The SELECT of InsertOrGetPayment after a conflict, and the !created     *)
(* branch of the handler.  The row is never compared with the amount or    *)
(* the channel of the request.                                             *)
(***************************************************************************)
FetchExisting(q) ==
    LET p == request[q]
        existing == rows[p.order]
        Refused == existing.tenant # p.tenant \/ existing.status = "paid"
    IN  /\ p.pc = "fetch"
        /\ \/ Refused /\ Calm /\ Answer(q, "409")
           \/ /\ ~Refused /\ Calm
              /\ Answer(q, IF existing.url = "link" THEN "200 link" ELSE "200 empty")
           \/ Upset /\ Answer(q, "500")
        /\ UNCHANGED <<rowVars, tenants, gatewayVars, endpointVars>>

(***************************************************************************)
(* gw.CreatePayment: the gateway opens a checkout or not, and its answer   *)
(* arrives or not.  It is given the number of the order, not its id.  An   *)
(* error leaves the row as it was inserted.                                *)
(***************************************************************************)
CallGateway(q) ==
    LET p == request[q]
        Open == checkouts' = checkouts \cup
                  {[order |-> p.order, no |-> OutTradeNo(p.order), channel |-> p.channel,
                    amount |-> p.amount, by |-> q]}
    IN  /\ p.pc = "gateway"
        /\ \/ Open /\ Calm /\ GoTo(q, "save")
           \/ (Open \/ UNCHANGED checkouts) /\ Upset /\ Answer(q, "502")
        /\ UNCHANGED <<rowVars, tenants, captures, acked, endpointVars>>

\* The link is handed out although it could not be stored.
SaveGatewayResult_IgnoresError(q) ==
    LET p == request[q]
        Update == UpdatePaymentGatewayResult(
                    p.order, IF p.channel = "stripe" THEN "session" ELSE "", "link")
    IN  /\ p.pc = "save"
        /\ \/ Update /\ Calm
           \/ StatementFails(Update)
        /\ Answer(q, "200 link")
        /\ UNCHANGED <<tenants, gatewayVars, endpointVars>>

(***************************************************************************)
(* UpdatePaymentGatewayResult and the answer.  Only Stripe knows its trade *)
(* number when the checkout is opened.                                     *)
(***************************************************************************)
SaveGatewayResult(q) ==
    LET p == request[q]
        Update == UpdatePaymentGatewayResult(
                    p.order, IF p.channel = "stripe" THEN "session" ELSE "", "link")
    IN  /\ p.pc = "save"
        /\ \/ Update /\ Calm /\ Answer(q, "200 link")
           \/ StatementFails(Update) /\ Answer(q, "500")
        /\ UNCHANGED <<tenants, gatewayVars, endpointVars>>

CreatePaymentStep(q) ==
    \/ InsertOrGetPayment(q)
    \/ FetchExisting(q)
    \/ CallGateway(q)
    \/ SaveGatewayResult(q)

BeginRequest(q) ==
    \E t \in Tenants, o \in Orders, c \in Channels, a \in Amounts :
        Authenticate(q, t, o, c, a)

=============================================================================
