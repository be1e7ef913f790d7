-------------------------- MODULE PayserverStepProofs ------------------------
(***************************************************************************)
(* What one step of Payserver can do, for every number of orders, tenants, *)
(* requests, webhooks, replicas and upsets.                                *)
(*                                                                         *)
(* First, every step keeps the types and what is on record (RowsKept).     *)
(* Then, what it can do to a row of the table, to a request, to a webhook, *)
(* to a worker, to the gateways and to the endpoints: each of these is a   *)
(* predicate on a step (an "effect"), shown here to hold of every step     *)
(* from a state in which TypeOK and OnRecord hold.  The invariants are     *)
(* then proved from the effects, in PayserverProofs.                       *)
(***************************************************************************)
EXTENDS Payserver, TLAPS

-----------------------------------------------------------------------------
(***************************************************************************)
(* The statements of the store.                                            *)
(***************************************************************************)

RowsTypeOK ==
    /\ rows \in [Orders -> Payment \cup {NoRow}]
    /\ older \in SUBSET (Orders \X Orders)

\* A row that is there is a Payment, and one that is not is NoRow.
LEMMA PresentRow ==
    ASSUME RowsTypeOK, NEW o \in Orders
    PROVE  /\ Present(o) => rows[o] \in Payment
           /\ ~Present(o) => rows[o] = NoRow
           /\ rows[o].status \in Statuses => Present(o)
<1>1. rows[o] \in Payment \/ rows[o] = NoRow
  BY DEF RowsTypeOK
<1>2. NoRow.status = "absent"
  BY DEF NoRow
<1>3. ASSUME rows[o] \in Payment PROVE rows[o].status \in {"pending", "paid"}
  BY <1>3 DEF Payment, Statuses
<1> QED BY <1>1, <1>2, <1>3 DEF Present, Statuses

\* What is looked up for a capture is an order id, whichever the capture is for.
LEMMA CaptureShape ==
    ASSUME NEW c \in Capture
    PROVE  /\ c.order \in Orders /\ c.channel \in Channels /\ c.amount \in Amounts
           /\ c.no = OutTradeNo(c.order)
           /\ OrderOf(c) \in Orders
  BY ConstantsAssumption DEF Capture, OrderOf

\* A statement touches updated_at of one row only.
LEMMA TouchTyped ==
    ASSUME RowsTypeOK, NEW o \in Orders, Touch(o)
    PROVE  older' \in SUBSET (Orders \X Orders)
  BY DEF RowsTypeOK, Touch

\* Each of the UPDATE statements of the store keeps the type of the table and
\* what is on record.
LEMMA UpdateKeeps ==
    ASSUME RowsTypeOK, NEW o \in Orders, NEW STATE cond, NEW STATE row,
           Present(o) /\ cond => /\ row \in Payment
                                 /\ Terms(row) = Terms(rows[o])
                                 /\ rows[o].status = "paid" =>
                                      PaymentRecord(row) = PaymentRecord(rows[o]),
           UpdateWhere(o, cond, row)
    PROVE  RowsTypeOK' /\ RowsKept
<1>1. CASE Present(o) /\ cond
  <2>1. rows' = [rows EXCEPT ![o] = row] /\ Touch(o)
    BY <1>1 DEF UpdateWhere
  <2>2. RowsTypeOK'
    BY <1>1, <2>1, TouchTyped DEF RowsTypeOK
  <2>3. \A x \in Orders : rows'[x] = IF x = o THEN row ELSE rows[x]
    BY <2>1 DEF RowsTypeOK
  <2>4. row.status # "absent"
    BY <1>1 DEF Payment, Statuses
  <2>5. RowsKept
    BY <1>1, <2>3, <2>4 DEF RowsKept, Present
  <2> QED BY <2>2, <2>5
<1>2. CASE ~(Present(o) /\ cond)
  BY <1>2 DEF UpdateWhere, RowsTypeOK, RowsKept, rowVars, Present
<1> QED BY <1>1, <1>2

\* Counting a retry keeps the type of a row.
LEMMA OneMoreRetry ==
    ASSUME NEW r \in Payment
    PROVE  [r EXCEPT !.retries = @ + 1] \in Payment
<1>1. r.retries \in Nat
  BY DEF Payment
<1>2. r.retries + 1 \in Nat
  BY <1>1
<1>3. \A n \in Nat : [r EXCEPT !.retries = n] \in Payment
  BY DEF Payment
<1> QED BY <1>2, <1>3

\* The statements, by name: whichever of them runs, the record is kept.
LEMMA StatementsKeep ==
    ASSUME RowsTypeOK, NEW o \in Orders, NEW STATE t, NEW STATE trade, NEW STATE url,
           trade \in TradeNos, url \in {"", "link"},
           \/ UpdatePaymentGatewayResult(o, trade, url)
           \/ MarkPaymentPaid(t, o, trade)
           \/ MarkCallbackSuccess(t, o)
           \/ IncrCallbackRetries(t, o)
           \/ MarkCallbackFailed(t, o)
    PROVE  RowsTypeOK' /\ RowsKept
<1> USE DEF Terms, PaymentRecord
<1>0. Present(o) => rows[o] \in Payment
  BY PresentRow
<1>1. CASE UpdatePaymentGatewayResult(o, trade, url)
  <2> DEFINE row == [rows[o] EXCEPT !.trade = trade, !.url = url]
  <2>1. Present(o) => row \in Payment /\ Terms(row) = Terms(rows[o])
    BY <1>0 DEF Payment
  <2> QED BY <1>1, <2>1, UpdateKeeps DEF UpdatePaymentGatewayResult
<1>2. CASE MarkPaymentPaid(t, o, trade)
  <2> DEFINE row == [rows[o] EXCEPT !.status = "paid", !.trade = trade]
  <2>1. Present(o) => row \in Payment /\ Terms(row) = Terms(rows[o])
    BY <1>0 DEF Payment, Statuses
  <2> QED BY <1>2, <2>1, UpdateKeeps DEF MarkPaymentPaid
<1>3. CASE MarkCallbackSuccess(t, o)
  <2> DEFINE row == [rows[o] EXCEPT !.callback = "success"]
  <2>1. Present(o) => row \in Payment /\ PaymentRecord(row) = PaymentRecord(rows[o])
    BY <1>0 DEF Payment, CallbackStatuses
  <2> QED BY <1>3, <2>1, UpdateKeeps DEF MarkCallbackSuccess
<1>4. CASE IncrCallbackRetries(t, o)
  <2> DEFINE row == [rows[o] EXCEPT !.retries = @ + 1]
  <2>1. Present(o) => row \in Payment
    BY <1>0, OneMoreRetry
  <2>2. Present(o) => PaymentRecord(row) = PaymentRecord(rows[o])
    BY <1>0 DEF Payment
  <2> QED BY <1>4, <2>1, <2>2, UpdateKeeps DEF IncrCallbackRetries
<1>5. CASE MarkCallbackFailed(t, o)
  <2> DEFINE row == [rows[o] EXCEPT !.callback = "failed"]
  <2>1. Present(o) => row \in Payment /\ PaymentRecord(row) = PaymentRecord(rows[o])
    BY <1>0 DEF Payment, CallbackStatuses
  <2> QED BY <1>5, <2>1, UpdateKeeps DEF MarkCallbackFailed
<1> QED BY <1>1, <1>2, <1>3, <1>4, <1>5

\* The INSERT adds a row and leaves the others alone.
LEMMA InsertKeeps ==
    ASSUME RowsTypeOK, NEW o \in Orders, NEW t \in Tenants, NEW c \in Channels,
           NEW a \in Amounts, ~Present(o), InsertRow(o, t, c, a)
    PROVE  RowsTypeOK' /\ RowsKept
<1> DEFINE row == [tenant |-> t, channel |-> c, amount |-> a, url |-> "", trade |-> "",
                   status |-> "pending", callback |-> "n/a", retries |-> 0]
<1>1. row \in Payment
  BY DEF Payment, TradeNos, Statuses, CallbackStatuses
<1>2. rows' = [rows EXCEPT ![o] = row] /\ Touch(o)
  BY DEF InsertRow
<1>3. \A x \in Orders : rows'[x] = IF x = o THEN row ELSE rows[x]
  BY <1>2 DEF RowsTypeOK
<1>4. RowsTypeOK'
  BY <1>1, <1>2, TouchTyped DEF RowsTypeOK
<1>5. row.status = "pending" /\ rows[o].status # "paid"
  BY DEF Present
<1>6. RowsKept
  BY <1>3, <1>5 DEF RowsKept, Present
<1> QED BY <1>4, <1>6

\* A failing statement keeps what the statement keeps.
LEMMA NothingKeeps ==
    ASSUME RowsTypeOK, UNCHANGED rowVars
    PROVE  RowsTypeOK' /\ RowsKept
  BY DEF RowsTypeOK, RowsKept, Present, rowVars, Terms, PaymentRecord

-----------------------------------------------------------------------------
(***************************************************************************)
(* Type correctness and RowsKept, component by component.                  *)
(***************************************************************************)

\* An upset leaves no fewer than none.
LEMMA UpsetTyped ==
    ASSUME upsets \in 0..MaxUpsets, Upset \/ Calm
    PROVE  upsets' \in 0..MaxUpsets
  BY OutsideAssumption DEF Upset, Calm

\* A request that has begun is a Request, and stays one on its way.
LEMMA RequestMoves ==
    ASSUME RequestTypeOK, NEW q \in Requests,
           request[q].pc \in {"insert", "fetch", "gateway", "save"}
    PROVE  /\ request[q] \in Request
           /\ \A pc \in {"fetch", "gateway", "save"} : GoTo(q, pc) => RequestTypeOK'
           /\ \A answer \in Answers : Answer(q, answer) => RequestTypeOK'
<1>1. request[q] \in Request
  BY DEF RequestTypeOK, NoRequest, Lost
<1>2. ASSUME NEW pc \in {"fetch", "gateway", "save"}, GoTo(q, pc)
      PROVE  RequestTypeOK'
  <2>1. [request[q] EXCEPT !.pc = pc] \in Request
    BY <1>1 DEF Request
  <2> QED BY <1>2, <2>1 DEF GoTo, RequestTypeOK
<1>3. ASSUME NEW answer \in Answers, Answer(q, answer)
      PROVE  RequestTypeOK'
  <2>1. [request[q] EXCEPT !.pc = "done", !.answer = answer] \in Request
    BY <1>1 DEF Request
  <2> QED BY <1>3, <2>1 DEF Answer, RequestTypeOK
<1> QED BY <1>1, <1>2, <1>3

LEMMA ClientKeeps ==
    ASSUME TypeOK, NEW q \in Requests, Client(q)
    PROVE  TypeOK' /\ RowsKept
<1> USE DEF TypeOK
<1>1. RowsTypeOK /\ tenants \in [Tenants -> Tenant]
  BY DEF StoreTypeOK, RowsTypeOK
<1>2. NotifyTypeOK' /\ CompensateTypeOK'
  BY DEF Client, NotifyTypeOK, CompensateTypeOK
<1>3. ASSUME NEW t \in Tenants, NEW o \in Orders, NEW c \in Channels, NEW a \in Amounts,
             Authenticate(q, t, o, c, a)
      PROVE  TypeOK' /\ RowsKept
  <2>1. RowsTypeOK' /\ RowsKept
    BY <1>1, <1>3, NothingKeeps DEF Authenticate
  <2>2. OutsideTypeOK' /\ tenants' = tenants
    BY <1>3 DEF Authenticate, OutsideTypeOK, gatewayVars, endpointVars
  <2>3. RequestTypeOK'
    BY <1>3 DEF Authenticate, RequestTypeOK, Request, Answers
  <2> QED BY <1>1, <1>2, <2>1, <2>2, <2>3 DEF StoreTypeOK, RowsTypeOK
<1>4. CASE InsertOrGetPayment(q)
  <2> DEFINE p == request[q]
  <2>1. p \in Request
    BY <1>4, RequestMoves DEF InsertOrGetPayment
  <2>2. RowsTypeOK' /\ RowsKept
    BY <1>1, <1>4, <2>1, InsertKeeps, NothingKeeps
       DEF InsertOrGetPayment, StatementFails, Request
  <2>3. OutsideTypeOK' /\ tenants' = tenants
    BY <1>4, UpsetTyped
       DEF InsertOrGetPayment, StatementFails, OutsideTypeOK, gatewayVars, endpointVars
  <2>4. RequestTypeOK'
    BY <1>4, RequestMoves DEF InsertOrGetPayment, Answers
  <2> QED BY <1>1, <1>2, <2>2, <2>3, <2>4 DEF StoreTypeOK, RowsTypeOK
<1>5. CASE FetchExisting(q)
  <2>1. RowsTypeOK' /\ RowsKept
    BY <1>1, <1>5, NothingKeeps DEF FetchExisting
  <2>2. OutsideTypeOK' /\ tenants' = tenants
    BY <1>5, UpsetTyped DEF FetchExisting, OutsideTypeOK, gatewayVars, endpointVars
  <2>3. RequestTypeOK'
    BY <1>5, RequestMoves DEF FetchExisting, Answers
  <2> QED BY <1>1, <1>2, <2>1, <2>2, <2>3 DEF StoreTypeOK, RowsTypeOK
<1>6. CASE CallGateway(q)
  <2> DEFINE p == request[q]
  <2>1. p \in Request
    BY <1>6, RequestMoves DEF CallGateway
  <2>2. RowsTypeOK' /\ RowsKept
    BY <1>1, <1>6, NothingKeeps DEF CallGateway
  <2>3. checkouts' \in SUBSET Checkout
    <3> DEFINE k == [order |-> p.order, no |-> OutTradeNo(p.order), channel |-> p.channel,
                     amount |-> p.amount, by |-> q]
    <3>1. k \in Checkout
      BY <2>1 DEF Checkout, Request
    <3>2. checkouts' = checkouts \/ checkouts' = checkouts \cup {k}
      BY <1>6 DEF CallGateway
    <3> QED BY <3>1, <3>2 DEF OutsideTypeOK
  <2>4. OutsideTypeOK' /\ tenants' = tenants
    BY <1>6, <2>3, UpsetTyped DEF CallGateway, OutsideTypeOK, gatewayVars, endpointVars
  <2>5. RequestTypeOK'
    BY <1>6, RequestMoves DEF CallGateway, Answers
  <2> QED BY <1>1, <1>2, <2>2, <2>4, <2>5 DEF StoreTypeOK, RowsTypeOK
<1>7. CASE SaveGatewayResult(q)
  <2> DEFINE p == request[q]
  <2>1. p \in Request
    BY <1>7, RequestMoves DEF SaveGatewayResult
  <2>2. RowsTypeOK' /\ RowsKept
    <3> DEFINE trade == IF p.channel = "stripe" THEN "session" ELSE ""
    <3>1. p.order \in Orders /\ trade \in TradeNos
      BY <2>1 DEF Request, TradeNos
    <3>2. UpdatePaymentGatewayResult(p.order, trade, "link") \/ UNCHANGED rowVars
      BY <1>7 DEF SaveGatewayResult, StatementFails
    <3> HIDE DEF trade, p
    <3> QED BY <1>1, <3>1, <3>2, StatementsKeep, NothingKeeps
  <2>3. OutsideTypeOK' /\ tenants' = tenants
    BY <1>7, UpsetTyped
       DEF SaveGatewayResult, StatementFails, OutsideTypeOK, gatewayVars, endpointVars
  <2>4. RequestTypeOK'
    BY <1>7, RequestMoves DEF SaveGatewayResult, Answers
  <2> QED BY <1>1, <1>2, <2>2, <2>3, <2>4 DEF StoreTypeOK, RowsTypeOK
<1> QED BY <1>3, <1>4, <1>5, <1>6, <1>7 DEF Client, CreatePaymentStep, BeginRequest

\* A webhook in progress is about a capture, and so has an order to look up.
LEMMA HookOrder ==
    ASSUME NotifyTypeOK, NEW h \in Handlers, hook[h].pc # "idle"
    PROVE  /\ hook[h].about \in Capture
           /\ OrderIn(h) \in Orders /\ OrderOf(hook[h].about) \in Orders
<1>1. hook[h].about \in Capture
  BY DEF NotifyTypeOK, NoHook, Hook
<1> QED BY <1>1, CaptureShape DEF OrderIn

\* A webhook in progress is a Hook, and stays one on its way.
LEMMA HookMoves ==
    ASSUME NotifyTypeOK, NEW h \in Handlers, hook[h].pc # "idle"
    PROVE  /\ hook[h] \in Hook
           /\ \A pc \in {"paid"} \cup PhaseTwo : HookGoTo(h, pc) => NotifyTypeOK'
           /\ \A ok \in BOOLEAN : acked \in SUBSET Capture /\ Return(h, ok) =>
                 /\ NotifyTypeOK'
                 /\ acked' \in SUBSET Capture
                 /\ UNCHANGED <<checkouts, captures>>
<1>1. hook[h] \in Hook
  BY DEF NotifyTypeOK, NoHook
<1>2. ASSUME NEW pc \in {"paid"} \cup PhaseTwo, HookGoTo(h, pc)
      PROVE  NotifyTypeOK'
  <2>1. [hook[h] EXCEPT !.pc = pc] \in Hook
    BY <1>1 DEF Hook
  <2> QED BY <1>2, <2>1 DEF HookGoTo, NotifyTypeOK
<1>3. ASSUME NEW ok \in BOOLEAN, acked \in SUBSET Capture, Return(h, ok)
      PROVE  /\ NotifyTypeOK'
             /\ acked' \in SUBSET Capture
             /\ UNCHANGED <<checkouts, captures>>
  <2>1. hook[h].about \in Capture
    BY <1>1 DEF Hook
  <2> QED BY <1>3, <2>1 DEF Return, NotifyTypeOK
<1> QED BY <1>1, <1>2, <1>3

\* Whatever Send does, the histories about endpoints keep their types.
LEMMA SendTyped ==
    ASSUME NEW o \in Orders, NEW STATE target,
           received \in SUBSET Orders, satisfied \in SUBSET Orders,
           failed \in [Orders -> Nat], upsets \in 0..MaxUpsets,
           SendAccepted(o, target) \/ SendFails(o, target)
    PROVE  /\ received' \in SUBSET Orders /\ satisfied' \in SUBSET Orders
           /\ failed' \in [Orders -> Nat] /\ upsets' \in 0..MaxUpsets
<1>1. CASE SendAccepted(o, target)
  BY <1>1, UpsetTyped DEF SendAccepted
<1>2. CASE SendFails(o, target)
  <2>1. failed[o] + 1 \in Nat
    OBVIOUS
  <2>2. failed' = [failed EXCEPT ![o] = failed[o] + 1]
    BY <1>2 DEF SendFails
  <2>3. received' \in SUBSET Orders /\ satisfied' \in SUBSET Orders
    BY <1>2 DEF SendFails
  <2>4. upsets' \in 0..MaxUpsets
    BY <1>2, UpsetTyped DEF SendFails
  <2> QED BY <2>1, <2>2, <2>3, <2>4
<1> QED BY <1>1, <1>2

LEMMA WebhookKeeps ==
    ASSUME TypeOK, HooksOnRecord, NEW h \in Handlers, Webhook(h)
    PROVE  TypeOK' /\ RowsKept
<1> USE DEF TypeOK
<1>1. RowsTypeOK /\ tenants \in [Tenants -> Tenant]
  BY DEF StoreTypeOK, RowsTypeOK
<1>2. RequestTypeOK' /\ CompensateTypeOK'
  BY DEF Webhook, RequestTypeOK, CompensateTypeOK
<1>3. /\ acked \in SUBSET Capture
      /\ OutsideTypeOK
  BY DEF OutsideTypeOK
<1>4. CASE AnswerSent(h)
  <2>1. hook[h].about \in Capture
    BY <1>4, HookMoves DEF AnswerSent, PhaseTwo, Hook
  <2>2. RowsTypeOK' /\ RowsKept
    BY <1>1, <1>4, NothingKeeps DEF AnswerSent
  <2>3. OutsideTypeOK' /\ tenants' = tenants /\ NotifyTypeOK'
    BY <1>4, <2>1 DEF AnswerSent, OutsideTypeOK, endpointVars, NotifyTypeOK
  <2> QED BY <1>1, <1>2, <2>2, <2>3 DEF StoreTypeOK, RowsTypeOK
<1>5. CASE Lookup(h)
  <2>1. RowsTypeOK' /\ RowsKept
    BY <1>1, <1>5, NothingKeeps DEF Lookup
  <2>2. /\ NotifyTypeOK'
        /\ acked' \in SUBSET Capture
        /\ UNCHANGED <<checkouts, captures>>
    BY <1>3, <1>5, HookMoves DEF Lookup, gatewayVars, PhaseTwo
  <2>3. OutsideTypeOK' /\ tenants' = tenants
    BY <1>5, <2>2, UpsetTyped DEF Lookup, OutsideTypeOK, endpointVars
  <2> QED BY <1>1, <1>2, <2>1, <2>2, <2>3 DEF StoreTypeOK, RowsTypeOK
<1>6. CASE MarkPaid(h)
  <2> DEFINE c == hook[h].about
             trade == IF c.channel = "stripe" THEN "session" ELSE "transaction"
  <2>1. OrderOf(c) \in Orders /\ trade \in TradeNos
    BY <1>6, HookOrder DEF MarkPaid, TradeNos
  <2>2. MarkPaymentPaid(rows[OrderOf(c)].tenant, OrderOf(c), trade) \/ UNCHANGED rowVars
    BY <1>6 DEF MarkPaid, StatementFails
  <2>3. RowsTypeOK' /\ RowsKept
    <3> HIDE DEF c, trade
    <3> QED BY <1>1, <2>1, <2>2, StatementsKeep, NothingKeeps
  <2>4. /\ NotifyTypeOK'
        /\ acked' \in SUBSET Capture
        /\ UNCHANGED <<checkouts, captures>>
    BY <1>3, <1>6, HookMoves DEF MarkPaid, gatewayVars, PhaseTwo
  <2>5. OutsideTypeOK' /\ tenants' = tenants
    BY <1>6, <2>4, UpsetTyped DEF MarkPaid, StatementFails, OutsideTypeOK, endpointVars
  <2> QED BY <1>1, <1>2, <2>3, <2>4, <2>5 DEF StoreTypeOK, RowsTypeOK
<1>7. CASE ResolveTenant(h)
  <2> DEFINE o == OrderIn(h)
  <2>1. RowsTypeOK' /\ RowsKept
    BY <1>1, <1>7, NothingKeeps DEF ResolveTenant
  <2>2. /\ NotifyTypeOK'
        /\ acked' \in SUBSET Capture
        /\ UNCHANGED <<checkouts, captures>>
    <3>1. CASE Upset /\ Return(h, TRUE)
      BY <1>3, <1>7, <3>1, HookMoves DEF ResolveTenant
    <3>2. CASE HookGoTo(h, "fail") /\ UNCHANGED gatewayVars
      BY <1>3, <1>7, <3>2, HookMoves DEF ResolveTenant, gatewayVars, PhaseTwo
    <3>3. CASE /\ hook' = [hook EXCEPT ![h].pc = "send",
                                       ![h].target = tenants[rows[o].tenant].callback]
               /\ UNCHANGED gatewayVars
      <4>1. o \in Orders /\ Present(o)
        BY <1>7, HookOrder DEF ResolveTenant, HooksOnRecord, PhaseTwo, OrderIn
      <4>2. rows[o].tenant \in Tenants
        BY <1>1, <4>1, PresentRow DEF Payment
      <4>3. tenants[rows[o].tenant].callback \in Callbacks \cup {"none"}
        BY <1>1, <4>2 DEF Tenant
      <4>4. hook[h] \in Hook
        BY <1>7, HookMoves DEF ResolveTenant
      <4>5. [hook[h] EXCEPT !.pc = "send", !.target = tenants[rows[o].tenant].callback]
              \in Hook
        BY <4>3, <4>4 DEF Hook, PhaseTwo
      <4>6. NotifyTypeOK'
        BY <3>3, <4>5 DEF NotifyTypeOK
      <4> QED BY <1>3, <3>3, <4>6 DEF gatewayVars
    <3> QED BY <1>7, <3>1, <3>2, <3>3 DEF ResolveTenant
  <2>3. OutsideTypeOK' /\ tenants' = tenants
    BY <1>7, <2>2, UpsetTyped DEF ResolveTenant, OutsideTypeOK, endpointVars
  <2> QED BY <1>1, <1>2, <2>1, <2>2, <2>3 DEF StoreTypeOK, RowsTypeOK
<1>8. CASE Deliver(h)
  <2>1. RowsTypeOK' /\ RowsKept
    BY <1>1, <1>8, NothingKeeps DEF Deliver
  <2>2. NotifyTypeOK'
    BY <1>8, HookMoves DEF Deliver, PhaseTwo
  <2>3. OrderIn(h) \in Orders
    BY <1>8, HookOrder DEF Deliver
  <2>4. OutsideTypeOK' /\ tenants' = tenants
    BY <1>8, <2>3, SendTyped DEF Deliver, OutsideTypeOK, gatewayVars
  <2> QED BY <1>1, <1>2, <2>1, <2>2, <2>4 DEF StoreTypeOK, RowsTypeOK
<1>9. CASE Record(h)
  <2> DEFINE o == OrderIn(h)
             t == rows[o].tenant
  <2>1. o \in Orders
    BY <1>9, HookOrder DEF Record
  <2>2. \/ MarkCallbackSuccess(t, o)
        \/ IncrCallbackRetries(t, o)
        \/ MarkCallbackFailed(t, o)
        \/ UNCHANGED rowVars
    BY <1>9 DEF Record, StatementFails
  <2>3. RowsTypeOK' /\ RowsKept
    <3>1. "" \in TradeNos
      BY DEF TradeNos
    <3> HIDE DEF o, t
    <3> QED BY <1>1, <2>1, <2>2, <3>1, StatementsKeep, NothingKeeps
  <2>4. /\ NotifyTypeOK'
        /\ acked' \in SUBSET Capture
        /\ UNCHANGED <<checkouts, captures>>
    BY <1>3, <1>9, HookMoves DEF Record
  <2>5. OutsideTypeOK' /\ tenants' = tenants
    BY <1>9, <2>4, UpsetTyped DEF Record, StatementFails, OutsideTypeOK, endpointVars
  <2> QED BY <1>1, <1>2, <2>3, <2>4, <2>5 DEF StoreTypeOK, RowsTypeOK
<1> QED BY <1>4, <1>5, <1>6, <1>7, <1>8, <1>9 DEF Webhook, NotifyStep

\* A worker in the middle of a pass keeps the type of its work.
LEMMA WorkMoves ==
    ASSUME CompensateTypeOK, NEW r \in Replicas, worker[r].pc # "idle"
    PROVE  /\ worker[r] \in Work
           /\ worker[r].batch \in SUBSET Snapshot
           /\ worker[r].pc \in Attempts => worker[r].now \in Snapshot
           /\ worker[r].pc = "send" => \A pc \in Attempts :
                 WorkerGoTo(r, pc) => CompensateTypeOK'
           /\ \A batch \in SUBSET Snapshot :
                 worker' = [worker EXCEPT ![r] = Pass(batch)] => CompensateTypeOK'
<1>1. worker[r] \in Work
  BY DEF CompensateTypeOK, NoWork
<1>2. /\ worker[r].batch \in SUBSET Snapshot
      /\ worker[r].pc \in Attempts => worker[r].now \in Snapshot
  BY <1>1 DEF Work, Attempts
<1>3. ASSUME worker[r].pc = "send", NEW pc \in Attempts, WorkerGoTo(r, pc)
      PROVE  CompensateTypeOK'
  <2>1. worker[r] \in [pc : Attempts, batch : SUBSET Snapshot, now : Snapshot,
                       target : Callbacks \cup {"none"}]
    BY <1>1, <1>3 DEF Work
  <2>2. [worker[r] EXCEPT !.pc = pc] \in Work
    BY <2>1 DEF Work
  <2> QED BY <1>3, <2>2 DEF WorkerGoTo, CompensateTypeOK
<1>4. ASSUME NEW batch \in SUBSET Snapshot, worker' = [worker EXCEPT ![r] = Pass(batch)]
      PROVE  CompensateTypeOK'
  <2>1. Pass(batch) \in Work
    BY DEF Pass, Work
  <2> QED BY <1>4, <2>1 DEF CompensateTypeOK
<1> QED BY <1>1, <1>2, <1>3, <1>4

LEMMA WorkerKeeps ==
    ASSUME TypeOK, NEW r \in Replicas, Worker(r)
    PROVE  TypeOK' /\ RowsKept
<1> USE DEF TypeOK
<1>1. RowsTypeOK /\ tenants \in [Tenants -> Tenant]
  BY DEF StoreTypeOK, RowsTypeOK
<1>2. RequestTypeOK' /\ NotifyTypeOK'
  BY DEF Worker, RequestTypeOK, NotifyTypeOK
<1>3. CASE BeginPass(r)
  <2>1. RowsTypeOK' /\ RowsKept
    BY <1>1, <1>3, NothingKeeps DEF BeginPass
  <2>2. OutsideTypeOK' /\ tenants' = tenants
    BY <1>3, UpsetTyped DEF BeginPass, OutsideTypeOK, gatewayVars, endpointVars
  <2>3. CompensateTypeOK'
    <3>1. CASE UNCHANGED worker
      BY <3>1 DEF CompensateTypeOK
    <3>2. ASSUME NEW B \in ListPendingCallbacks(BatchSize, MaxRetries),
                 worker' = [worker EXCEPT ![r] = Pass({SnapshotOf(o) : o \in B})]
          PROVE  CompensateTypeOK'
      <4>1. \A o \in B : o \in Orders /\ rows[o].status = "paid"
        BY DEF ListPendingCallbacks, AwaitingCallback
      <4>2. \A o \in B : SnapshotOf(o) \in Snapshot
        BY <1>1, <4>1, PresentRow DEF SnapshotOf, Snapshot, Payment, Statuses
      <4>3. Pass({SnapshotOf(o) : o \in B}) \in Work
        BY <4>2 DEF Pass, Work
      <4> QED BY <3>2, <4>3 DEF CompensateTypeOK
    <3> QED BY <1>3, <3>1, <3>2 DEF BeginPass
  <2> QED BY <1>1, <1>2, <2>1, <2>2, <2>3 DEF StoreTypeOK, RowsTypeOK
<1>4. CASE EndPass(r) \/ Skip(r)
  <2>1. RowsTypeOK' /\ RowsKept
    BY <1>1, <1>4, NothingKeeps DEF EndPass, Skip
  <2>2. OutsideTypeOK' /\ tenants' = tenants
    BY <1>4 DEF EndPass, Skip, OutsideTypeOK, gatewayVars, endpointVars
  <2>3. CASE EndPass(r)
    BY <1>1, <1>2, <2>1, <2>2, <2>3 DEF EndPass, CompensateTypeOK, StoreTypeOK, RowsTypeOK
  <2>4. CASE Skip(r)
    <3>1. worker[r].batch \in SUBSET Snapshot /\ worker[r].pc # "idle"
      BY <2>4, WorkMoves DEF Skip
    <3>2. PICK p \in worker[r].batch :
            worker' = [worker EXCEPT ![r] = Pass(worker[r].batch \ {p})]
      BY <2>4 DEF Skip
    <3>3. worker[r].batch \ {p} \in SUBSET Snapshot
      BY <3>1
    <3>4. CompensateTypeOK'
      BY <3>1, <3>2, <3>3, WorkMoves
    <3> QED BY <1>1, <1>2, <2>1, <2>2, <3>4 DEF StoreTypeOK, RowsTypeOK
  <2> QED BY <1>4, <2>3, <2>4
<1>5. CASE Attempt(r)
  <2>1. RowsTypeOK' /\ RowsKept
    BY <1>1, <1>5, NothingKeeps DEF Attempt
  <2>2. OutsideTypeOK' /\ tenants' = tenants
    BY <1>5, UpsetTyped DEF Attempt, OutsideTypeOK, gatewayVars, endpointVars
  <2>3. worker[r].batch \in SUBSET Snapshot
    BY <1>5, WorkMoves DEF Attempt
  <2>4. PICK p \in worker[r].batch :
          \/ worker' = [worker EXCEPT ![r] = Pass(worker[r].batch \ {p})]
          \/ worker' = [worker EXCEPT ![r] = [pc |-> "fail", batch |-> worker[r].batch \ {p},
                                              now |-> p, target |-> "none"]]
          \/ worker' = [worker EXCEPT ![r] = [pc |-> "send", batch |-> worker[r].batch \ {p},
                                              now |-> p, target |-> tenants[p.tenant].callback]]
    BY <1>5 DEF Attempt
  <2>5. tenants[p.tenant].callback \in Callbacks \cup {"none"}
    BY <1>1, <2>3 DEF Snapshot, Tenant
  <2>6. CompensateTypeOK'
    <3> DEFINE rest == worker[r].batch \ {p}
    <3>1. p \in Snapshot /\ rest \in SUBSET Snapshot /\ worker[r].pc # "idle"
      BY <1>5, <2>3 DEF Attempt
    <3>2. CASE worker' = [worker EXCEPT ![r] = Pass(rest)]
      BY <3>1, <3>2, WorkMoves
    <3>3. ASSUME NEW pc \in Attempts, NEW STATE target, target \in Callbacks \cup {"none"},
                 worker' = [worker EXCEPT ![r] = [pc |-> pc, batch |-> rest,
                                                  now |-> p, target |-> target]]
          PROVE  CompensateTypeOK'
      <4>1. [pc |-> pc, batch |-> rest, now |-> p, target |-> target] \in Work
        BY <3>1, <3>3 DEF Work
      <4> HIDE DEF rest
      <4> QED BY <3>3, <4>1 DEF CompensateTypeOK
    <3>4. {"fail", "send"} \subseteq Attempts
      BY DEF Attempts
    <3> HIDE DEF rest
    <3> QED BY <2>4, <2>5, <3>2, <3>3, <3>4 DEF rest
  <2> QED BY <1>1, <1>2, <2>1, <2>2, <2>6 DEF StoreTypeOK, RowsTypeOK
<1>6. CASE DeliverAgain(r)
  <2>1. RowsTypeOK' /\ RowsKept
    BY <1>1, <1>6, NothingKeeps DEF DeliverAgain
  <2>2. worker[r].now.order \in Orders
    BY <1>6, WorkMoves DEF DeliverAgain, Attempts, Snapshot
  <2>3. OutsideTypeOK' /\ tenants' = tenants
    BY <1>6, <2>2, SendTyped DEF DeliverAgain, OutsideTypeOK, gatewayVars
  <2>4. CompensateTypeOK'
    BY <1>6, WorkMoves DEF DeliverAgain, Attempts
  <2> QED BY <1>1, <1>2, <2>1, <2>3, <2>4 DEF StoreTypeOK, RowsTypeOK
<1>7. CASE RecordAgain(r)
  <2> DEFINE o == worker[r].now.order
             t == worker[r].now.tenant
  <2>1. o \in Orders
    BY <1>7, WorkMoves DEF RecordAgain, Attempts, Snapshot
  <2>2. \/ MarkCallbackSuccess(t, o)
        \/ IncrCallbackRetries(t, o)
        \/ MarkCallbackFailed(t, o)
        \/ UNCHANGED rowVars
    BY <1>7 DEF RecordAgain, StatementFails
  <2>3. RowsTypeOK' /\ RowsKept
    <3>1. "" \in TradeNos
      BY DEF TradeNos
    <3> HIDE DEF o, t
    <3> QED BY <1>1, <2>1, <2>2, <3>1, StatementsKeep, NothingKeeps
  <2>4. CompensateTypeOK'
    BY <1>7, WorkMoves DEF RecordAgain
  <2>5. OutsideTypeOK' /\ tenants' = tenants
    BY <1>7, UpsetTyped
       DEF RecordAgain, StatementFails, OutsideTypeOK, gatewayVars, endpointVars
  <2> QED BY <1>1, <1>2, <2>3, <2>4, <2>5 DEF StoreTypeOK, RowsTypeOK
<1> QED BY <1>3, <1>4, <1>5, <1>6, <1>7 DEF Worker, CompensateStep

-----------------------------------------------------------------------------
(***************************************************************************)
(* The environment, and the step as a whole.                               *)
(***************************************************************************)

LEMMA PayerKeeps ==
    ASSUME TypeOK, NEW k \in checkouts, NEW a \in Amounts, Payer(k, a)
    PROVE  TypeOK' /\ RowsKept
<1> USE DEF TypeOK
<1>1. RowsTypeOK
  BY DEF StoreTypeOK, RowsTypeOK
<1>2. RowsTypeOK' /\ RowsKept
  BY <1>1, NothingKeeps DEF Payer
<1>3. captures' \in SUBSET Capture
  <2>1. k.order \in Orders /\ k.channel \in Channels /\ k.no = OutTradeNo(k.order)
    BY DEF OutsideTypeOK, Checkout
  <2>2. [order |-> k.order, no |-> k.no, channel |-> k.channel, amount |-> a] \in Capture
    BY <2>1 DEF Capture
  <2> QED BY <2>2 DEF Payer, Pay, OutsideTypeOK
<1>4. OutsideTypeOK' /\ tenants' = tenants
  BY <1>3 DEF Payer, Pay, OutsideTypeOK, endpointVars
<1>5. RequestTypeOK' /\ NotifyTypeOK' /\ CompensateTypeOK'
  BY DEF Payer, RequestTypeOK, NotifyTypeOK, CompensateTypeOK
<1> QED BY <1>2, <1>4, <1>5 DEF StoreTypeOK, RowsTypeOK

LEMMA NotificationKeeps ==
    ASSUME TypeOK, NEW c \in captures, Notification(c)
    PROVE  TypeOK' /\ RowsKept
<1> USE DEF TypeOK
<1>1. RowsTypeOK
  BY DEF StoreTypeOK, RowsTypeOK
<1>2. PICK h \in Handlers : Receive(h, c)
  BY DEF Notification
<1>3. RowsTypeOK' /\ RowsKept
  BY <1>1, <1>2, NothingKeeps DEF Receive
<1>4. OutsideTypeOK' /\ tenants' = tenants
  BY <1>2, UpsetTyped DEF Receive, OutsideTypeOK, gatewayVars, endpointVars
<1>5. [pc |-> "lookup", about |-> c, target |-> "none"] \in Hook
  BY DEF OutsideTypeOK, Hook
<1>6. NotifyTypeOK'
  BY <1>2, <1>5 DEF Receive, NotifyTypeOK
<1>7. RequestTypeOK' /\ CompensateTypeOK'
  BY DEF Notification, RequestTypeOK, CompensateTypeOK
<1> QED BY <1>3, <1>4, <1>6, <1>7 DEF StoreTypeOK, RowsTypeOK

LEMMA AdminKeeps ==
    ASSUME TypeOK, NEW t \in Tenants, Admin(t)
    PROVE  TypeOK' /\ RowsKept
<1> USE DEF TypeOK
<1>1. RowsTypeOK
  BY DEF StoreTypeOK, RowsTypeOK
<1>2. RowsTypeOK' /\ RowsKept
  BY <1>1, NothingKeeps DEF Admin
<1>3. tenants' \in [Tenants -> Tenant]
  <2>1. CASE DeleteTenant(t)
    BY <2>1 DEF DeleteTenant, StoreTypeOK, Tenant, NoTenant
  <2>2. ASSUME NEW active \in BOOLEAN, NEW callback \in Callbacks,
               UpdateTenant(t, active, callback)
        PROVE  tenants' \in [Tenants -> Tenant]
    <3>1. [tenants[t] EXCEPT !.active = active, !.callback = callback] \in Tenant
      BY DEF StoreTypeOK, Tenant
    <3> QED BY <2>2, <3>1 DEF UpdateTenant, StoreTypeOK
  <2> QED BY <2>1, <2>2 DEF Admin
<1>4. OutsideTypeOK'
  BY UpsetTyped DEF Admin, OutsideTypeOK, gatewayVars, endpointVars
<1>5. RequestTypeOK' /\ NotifyTypeOK' /\ CompensateTypeOK'
  BY DEF Admin, RequestTypeOK, NotifyTypeOK, CompensateTypeOK
<1> QED BY <1>2, <1>3, <1>4, <1>5 DEF StoreTypeOK, RowsTypeOK

LEMMA CrashKeeps ==
    ASSUME TypeOK, NEW r \in Replicas, Crash(r)
    PROVE  TypeOK' /\ RowsKept
<1> USE DEF TypeOK
<1>1. RowsTypeOK
  BY DEF StoreTypeOK, RowsTypeOK
<1>2. RowsTypeOK' /\ RowsKept
  BY <1>1, NothingKeeps DEF Crash
<1>3. OutsideTypeOK' /\ tenants' = tenants
  BY UpsetTyped DEF Crash, OutsideTypeOK, gatewayVars, endpointVars
<1>4. RequestTypeOK'
  BY DEF Crash, RequestTypeOK
<1>5. NotifyTypeOK'
  BY DEF Crash, NotifyTypeOK
<1>6. CompensateTypeOK'
  BY DEF Crash, CompensateTypeOK
<1> QED BY <1>2, <1>3, <1>4, <1>5, <1>6 DEF StoreTypeOK, RowsTypeOK

LEMMA StepKeeps ==
    ASSUME TypeOK, HooksOnRecord, [Next]_vars
    PROVE  TypeOK' /\ RowsKept
<1>1. CASE UNCHANGED vars
  <2>1. RowsTypeOK /\ UNCHANGED rowVars
    BY <1>1 DEF TypeOK, StoreTypeOK, RowsTypeOK, vars
  <2>2. RowsKept
    BY <2>1, NothingKeeps
  <2>3. TypeOK'
    BY <1>1 DEF TypeOK, StoreTypeOK, OutsideTypeOK, RequestTypeOK, NotifyTypeOK,
                CompensateTypeOK, vars, rowVars, gatewayVars, endpointVars
  <2> QED BY <2>2, <2>3
<1>2. CASE Next
  BY <1>2, ClientKeeps, WebhookKeeps, NotificationKeeps, WorkerKeeps, CrashKeeps,
     PayerKeeps, AdminKeeps DEF Next
<1> QED BY <1>1, <1>2

LEMMA InitTyped == Init => TypeOK
<1> SUFFICES ASSUME Init PROVE TypeOK
  OBVIOUS
<1>1. PICK t \in Tenants, c \in Channels, a \in Amounts :
        rows = [o \in Orders |-> IF o \in Backlog THEN BacklogRow(t, c, a) ELSE NoRow]
  BY DEF Init
<1>2. BacklogRow(t, c, a) \in Payment
  BY DEF BacklogRow, Payment, TradeNos, Statuses, CallbackStatuses
<1>3. StoreTypeOK
  BY <1>1, <1>2 DEF Init, StoreTypeOK, Tenant
<1>4. \A o \in Backlog : CaptureOf(o) \in Capture
  <2> TAKE o \in Backlog
  <2>1. o \in Orders /\ rows[o] = BacklogRow(t, c, a)
    BY <1>1, PayserverAssumption
  <2>2. rows[o].channel = c /\ rows[o].amount = a
    BY <2>1 DEF BacklogRow
  <2> QED BY <2>1, <2>2 DEF CaptureOf, Capture
<1>5. OutsideTypeOK
  BY <1>4, OutsideAssumption DEF Init, OutsideTypeOK
<1>6. RequestTypeOK /\ NotifyTypeOK /\ CompensateTypeOK
  BY DEF Init, CreatePaymentInit, NotifyInit, CompensateInit,
         RequestTypeOK, NotifyTypeOK, CompensateTypeOK
<1> QED BY <1>3, <1>5, <1>6 DEF TypeOK

-----------------------------------------------------------------------------
(***************************************************************************)
(* What a step can do to one row.                                          *)
(***************************************************************************)

Inserted(o) ==
    /\ ~Present(o)
    /\ rows'[o].status = "pending" /\ rows'[o].url = ""
    /\ rows'[o].callback = "n/a" /\ rows'[o].retries = 0
    /\ tenants[rows'[o].tenant].present

Linked(o) ==
    /\ rows[o].status = "pending" /\ rows'[o].status = "pending"
    /\ rows'[o].url = "link"
    /\ rows'[o].callback = rows[o].callback /\ rows'[o].retries = rows[o].retries
    /\ \E k \in checkouts : k.order = o

PaidUp(o) ==
    /\ rows[o].status = "pending" /\ rows'[o].status = "paid"
    /\ rows'[o].callback = rows[o].callback
    /\ \E c \in captures : Pays(c, o)

\* Somebody is about to give the callback of o up.
GivingUp(o) ==
    \/ \E h \in Handlers : hook[h].pc = "fail" /\ OrderIn(h) = o
    \/ \E r \in Replicas : worker[r].pc = "fail" /\ worker[r].now.order = o

Attempted(o) ==
    /\ rows[o].status = "paid"
    /\ rows'[o].callback \in {rows[o].callback, "success", "failed"}
    /\ rows'[o].callback = "failed" => rows[o].callback = "failed" \/ GivingUp(o)
    /\ rows'[o].callback = "success" => rows[o].callback = "success" \/ o \in satisfied

RowEffect ==
    \A o \in Orders : \/ rows'[o] = rows[o]
                      \/ Inserted(o)
                      \/ Linked(o)
                      \/ PaidUp(o)
                      \/ Attempted(o)

\* The callback statements, run for a paid row.
LEMMA CallbackEffect ==
    ASSUME RowsTypeOK, NEW o \in Orders, NEW STATE t, rows[o].status = "paid",
           \/ MarkCallbackSuccess(t, o) /\ o \in satisfied
           \/ IncrCallbackRetries(t, o)
           \/ MarkCallbackFailed(t, o) /\ GivingUp(o)
    PROVE  RowEffect
<1>0. rows[o] \in Payment
  BY PresentRow DEF Statuses
<1>1. CASE MarkCallbackSuccess(t, o) /\ o \in satisfied
  <2> DEFINE row == [rows[o] EXCEPT !.callback = "success"]
  <2>1. UpdateWhere(o, rows[o].tenant = t, row)
    BY <1>1 DEF MarkCallbackSuccess
  <2>2. row.callback = "success"
    BY <1>0 DEF Payment
  <2> HIDE DEF row
  <2>3. \A x \in Orders : rows'[x] = rows[x] \/ (x = o /\ rows'[x] = row)
    BY <2>1 DEF UpdateWhere, RowsTypeOK, rowVars
  <2> QED BY <1>1, <2>2, <2>3 DEF RowEffect, Attempted
<1>2. CASE IncrCallbackRetries(t, o)
  <2> DEFINE row == [rows[o] EXCEPT !.retries = @ + 1]
  <2>1. row.callback = rows[o].callback
    BY <1>0 DEF Payment
  <2>2. UpdateWhere(o, rows[o].tenant = t, row)
    BY <1>2 DEF IncrCallbackRetries
  <2> HIDE DEF row
  <2>3. \A x \in Orders : rows'[x] = rows[x] \/ (x = o /\ rows'[x] = row)
    BY <2>2 DEF UpdateWhere, RowsTypeOK, rowVars
  <2> QED BY <2>1, <2>3 DEF RowEffect, Attempted
<1>3. CASE MarkCallbackFailed(t, o) /\ GivingUp(o)
  <2> DEFINE row == [rows[o] EXCEPT !.callback = "failed"]
  <2>1. row.callback = "failed"
    BY <1>0 DEF Payment
  <2>2. UpdateWhere(o, rows[o].tenant = t, row)
    BY <1>3 DEF MarkCallbackFailed
  <2> HIDE DEF row
  <2>3. \A x \in Orders : rows'[x] = rows[x] \/ (x = o /\ rows'[x] = row)
    BY <2>2 DEF UpdateWhere, RowsTypeOK, rowVars
  <2> QED BY <1>3, <2>1, <2>3 DEF RowEffect, Attempted
<1> QED BY <1>1, <1>2, <1>3

\* A step that leaves the table alone has no effect on any row.
LEMMA NoEffect == UNCHANGED rowVars => RowEffect
  BY DEF RowEffect, rowVars

LEMMA ClientEffect ==
    ASSUME TypeOK, OnRecord, NEW q \in Requests, Client(q)
    PROVE  RowEffect
<1> DEFINE p == request[q]
<1>1. RowsTypeOK /\ RequestTypeOK
  BY DEF TypeOK, StoreTypeOK, RowsTypeOK
<1>2. CASE UNCHANGED rowVars
  BY <1>2, NoEffect
<1>3. CASE /\ InsertOrGetPayment(q)
           /\ ~Present(p.order) /\ tenants[p.tenant].present
           /\ InsertRow(p.order, p.tenant, p.channel, p.amount)
  <2>1. p.order \in Orders
    BY <1>1, <1>3, RequestMoves DEF InsertOrGetPayment, Request
  <2> DEFINE row == [tenant |-> p.tenant, channel |-> p.channel, amount |-> p.amount,
                     url |-> "", trade |-> "", status |-> "pending",
                     callback |-> "n/a", retries |-> 0]
  <2>2. \A x \in Orders : rows'[x] = IF x = p.order THEN row ELSE rows[x]
    BY <1>1, <1>3, <2>1 DEF InsertRow, RowsTypeOK
  <2>3. /\ row.status = "pending" /\ row.url = "" /\ row.callback = "n/a"
        /\ row.retries = 0 /\ row.tenant = p.tenant
    OBVIOUS
  <2>4. ~Present(p.order) /\ tenants[p.tenant].present
    BY <1>3
  <2> HIDE DEF row, p
  <2> QED BY <2>2, <2>3, <2>4 DEF RowEffect, Inserted
<1>4. CASE /\ SaveGatewayResult(q)
           /\ UpdatePaymentGatewayResult(p.order,
                IF p.channel = "stripe" THEN "session" ELSE "", "link")
  <2> DEFINE trade == IF p.channel = "stripe" THEN "session" ELSE ""
             row == [rows[p.order] EXCEPT !.trade = trade, !.url = "link"]
  <2>1. p.order \in Orders
    BY <1>1, <1>4, RequestMoves DEF SaveGatewayResult, Request
  <2>2. \E k \in checkouts : k.order = p.order
    BY <1>4 DEF SaveGatewayResult, OnRecord, LinksAreOpen
  <2>3. \A x \in Orders : \/ rows'[x] = rows[x]
                          \/ /\ x = p.order /\ Present(p.order)
                             /\ rows[p.order].status = "pending" /\ rows'[x] = row
    <3>1. UpdateWhere(p.order, rows[p.order].status = "pending", row)
      BY <1>4 DEF UpdatePaymentGatewayResult
    <3> HIDE DEF row, p
    <3> QED BY <1>1, <2>1, <3>1 DEF UpdateWhere, RowsTypeOK, rowVars
  <2>4. Present(p.order) => rows[p.order] \in Payment
    BY <1>1, <2>1, PresentRow
  <2>5. Present(p.order) => /\ row.status = rows[p.order].status /\ row.url = "link"
                            /\ row.callback = rows[p.order].callback
                            /\ row.retries = rows[p.order].retries
    BY <2>4 DEF Payment
  <2>6. \A x \in Orders : rows'[x] = rows[x] \/ Linked(x)
    <3> HIDE DEF row, p
    <3> QED BY <2>2, <2>3, <2>5 DEF Linked
  <2> QED BY <2>6 DEF RowEffect
<1> QED
  BY <1>2, <1>3, <1>4
     DEF Client, BeginRequest, CreatePaymentStep, Authenticate, InsertOrGetPayment,
         FetchExisting, CallGateway, SaveGatewayResult, StatementFails

LEMMA WebhookEffect ==
    ASSUME TypeOK, OnRecord, NEW h \in Handlers, Webhook(h)
    PROVE  RowEffect
<1> DEFINE c == hook[h].about
           o == OrderIn(h)
<1>1. RowsTypeOK /\ NotifyTypeOK
  BY DEF TypeOK, StoreTypeOK, RowsTypeOK
<1>2. CASE UNCHANGED rowVars
  BY <1>2, NoEffect
<1>3. CASE /\ MarkPaid(h)
           /\ MarkPaymentPaid(rows[o].tenant, o,
                IF c.channel = "stripe" THEN "session" ELSE "transaction")
  <2> DEFINE trade == IF c.channel = "stripe" THEN "session" ELSE "transaction"
             row == [rows[o] EXCEPT !.status = "paid", !.trade = trade]
  <2>1. o \in Orders
    BY <1>1, <1>3, HookOrder DEF MarkPaid
  <2>2. c \in captures /\ Pays(c, o)
    BY <1>3 DEF MarkPaid, OnRecord, HooksOnRecord, OrderIn
  <2>3. \A x \in Orders : \/ rows'[x] = rows[x]
                          \/ /\ x = o /\ Present(o)
                             /\ rows[o].status = "pending" /\ rows'[x] = row
    <3>1. UpdateWhere(o, rows[o].tenant = rows[o].tenant /\ rows[o].status = "pending", row)
      BY <1>3 DEF MarkPaymentPaid
    <3> HIDE DEF row, o
    <3> QED BY <1>1, <2>1, <3>1 DEF UpdateWhere, RowsTypeOK, rowVars
  <2>4. Present(o) => rows[o] \in Payment
    BY <1>1, <2>1, PresentRow
  <2>5. Present(o) => row.status = "paid" /\ row.callback = rows[o].callback
    BY <2>4 DEF Payment
  <2>6. \A x \in Orders : rows'[x] = rows[x] \/ PaidUp(x)
    <3> HIDE DEF row, o, c
    <3> QED BY <2>2, <2>3, <2>5 DEF PaidUp
  <2> QED BY <2>6 DEF RowEffect
<1>4. CASE /\ Record(h)
           /\ \/ hook[h].pc = "success" /\ MarkCallbackSuccess(rows[o].tenant, o)
              \/ hook[h].pc = "retry" /\ IncrCallbackRetries(rows[o].tenant, o)
              \/ hook[h].pc = "fail" /\ MarkCallbackFailed(rows[o].tenant, o)
  <2>1. o \in Orders
    BY <1>1, <1>4, HookOrder DEF Record
  <2>2. rows[o].status = "paid" /\ (hook[h].pc = "success" => o \in satisfied)
    BY <1>4 DEF Record, OnRecord, HooksOnRecord, PhaseTwo, OrderIn
  <2>3. hook[h].pc = "fail" => GivingUp(o)
    BY DEF GivingUp
  <2> HIDE DEF o
  <2> QED BY <1>1, <1>4, <2>1, <2>2, <2>3, CallbackEffect
<1> QED
  BY <1>2, <1>3, <1>4
     DEF Webhook, NotifyStep, AnswerSent, Lookup, MarkPaid, ResolveTenant, Deliver, Record,
         StatementFails, OrderIn

LEMMA WorkerEffect ==
    ASSUME TypeOK, OnRecord, NEW r \in Replicas, Worker(r)
    PROVE  RowEffect
<1> DEFINE o == worker[r].now.order
           t == worker[r].now.tenant
<1>1. RowsTypeOK /\ CompensateTypeOK
  BY DEF TypeOK, StoreTypeOK, RowsTypeOK
<1>2. CASE UNCHANGED rowVars
  BY <1>2, NoEffect
<1>3. CASE /\ RecordAgain(r)
           /\ \/ worker[r].pc = "success" /\ MarkCallbackSuccess(t, o)
              \/ worker[r].pc = "retry" /\ IncrCallbackRetries(t, o)
              \/ worker[r].pc = "fail" /\ MarkCallbackFailed(t, o)
  <2>1. o \in Orders
    BY <1>1, <1>3, WorkMoves DEF RecordAgain, Attempts, Snapshot
  <2>2. rows[o].status = "paid" /\ (worker[r].pc = "success" => o \in satisfied)
    BY <1>3 DEF RecordAgain, OnRecord, WorkOnRecord, SnapshotIsRight, Attempts
  <2>3. worker[r].pc = "fail" => GivingUp(o)
    BY DEF GivingUp
  <2> HIDE DEF o, t
  <2> QED BY <1>1, <1>3, <2>1, <2>2, <2>3, CallbackEffect
<1> QED
  BY <1>2, <1>3
     DEF Worker, CompensateStep, BeginPass, EndPass, Skip, Attempt, DeliverAgain, RecordAgain,
         StatementFails

LEMMA StepEffect ==
    ASSUME TypeOK, OnRecord, [Next]_vars
    PROVE  RowEffect
<1>1. CASE UNCHANGED rowVars
  BY <1>1, NoEffect
<1> QED
  BY <1>1, ClientEffect, WebhookEffect, WorkerEffect
     DEF Next, Notification, Receive, Crash, Payer, Admin, vars

-----------------------------------------------------------------------------
(***************************************************************************)
(* What a step can do to one request.                                      *)
(***************************************************************************)

\* q goes on with what it was asked for, and no other request moves.
Moves(q, pc) ==
    /\ request'[q].pc = pc
    /\ request'[q].order = request[q].order
    /\ request'[q].tenant = request[q].tenant
    /\ request'[q].channel = request[q].channel
    /\ request'[q].amount = request[q].amount
    /\ \A r \in Requests \ {q} : request'[r] = request[r]

OwnRow(q) ==
    LET p == request[q]
    IN  Present(p.order) /\ rows[p.order].tenant = p.tenant

HasCheckout(o) == \E k \in checkouts : k.order = o

\* The step leaves the link of o on record, or o paid.
LinkOnRecord(o) == rows'[o].status = "pending" => rows'[o].url = "link"

RequestEffect(q) ==
    \/ request'[q] = request[q]
    \/ request'[q].pc \in {"insert", "lost"}
    \/ /\ request[q].pc = "insert" /\ Moves(q, "fetch")
       /\ Present(request[q].order)
    \/ /\ request[q].pc = "insert" /\ Moves(q, "gateway")
       /\ ~Present(request[q].order)
       /\ rows'[request[q].order].status # "absent"
       /\ Terms(rows'[request[q].order]) =
            <<request[q].tenant, request[q].channel, request[q].amount>>
    \/ /\ request[q].pc = "gateway" /\ Moves(q, "save")
       /\ \E k \in checkouts' : k.order = request[q].order
    \/ /\ Moves(q, "done")
       /\ request'[q].answer \in {"200 link", "200 empty"} => OwnRow(q)
       /\ request'[q].answer = "200 link" =>
            HasCheckout(request[q].order) /\ LinkOnRecord(request[q].order)

LEMMA RequestGoes ==
    ASSUME RequestTypeOK, NEW q \in Requests, request[q] \in Request
    PROVE  /\ \A pc \in {"fetch", "gateway", "save"} : GoTo(q, pc) => Moves(q, pc)
           /\ \A answer \in Answers :
                 Answer(q, answer) => Moves(q, "done") /\ request'[q].answer = answer
  BY DEF RequestTypeOK, Request, GoTo, Answer, Moves

LEMMA OwnStep ==
    ASSUME TypeOK, OnRecord, NEW q \in Requests, Client(q)
    PROVE  RequestEffect(q)
<1> DEFINE p == request[q]
<1>1. RowsTypeOK /\ RequestTypeOK
  BY DEF TypeOK, StoreTypeOK, RowsTypeOK
<1>2. p.pc \in {"insert", "fetch", "gateway", "save"} =>
        /\ p \in Request /\ p.order \in Orders
        /\ \A pc \in {"fetch", "gateway", "save"} : GoTo(q, pc) => Moves(q, pc)
        /\ \A answer \in Answers :
              Answer(q, answer) => Moves(q, "done") /\ request'[q].answer = answer
  BY <1>1, RequestMoves, RequestGoes DEF Request
<1>3. CASE BeginRequest(q)
  <2>1. request'[q].pc = "insert"
    BY <1>1, <1>3 DEF BeginRequest, Authenticate, RequestTypeOK
  <2> QED BY <2>1 DEF RequestEffect
<1>4. CASE InsertOrGetPayment(q)
  <2>1. CASE Present(p.order) /\ GoTo(q, "fetch")
    BY <1>2, <1>4, <2>1 DEF InsertOrGetPayment, RequestEffect
  <2>2. CASE /\ ~Present(p.order) /\ GoTo(q, "gateway")
             /\ InsertRow(p.order, p.tenant, p.channel, p.amount)
    <3> DEFINE row == [tenant |-> p.tenant, channel |-> p.channel, amount |-> p.amount,
                       url |-> "", trade |-> "", status |-> "pending",
                       callback |-> "n/a", retries |-> 0]
    <3>1. rows'[p.order] = row
      BY <1>1, <1>2, <1>4, <2>2 DEF InsertOrGetPayment, InsertRow, RowsTypeOK
    <3>2. row.status = "pending" /\ Terms(row) = <<p.tenant, p.channel, p.amount>>
      BY DEF Terms
    <3>3. rows'[p.order].status # "absent" /\ Terms(rows'[p.order]) = Terms(row)
      BY <3>1, <3>2
    <3> HIDE DEF row
    <3> QED BY <1>2, <1>4, <2>2, <3>2, <3>3 DEF InsertOrGetPayment, RequestEffect, Present
  <2>3. CASE Answer(q, "500")
    BY <1>2, <1>4, <2>3 DEF InsertOrGetPayment, RequestEffect, Answers
  <2> QED BY <1>4, <2>1, <2>2, <2>3 DEF InsertOrGetPayment
<1>5. CASE FetchExisting(q)
  <2>1. Present(p.order)
    BY <1>5 DEF FetchExisting, OnRecord, RequestsOnRecord
  <2>2. rows[p.order] \in Payment
    BY <1>1, <1>2, <1>5, <2>1, PresentRow DEF FetchExisting
  <2>3. rows[p.order].status \in Statuses
    BY <2>2 DEF Payment
  <2>4. rows[p.order].status # "paid" /\ rows[p.order].url = "link" => HasCheckout(p.order)
    BY <1>2, <1>5, <2>3 DEF FetchExisting, OnRecord, LinksAreOpen, Statuses, HasCheckout
  <2>5. \/ Answer(q, "500") \/ Answer(q, "409")
        \/ rows[p.order].tenant = p.tenant /\ Answer(q, "200 empty")
        \/ /\ rows[p.order].tenant = p.tenant /\ rows[p.order].status # "paid"
           /\ rows[p.order].url = "link" /\ Answer(q, "200 link")
    BY <1>5 DEF FetchExisting
  <2>6. rows' = rows
    BY <1>5 DEF FetchExisting, rowVars
  <2>7. rows[p.order].url = "link" => LinkOnRecord(p.order)
    BY <2>6 DEF LinkOnRecord
  <2> QED
    BY <1>2, <1>5, <2>1, <2>4, <2>5, <2>7 DEF FetchExisting, RequestEffect, OwnRow, Answers
<1>6. CASE CallGateway(q)
  <2>1. CASE /\ checkouts' = checkouts \cup
                   {[order |-> p.order, no |-> OutTradeNo(p.order), channel |-> p.channel,
                     amount |-> p.amount, by |-> q]}
             /\ GoTo(q, "save")
    <3> DEFINE k == [order |-> p.order, no |-> OutTradeNo(p.order), channel |-> p.channel,
                     amount |-> p.amount, by |-> q]
    <3>1. k \in checkouts' /\ k.order = p.order
      BY <2>1
    <3> HIDE DEF k
    <3> QED BY <1>2, <1>6, <2>1, <3>1 DEF CallGateway, RequestEffect
  <2>2. CASE Answer(q, "502")
    BY <1>2, <1>6, <2>2 DEF CallGateway, RequestEffect, Answers
  <2> QED BY <1>6, <2>1, <2>2 DEF CallGateway
<1>7. CASE SaveGatewayResult(q)
  <2>1. OwnRow(q) /\ HasCheckout(p.order)
    BY <1>7 DEF SaveGatewayResult, OnRecord, RequestsOnRecord, LinksAreOpen, OwnRow,
                HasCheckout, Terms
  <2> DEFINE trade == IF p.channel = "stripe" THEN "session" ELSE ""
             row == [rows[p.order] EXCEPT !.trade = trade, !.url = "link"]
             Update == UpdatePaymentGatewayResult(p.order, trade, "link")
  <2>2. (Update /\ Answer(q, "200 link")) \/ Answer(q, "500")
    BY <1>7 DEF SaveGatewayResult
  <2>3. ASSUME Update
        PROVE  LinkOnRecord(p.order)
    <3>1. p.order \in Orders /\ Present(p.order)
      BY <1>2, <1>7, <2>1 DEF SaveGatewayResult, OwnRow
    <3>2. row.url = "link"
      BY <1>1, <3>1, PresentRow DEF Payment
    <3>3. UpdateWhere(p.order, rows[p.order].status = "pending", row)
      BY <2>3 DEF UpdatePaymentGatewayResult
    <3> HIDE DEF row, p
    <3> QED
      BY <1>1, <3>1, <3>2, <3>3 DEF UpdateWhere, LinkOnRecord, RowsTypeOK, rowVars
  <2> HIDE DEF Update, trade, row
  <2> QED BY <1>2, <1>7, <2>1, <2>2, <2>3 DEF SaveGatewayResult, RequestEffect, Answers
<1> QED BY <1>3, <1>4, <1>5, <1>6, <1>7 DEF Client, CreatePaymentStep

LEMMA RequestStep ==
    ASSUME TypeOK, OnRecord, [Next]_vars, NEW q \in Requests
    PROVE  RequestEffect(q)
<1>1. CASE UNCHANGED request
  BY <1>1 DEF RequestEffect
<1>2. ASSUME NEW r \in Requests, Client(r)
      PROVE  RequestEffect(q)
  <2>1. CASE r = q
    BY <1>2, <2>1, OwnStep
  <2>2. CASE r # q
    <3>1. request'[q] = request[q]
      BY <1>2, <2>2
         DEF TypeOK, RequestTypeOK, Client, BeginRequest, CreatePaymentStep, Authenticate,
             InsertOrGetPayment, FetchExisting, CallGateway, SaveGatewayResult, GoTo, Answer
    <3> QED BY <3>1 DEF RequestEffect
  <2> QED BY <2>1, <2>2
<1>3. ASSUME NEW r \in Replicas, Crash(r)
      PROVE  RequestEffect(q)
  BY <1>3 DEF Crash, RequestEffect, Lost
<1> QED
  BY <1>1, <1>2, <1>3 DEF Next, Webhook, Notification, Worker, Payer, Admin, vars

-----------------------------------------------------------------------------
(***************************************************************************)
(* What a step can do to the gateways.                                     *)
(***************************************************************************)

GatewayEffect ==
    /\ checkouts \subseteq checkouts'
    /\ captures \subseteq captures'
    /\ \A x, y \in checkouts' \ checkouts : x = y
    /\ \A k \in checkouts' \ checkouts :
         \E q \in Requests : /\ request[q].pc = "gateway" /\ request'[q].pc # "gateway"
                             /\ k.order = request[q].order
                             /\ k.channel = request[q].channel
    /\ \A c \in captures' \ captures :
         \E k \in checkouts : c.order = k.order /\ c.channel = k.channel

\* What is acknowledged by a step is on record already.
AckEffect ==
    /\ acked \subseteq acked'
    /\ \A c \in acked' \ acked :
         rows[OrderOf(c)].status = "paid" /\ Pays(c, OrderOf(c))

LEMMA GatewayStep ==
    ASSUME TypeOK, OnRecord, [Next]_vars
    PROVE  GatewayEffect
<1>1. CASE UNCHANGED <<checkouts, captures>>
  BY <1>1 DEF GatewayEffect
<1>2. ASSUME NEW q \in Requests, CallGateway(q), captures' = captures
      PROVE  GatewayEffect
  <2> DEFINE p == request[q]
             k == [order |-> p.order, no |-> OutTradeNo(p.order), channel |-> p.channel,
                   amount |-> p.amount, by |-> q]
  <2>1. k.order = p.order /\ k.channel = p.channel
    OBVIOUS
  <2>2. checkouts' = checkouts \/ checkouts' = checkouts \cup {k}
    BY <1>2 DEF CallGateway
  <2>3. p.pc = "gateway" /\ request'[q].pc # "gateway"
    <3>1. GoTo(q, "save") \/ Answer(q, "502")
      BY <1>2 DEF CallGateway
    <3>2. request[q] \in Request
      BY <1>2, RequestMoves DEF CallGateway, TypeOK
    <3> QED BY <1>2, <3>1, <3>2, RequestGoes DEF CallGateway, TypeOK, Moves, Answers
  <2> HIDE DEF k
  <2> QED BY <1>2, <2>1, <2>2, <2>3 DEF GatewayEffect
<1>3. ASSUME NEW k \in checkouts, NEW a \in Amounts, Payer(k, a)
      PROVE  GatewayEffect
  <2> DEFINE c == [order |-> k.order, no |-> k.no, channel |-> k.channel, amount |-> a]
  <2>1. c.order = k.order /\ c.channel = k.channel
    OBVIOUS
  <2>2. captures' = captures \cup {c} /\ checkouts' = checkouts
    BY <1>3 DEF Payer, Pay
  <2> HIDE DEF c
  <2> QED BY <2>1, <2>2 DEF GatewayEffect
<1>4. ASSUME NEW q \in Requests, Client(q)
      PROVE  GatewayEffect
  BY <1>1, <1>2, <1>4
     DEF Client, BeginRequest, CreatePaymentStep, Authenticate, InsertOrGetPayment,
         FetchExisting, CallGateway, SaveGatewayResult, gatewayVars
<1>5. ASSUME NEW h \in Handlers, Webhook(h)
      PROVE  GatewayEffect
  BY <1>1, <1>5
     DEF Webhook, NotifyStep, AnswerSent, Lookup, MarkPaid, ResolveTenant, Deliver, Record,
         Return, gatewayVars
<1>6. ASSUME NEW r \in Replicas, Worker(r)
      PROVE  GatewayEffect
  BY <1>1, <1>6
     DEF Worker, CompensateStep, BeginPass, EndPass, Skip, Attempt, DeliverAgain, RecordAgain,
         gatewayVars
<1> QED
  BY <1>1, <1>3, <1>4, <1>5, <1>6
     DEF Next, Notification, Receive, Crash, Admin, vars, gatewayVars

\* Whichever gateway it comes from, a notification that is accepted leads to a row
\* that is there, and agrees with it.
LEMMA AcceptedPays ==
    ASSUME NEW c \in Capture, Accepted(c)
    PROVE  Present(OrderOf(c)) /\ Pays(c, OrderOf(c))
<1>1. c.channel \in {"stripe", "alipay", "wechat"}
  BY CaptureShape, ConstantsAssumption
<1> QED BY <1>1 DEF Accepted, StripeAccepts, AlipayAccepts, WechatAccepts, Pays

LEMMA AckStep ==
    ASSUME TypeOK, OnRecord, [Next]_vars
    PROVE  AckEffect
<1>1. CASE UNCHANGED acked
  BY <1>1 DEF AckEffect
<1>2. ASSUME NEW h \in Handlers, acked' \subseteq acked \cup {hook[h].about},
             acked \subseteq acked', hook[h].pc \in PhaseTwo
      PROVE  AckEffect
  BY <1>2 DEF AckEffect, OnRecord, HooksOnRecord
<1>3. ASSUME NEW h \in Handlers, Lookup(h)
      PROVE  AckEffect
  <2> DEFINE c == hook[h].about
  <2>1. c \in Capture
    BY <1>3, HookOrder DEF Lookup, TypeOK
  <2>2. \/ acked' = acked
        \/ /\ acked' = acked \cup {c} /\ Accepted(c)
           /\ rows[OrderOf(c)].status = "paid"
    BY <1>3 DEF Lookup, Return, gatewayVars
  <2> HIDE DEF c
  <2> QED BY <2>1, <2>2, AcceptedPays DEF AckEffect
<1>4. ASSUME NEW h \in Handlers, Webhook(h)
      PROVE  AckEffect
  BY <1>1, <1>2, <1>3, <1>4
     DEF Webhook, NotifyStep, AnswerSent, MarkPaid, ResolveTenant, Deliver, Record,
         Return, gatewayVars, PhaseTwo
<1>5. ASSUME NEW q \in Requests, Client(q)
      PROVE  AckEffect
  BY <1>1, <1>5
     DEF Client, BeginRequest, CreatePaymentStep, Authenticate, InsertOrGetPayment,
         FetchExisting, CallGateway, SaveGatewayResult, gatewayVars
<1>6. ASSUME NEW r \in Replicas, Worker(r)
      PROVE  AckEffect
  BY <1>1, <1>6
     DEF Worker, CompensateStep, BeginPass, EndPass, Skip, Attempt, DeliverAgain, RecordAgain,
         gatewayVars
<1> QED
  BY <1>1, <1>4, <1>5, <1>6
     DEF Next, Notification, Receive, Crash, Payer, Pay, Admin, vars, gatewayVars

-----------------------------------------------------------------------------
(***************************************************************************)
(* What a step can do to one webhook.                                      *)
(***************************************************************************)

HookEffect(h) ==
    LET c == hook[h].about
    IN  \/ hook'[h] = hook[h]
        \/ hook'[h].pc = "idle"
        \/ hook'[h].pc = "lookup" /\ hook'[h].about \in captures
        \/ /\ hook[h].pc # "idle" /\ hook'[h].about = c
           /\ hook'[h].pc # "lookup"
           /\ Present(OrderOf(c)) /\ Pays(c, OrderOf(c))
           /\ hook'[h].pc \in PhaseTwo => rows'[OrderOf(c)].status = "paid"
           /\ hook'[h].pc = "success" => OrderOf(c) \in satisfied'

\* A webhook goes on about the same notification, or is over.
LEMMA HookGoes ==
    ASSUME NotifyTypeOK, NEW h \in Handlers, hook[h].pc # "idle"
    PROVE  /\ \A pc : HookGoTo(h, pc) => /\ hook'[h].pc = pc
                                        /\ hook'[h].about = hook[h].about
           /\ \A ok : Return(h, ok) => hook'[h].pc = "idle"
<1>1. hook[h] \in Hook
  BY HookMoves
<1>2. NoHook.pc = "idle"
  BY DEF NoHook
<1> HIDE DEF NoHook
<1>3. ASSUME NEW pc, HookGoTo(h, pc)
      PROVE  hook'[h].pc = pc /\ hook'[h].about = hook[h].about
  <2>1. hook'[h] = [hook[h] EXCEPT !.pc = pc]
    BY <1>3 DEF HookGoTo, NotifyTypeOK
  <2> QED BY <1>1, <2>1 DEF Hook
<1>4. ASSUME NEW ok, Return(h, ok)
      PROVE  hook'[h].pc = "idle"
  BY <1>2, <1>4 DEF Return, NotifyTypeOK
<1> QED BY <1>3, <1>4

LEMMA OwnHookStep ==
    ASSUME TypeOK, OnRecord, NEW h \in Handlers, Webhook(h)
    PROVE  HookEffect(h)
<1> DEFINE c == hook[h].about
<1>1. RowsTypeOK /\ NotifyTypeOK
  BY DEF TypeOK, StoreTypeOK, RowsTypeOK
<1>2. CASE AnswerSent(h)
  BY <1>2 DEF AnswerSent, HookEffect
<1>3. CASE Lookup(h)
  <2>1. CASE \E ok : Return(h, ok)
    BY <1>1, <1>3, <2>1, HookGoes DEF Lookup, HookEffect
  <2>2. CASE /\ Accepted(c)
             /\ HookGoTo(h, IF rows[OrderOf(c)].status = "pending" THEN "paid" ELSE "tenant")
    <3> DEFINE pc == IF rows[OrderOf(c)].status = "pending" THEN "paid" ELSE "tenant"
    <3>1. c \in Capture /\ OrderOf(c) \in Orders
      BY <1>1, <1>3, HookOrder DEF Lookup
    <3>2. Present(OrderOf(c)) /\ Pays(c, OrderOf(c))
      BY <2>2, <3>1, AcceptedPays
    <3>3. rows[OrderOf(c)].status \in Statuses
      BY <1>1, <3>1, <3>2, PresentRow DEF Payment
    <3>4. hook'[h].pc = pc /\ hook'[h].about = c
      BY <1>1, <1>3, <2>2, HookGoes DEF Lookup
    <3>5. pc \in PhaseTwo => rows'[OrderOf(c)].status = "paid"
      BY <1>3, <3>3 DEF Lookup, Statuses, PhaseTwo, rowVars
    <3>6. pc # "lookup" /\ pc # "success"
      OBVIOUS
    <3> HIDE DEF c, pc
    <3> QED BY <1>3, <3>2, <3>4, <3>5, <3>6 DEF Lookup, HookEffect, c
  <2> QED BY <1>3, <2>1, <2>2 DEF Lookup
<1>4. CASE MarkPaid(h)
  <2>1. CASE Return(h, FALSE)
    BY <1>1, <1>4, <2>1, HookGoes DEF MarkPaid, HookEffect
  <2>2. CASE /\ HookGoTo(h, "tenant")
             /\ MarkPaymentPaid(rows[OrderOf(c)].tenant, OrderOf(c),
                  IF c.channel = "stripe" THEN "session" ELSE "transaction")
    <3> DEFINE trade == IF c.channel = "stripe" THEN "session" ELSE "transaction"
               row == [rows[OrderOf(c)] EXCEPT !.status = "paid", !.trade = trade]
    <3>1. /\ OrderOf(c) \in Orders
          /\ Present(OrderOf(c)) /\ Pays(c, OrderOf(c))
      BY <1>1, <1>4, HookOrder DEF MarkPaid, OnRecord, HooksOnRecord
    <3>2. rows[OrderOf(c)] \in Payment
      BY <1>1, <3>1, PresentRow
    <3>3. row.status = "paid"
      BY <3>2 DEF Payment
    <3>4. UpdateWhere(OrderOf(c), rows[OrderOf(c)].tenant = rows[OrderOf(c)].tenant
                                 /\ rows[OrderOf(c)].status = "pending", row)
      BY <2>2 DEF MarkPaymentPaid
    <3>5. rows[OrderOf(c)].status \in Statuses
      BY <3>2 DEF Payment
    <3>6. rows'[OrderOf(c)].status = "paid"
      <4> HIDE DEF row, c
      <4> QED BY <1>1, <3>1, <3>3, <3>4, <3>5 DEF UpdateWhere, RowsTypeOK, Statuses, rowVars
    <3>7. hook'[h].pc = "tenant" /\ hook'[h].about = c
      BY <1>1, <1>4, <2>2, HookGoes DEF MarkPaid
    <3> HIDE DEF c
    <3> QED BY <1>4, <3>1, <3>6, <3>7 DEF MarkPaid, HookEffect, c
  <2> QED BY <1>4, <2>1, <2>2 DEF MarkPaid
<1>5. CASE hook[h].pc \in PhaseTwo /\ (ResolveTenant(h) \/ Deliver(h) \/ Record(h))
  <2>1. Present(OrderOf(c)) /\ Pays(c, OrderOf(c)) /\ rows[OrderOf(c)].status = "paid"
    BY <1>5 DEF OnRecord, HooksOnRecord
  <2>2. hook[h].pc # "idle"
    BY <1>5 DEF PhaseTwo
  <2>3. CASE \E ok : Return(h, ok)
    BY <1>1, <2>2, <2>3, HookGoes DEF HookEffect
  <2>4. CASE HookGoTo(h, "fail") /\ UNCHANGED rows
    BY <1>1, <2>1, <2>2, <2>4, HookGoes DEF HookEffect
  <2>5. CASE /\ hook' = [hook EXCEPT ![h].pc = "send",
                                     ![h].target = tenants[rows[OrderOf(c)].tenant].callback]
             /\ UNCHANGED rows
    <3>1. hook[h] \in Hook
      BY <1>1, <2>2, HookMoves
    <3>2. hook'[h].pc = "send" /\ hook'[h].about = c
      BY <1>1, <2>5, <3>1 DEF NotifyTypeOK, Hook
    <3> QED BY <2>1, <2>2, <2>5, <3>2 DEF HookEffect
  <2>6. CASE /\ HookGoTo(h, "success") /\ OrderOf(c) \in satisfied'
             /\ UNCHANGED rows
    BY <1>1, <2>1, <2>2, <2>6, HookGoes DEF HookEffect
  <2>7. CASE HookGoTo(h, "retry") /\ UNCHANGED rows
    BY <1>1, <2>1, <2>2, <2>7, HookGoes DEF HookEffect
  <2> QED
    BY <1>5, <2>3, <2>4, <2>5, <2>6, <2>7
       DEF ResolveTenant, Deliver, Record, SendAccepted, rowVars, OrderIn
<1> QED
  BY <1>2, <1>3, <1>4, <1>5
     DEF Webhook, NotifyStep, ResolveTenant, Deliver, Record, PhaseTwo

LEMMA HookStep ==
    ASSUME TypeOK, OnRecord, [Next]_vars, NEW h \in Handlers
    PROVE  HookEffect(h)
<1>1. CASE UNCHANGED hook
  BY <1>1 DEF HookEffect
<1>2. ASSUME NEW g \in Handlers, Webhook(g)
      PROVE  HookEffect(h)
  <2>1. CASE g = h
    BY <1>2, <2>1, OwnHookStep
  <2>2. CASE g # h
    <3>1. hook'[h] = hook[h]
      BY <1>2, <2>2
         DEF TypeOK, NotifyTypeOK, Webhook, NotifyStep, AnswerSent, Lookup, MarkPaid,
             ResolveTenant, Deliver, Record, HookGoTo, Return
    <3> QED BY <3>1 DEF HookEffect
  <2> QED BY <2>1, <2>2
<1>3. ASSUME NEW c \in captures, NEW g \in Handlers, Receive(g, c)
      PROVE  HookEffect(h)
  <2>1. hook'[h] = hook[h] \/ hook'[h] = [pc |-> "lookup", about |-> c, target |-> "none"]
    BY <1>3 DEF Receive, TypeOK, NotifyTypeOK
  <2> QED BY <2>1 DEF HookEffect
<1>4. ASSUME NEW r \in Replicas, Crash(r)
      PROVE  HookEffect(h)
  BY <1>4 DEF Crash, HookEffect, NoHook
<1> QED
  BY <1>1, <1>2, <1>3, <1>4 DEF Next, Client, Notification, Worker, Payer, Admin, vars

-----------------------------------------------------------------------------
(***************************************************************************)
(* What a step can do to the endpoints, to one worker and to the tenants.  *)
(***************************************************************************)

EndpointEffect ==
    /\ satisfied \subseteq satisfied'
    /\ \A o \in Orders : rows[o].status # "paid" =>
         /\ o \in received' => o \in received
         /\ o \in satisfied' => o \in satisfied
         /\ failed'[o] = failed[o]

LEMMA SendEffect ==
    ASSUME TypeOK, NEW o \in Orders, rows[o].status = "paid", NEW STATE target,
           SendAccepted(o, target) \/ SendFails(o, target)
    PROVE  EndpointEffect
  BY DEF TypeOK, OutsideTypeOK, SendAccepted, SendFails, EndpointEffect

LEMMA EndpointStep ==
    ASSUME TypeOK, OnRecord, [Next]_vars
    PROVE  EndpointEffect
<1>1. CASE UNCHANGED endpointVars
  BY <1>1 DEF EndpointEffect, endpointVars
<1>2. ASSUME NEW h \in Handlers, Deliver(h)
      PROVE  EndpointEffect
  <2>1. OrderIn(h) \in Orders
    BY <1>2, HookOrder DEF Deliver, TypeOK
  <2>2. rows[OrderIn(h)].status = "paid"
    BY <1>2 DEF Deliver, OnRecord, HooksOnRecord, PhaseTwo, OrderIn
  <2> QED BY <1>2, <2>1, <2>2, SendEffect DEF Deliver
<1>3. ASSUME NEW r \in Replicas, DeliverAgain(r)
      PROVE  EndpointEffect
  <2>1. worker[r].now.order \in Orders
    BY <1>3, WorkMoves DEF DeliverAgain, Attempts, Snapshot, TypeOK
  <2>2. rows[worker[r].now.order].status = "paid"
    BY <1>3 DEF DeliverAgain, OnRecord, WorkOnRecord, SnapshotIsRight, Attempts
  <2> QED BY <1>3, <2>1, <2>2, SendEffect DEF DeliverAgain
<1>4. ASSUME NEW q \in Requests, Client(q)
      PROVE  EndpointEffect
  BY <1>1, <1>4
     DEF Client, BeginRequest, CreatePaymentStep, Authenticate, InsertOrGetPayment,
         FetchExisting, CallGateway, SaveGatewayResult
<1>5. ASSUME NEW h \in Handlers, Webhook(h)
      PROVE  EndpointEffect
  BY <1>1, <1>2, <1>5
     DEF Webhook, NotifyStep, AnswerSent, Lookup, MarkPaid, ResolveTenant, Record
<1>6. ASSUME NEW r \in Replicas, Worker(r)
      PROVE  EndpointEffect
  BY <1>1, <1>3, <1>6
     DEF Worker, CompensateStep, BeginPass, EndPass, Skip, Attempt, RecordAgain
<1> QED
  BY <1>1, <1>4, <1>5, <1>6
     DEF Next, Notification, Receive, Crash, Payer, Admin, vars

WorkEffect(r) ==
    \/ worker'[r] = worker[r]
    \/ worker'[r].pc = "idle"
    \/ /\ \A p \in worker'[r].batch : SnapshotIsRight(p)
       /\ worker'[r].pc \in Attempts => SnapshotIsRight(worker'[r].now)
       /\ worker'[r].pc = "success" => worker'[r].now.order \in satisfied'

LEMMA OwnWorkStep ==
    ASSUME TypeOK, OnRecord, NEW r \in Replicas, Worker(r)
    PROVE  WorkEffect(r)
<1> DEFINE w == worker[r]
<1>1. CompensateTypeOK
  BY DEF TypeOK
<1>2. ASSUME NEW batch, worker' = [worker EXCEPT ![r] = Pass(batch)],
             \A p \in batch : SnapshotIsRight(p)
      PROVE  WorkEffect(r)
  <2>1. worker'[r].batch = batch /\ worker'[r].pc = "pass"
    BY <1>1, <1>2 DEF CompensateTypeOK, Pass
  <2> QED BY <1>2, <2>1 DEF WorkEffect, Attempts
<1>3. w.pc # "idle" => \A p \in w.batch : SnapshotIsRight(p)
  BY DEF OnRecord, WorkOnRecord
<1>4. CASE BeginPass(r)
  <2>1. CASE UNCHANGED worker
    BY <2>1 DEF WorkEffect
  <2>2. ASSUME NEW B \in ListPendingCallbacks(BatchSize, MaxRetries),
               worker' = [worker EXCEPT ![r] = Pass({SnapshotOf(o) : o \in B})]
        PROVE  WorkEffect(r)
    <3>1. \A o \in B : rows[o].status = "paid"
      BY DEF ListPendingCallbacks, AwaitingCallback
    <3>2. \A p \in {SnapshotOf(o) : o \in B} : SnapshotIsRight(p)
      BY <3>1 DEF SnapshotOf, SnapshotIsRight
    <3> QED BY <1>2, <2>2, <3>2
  <2> QED BY <1>4, <2>1, <2>2 DEF BeginPass
<1>5. CASE EndPass(r)
  BY <1>1, <1>5 DEF EndPass, CompensateTypeOK, WorkEffect, NoWork
<1>6. CASE Skip(r)
  BY <1>2, <1>3, <1>6 DEF Skip
<1>7. CASE Attempt(r)
  <2>1. PICK p \in w.batch :
          \/ worker' = [worker EXCEPT ![r] = Pass(w.batch \ {p})]
          \/ \E pc \in {"fail", "send"} : \E target :
                worker' = [worker EXCEPT ![r] = [pc |-> pc, batch |-> w.batch \ {p},
                                                 now |-> p, target |-> target]]
    BY <1>7 DEF Attempt
  <2>2. \A s \in w.batch : SnapshotIsRight(s)
    BY <1>3, <1>7 DEF Attempt
  <2>3. ASSUME NEW pc \in {"fail", "send"}, NEW target,
               worker' = [worker EXCEPT ![r] = [pc |-> pc, batch |-> w.batch \ {p},
                                                now |-> p, target |-> target]]
        PROVE  WorkEffect(r)
    <3>1. worker'[r].pc = pc /\ worker'[r].batch = w.batch \ {p} /\ worker'[r].now = p
      BY <1>1, <2>3 DEF CompensateTypeOK
    <3> QED BY <2>2, <2>3, <3>1 DEF WorkEffect
  <2> QED BY <1>2, <2>1, <2>2, <2>3
<1>8. CASE DeliverAgain(r)
  <2>1. w \in [pc : Attempts, batch : SUBSET Snapshot, now : Snapshot,
               target : Callbacks \cup {"none"}]
    BY <1>1, <1>8, WorkMoves DEF DeliverAgain, Work
  <2>2. \A pc \in {"success", "retry"} : WorkerGoTo(r, pc) =>
          worker'[r].pc = pc /\ worker'[r].batch = w.batch /\ worker'[r].now = w.now
    BY <1>1, <2>1 DEF WorkerGoTo, CompensateTypeOK
  <2>3. SnapshotIsRight(w.now) /\ \A p \in w.batch : SnapshotIsRight(p)
    BY <1>3, <1>8 DEF DeliverAgain, OnRecord, WorkOnRecord, Attempts
  <2>4. \/ WorkerGoTo(r, "success") /\ w.now.order \in satisfied'
        \/ WorkerGoTo(r, "retry")
    BY <1>8 DEF DeliverAgain, SendAccepted
  <2> QED BY <2>2, <2>3, <2>4 DEF WorkEffect
<1>9. CASE RecordAgain(r)
  BY <1>2, <1>3, <1>9 DEF RecordAgain
<1> QED BY <1>4, <1>5, <1>6, <1>7, <1>8, <1>9 DEF Worker, CompensateStep

LEMMA WorkStep ==
    ASSUME TypeOK, OnRecord, [Next]_vars, NEW r \in Replicas
    PROVE  WorkEffect(r)
<1>1. CASE UNCHANGED worker
  BY <1>1 DEF WorkEffect
<1>2. ASSUME NEW s \in Replicas, Worker(s)
      PROVE  WorkEffect(r)
  <2>1. CASE s = r
    BY <1>2, <2>1, OwnWorkStep
  <2>2. CASE s # r
    <3>1. worker'[r] = worker[r]
      BY <1>2, <2>2
         DEF TypeOK, CompensateTypeOK, Worker, CompensateStep, BeginPass, EndPass, Skip,
             Attempt, DeliverAgain, RecordAgain, WorkerGoTo
    <3> QED BY <3>1 DEF WorkEffect
  <2> QED BY <2>1, <2>2
<1>3. ASSUME NEW s \in Replicas, Crash(s)
      PROVE  WorkEffect(r)
  <2>1. worker'[r] = worker[r] \/ worker'[r] = NoWork
    BY <1>3 DEF Crash, TypeOK, CompensateTypeOK
  <2> QED BY <2>1 DEF WorkEffect, NoWork
<1> QED
  BY <1>1, <1>2, <1>3 DEF Next, Client, Webhook, Notification, Payer, Admin, vars

(***************************************************************************)
(* What a worker takes up: it keeps to the rows it has in hand, or to those*)
(* that the query has just returned.                                       *)
(***************************************************************************)
Listed(p) ==
    /\ p.order \in Orders
    /\ rows[p.order].status = "paid" /\ rows[p.order].callback = "pending"
    /\ p.retries < MaxRetries

TakenEffect(r) ==
    \A p \in Taken(worker'[r]) : p \in Taken(worker[r]) \/ Listed(p)

LEMMA OwnTakenStep ==
    ASSUME TypeOK, NEW r \in Replicas, Worker(r)
    PROVE  TakenEffect(r)
<1> DEFINE w == worker[r]
<1>1. CompensateTypeOK
  BY DEF TypeOK
<1>2. ASSUME NEW batch, worker' = [worker EXCEPT ![r] = Pass(batch)]
      PROVE  Taken(worker'[r]) = batch
  <2>1. worker'[r].batch = batch /\ worker'[r].pc = "pass"
    BY <1>1, <1>2 DEF CompensateTypeOK, Pass
  <2> QED BY <2>1 DEF Taken, Attempts
<1>3. w.pc # "idle" => w.batch \subseteq Taken(w)
  BY DEF Taken
<1>4. CASE BeginPass(r)
  <2>1. CASE UNCHANGED worker
    BY <2>1 DEF TakenEffect
  <2>2. ASSUME NEW B \in ListPendingCallbacks(BatchSize, MaxRetries),
               worker' = [worker EXCEPT ![r] = Pass({SnapshotOf(o) : o \in B})]
        PROVE  TakenEffect(r)
    <3>1. \A o \in B : /\ o \in Orders /\ rows[o].status = "paid"
                       /\ rows[o].callback = "pending" /\ rows[o].retries < MaxRetries
      BY DEF ListPendingCallbacks, AwaitingCallback
    <3>2. \A p \in {SnapshotOf(o) : o \in B} : Listed(p)
      BY <3>1 DEF SnapshotOf, Listed
    <3> QED BY <1>2, <2>2, <3>2 DEF TakenEffect
  <2> QED BY <1>4, <2>1, <2>2 DEF BeginPass
<1>5. CASE EndPass(r)
  <2>1. worker'[r].pc = "idle"
    BY <1>1, <1>5 DEF EndPass, CompensateTypeOK, NoWork
  <2> QED BY <2>1 DEF TakenEffect, Taken
<1>6. CASE Skip(r)
  BY <1>2, <1>3, <1>6 DEF Skip, TakenEffect
<1>7. CASE Attempt(r)
  <2>1. PICK p \in w.batch :
          \/ worker' = [worker EXCEPT ![r] = Pass(w.batch \ {p})]
          \/ \E pc \in {"fail", "send"} : \E target :
                worker' = [worker EXCEPT ![r] = [pc |-> pc, batch |-> w.batch \ {p},
                                                 now |-> p, target |-> target]]
    BY <1>7 DEF Attempt
  <2>2. w.batch \subseteq Taken(w)
    BY <1>3, <1>7 DEF Attempt
  <2>3. ASSUME NEW pc \in {"fail", "send"}, NEW target,
               worker' = [worker EXCEPT ![r] = [pc |-> pc, batch |-> w.batch \ {p},
                                                now |-> p, target |-> target]]
        PROVE  TakenEffect(r)
    <3>1. worker'[r].batch = w.batch \ {p} /\ worker'[r].now = p
      BY <1>1, <2>3 DEF CompensateTypeOK
    <3>2. Taken(worker'[r]) \subseteq w.batch
      BY <3>1 DEF Taken
    <3> QED BY <2>2, <3>2 DEF TakenEffect
  <2>4. CASE worker' = [worker EXCEPT ![r] = Pass(w.batch \ {p})]
    BY <1>2, <2>2, <2>4 DEF TakenEffect
  <2> QED BY <2>1, <2>3, <2>4
<1>8. CASE DeliverAgain(r)
  <2>1. w \in [pc : Attempts, batch : SUBSET Snapshot, now : Snapshot,
               target : Callbacks \cup {"none"}]
    BY <1>1, <1>8, WorkMoves DEF DeliverAgain, Work
  <2>2. PICK pc \in {"success", "retry"} : WorkerGoTo(r, pc)
    BY <1>8 DEF DeliverAgain
  <2>3. worker'[r].batch = w.batch /\ worker'[r].now = w.now
    BY <1>1, <2>1, <2>2 DEF WorkerGoTo, CompensateTypeOK
  <2>4. Taken(w) = w.batch \cup {w.now}
    BY <1>8 DEF DeliverAgain, Taken, Attempts
  <2>5. Taken(worker'[r]) \subseteq Taken(w)
    BY <2>3, <2>4 DEF Taken
  <2> QED BY <2>5 DEF TakenEffect
<1>9. CASE RecordAgain(r)
  BY <1>2, <1>3, <1>9 DEF RecordAgain, TakenEffect
<1> QED BY <1>4, <1>5, <1>6, <1>7, <1>8, <1>9 DEF Worker, CompensateStep

LEMMA TakenStep ==
    ASSUME TypeOK, [Next]_vars, NEW r \in Replicas
    PROVE  TakenEffect(r)
<1>1. CASE worker'[r] = worker[r]
  BY <1>1 DEF TakenEffect
<1>2. ASSUME NEW s \in Replicas, Worker(s)
      PROVE  TakenEffect(r)
  <2>1. CASE s = r
    BY <1>2, <2>1, OwnTakenStep
  <2>2. CASE s # r
    <3>1. worker'[r] = worker[r]
      BY <1>2, <2>2
         DEF TypeOK, CompensateTypeOK, Worker, CompensateStep, BeginPass, EndPass, Skip,
             Attempt, DeliverAgain, RecordAgain, WorkerGoTo
    <3> QED BY <1>1, <3>1
  <2> QED BY <2>1, <2>2
<1>3. ASSUME NEW s \in Replicas, Crash(s)
      PROVE  TakenEffect(r)
  <2>1. worker'[r] = worker[r] \/ worker'[r] = NoWork
    BY <1>3 DEF Crash, TypeOK, CompensateTypeOK
  <2>2. NoWork.pc = "idle"
    BY DEF NoWork
  <2> QED BY <1>1, <2>1, <2>2 DEF TakenEffect, Taken
<1> QED
  BY <1>1, <1>2, <1>3 DEF Next, Client, Webhook, Notification, Payer, Admin, vars

\* A tenant disappears only in a step that leaves the payments alone, and only
\* if it owns none.
TenantEffect ==
    \A t \in Tenants :
        tenants[t].present /\ ~tenants'[t].present =>
            /\ UNCHANGED rows
            /\ \A o \in Orders : Present(o) => rows[o].tenant # t

LEMMA TenantStep ==
    ASSUME TypeOK, [Next]_vars
    PROVE  TenantEffect
<1>1. CASE UNCHANGED tenants
  BY <1>1 DEF TenantEffect
<1>2. ASSUME NEW t \in Tenants, Admin(t)
      PROVE  TenantEffect
  <2>1. tenants \in [Tenants -> Tenant] /\ UNCHANGED rows
    BY <1>2 DEF TypeOK, StoreTypeOK, Admin, rowVars
  <2>2. ASSUME NEW active \in BOOLEAN, NEW callback \in Callbacks,
               UpdateTenant(t, active, callback)
        PROVE  TenantEffect
    <3>1. tenants'[t] = [tenants[t] EXCEPT !.active = active, !.callback = callback]
      BY <2>1, <2>2 DEF UpdateTenant
    <3>2. tenants'[t].present = tenants[t].present
      BY <2>1, <3>1 DEF Tenant
    <3>3. \A s \in Tenants \ {t} : tenants'[s] = tenants[s]
      BY <2>1, <2>2 DEF UpdateTenant
    <3> QED BY <3>2, <3>3 DEF TenantEffect
  <2>3. CASE DeleteTenant(t)
    BY <2>1, <2>3 DEF DeleteTenant, TenantEffect
  <2> QED BY <1>2, <2>2, <2>3 DEF Admin
<1>3. ASSUME NEW q \in Requests, Client(q)
      PROVE  UNCHANGED tenants
  BY <1>3
     DEF Client, BeginRequest, CreatePaymentStep, Authenticate, InsertOrGetPayment,
         FetchExisting, CallGateway, SaveGatewayResult
<1>4. ASSUME NEW h \in Handlers, Webhook(h)
      PROVE  UNCHANGED tenants
  BY <1>4
     DEF Webhook, NotifyStep, AnswerSent, Lookup, MarkPaid, ResolveTenant, Deliver, Record
<1>5. ASSUME NEW r \in Replicas, Worker(r)
      PROVE  UNCHANGED tenants
  BY <1>5
     DEF Worker, CompensateStep, BeginPass, EndPass, Skip, Attempt, DeliverAgain, RecordAgain
<1> QED
  BY <1>1, <1>2, <1>3, <1>4, <1>5 DEF Next, Notification, Receive, Crash, Payer, vars

=============================================================================
