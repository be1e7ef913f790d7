------------------------------- MODULE Notify -------------------------------
(***************************************************************************)
(* The webhook handlers of internal/notify.  The three of them take the    *)
(* same steps, and differ in what they check of the row and in the trade   *)
(* number they store.  Notifications that fail verification touch nothing  *)
(* and are left out, and so are those that are not about a completed       *)
(* payment: the Alipay and Stripe handlers pass them over, the WeChat      *)
(* handler does not look, and counts on being sent no others.              *)
(*                                                                         *)
(* One action per call of the store or of the endpoint.  Phase 0 and 1 are *)
(* "lookup" and "paid"; from "tenant" on, the answer 200 has been written  *)
(* and the handler is in phase 2.                                          *)
(***************************************************************************)
EXTENDS Outside

CONSTANT Handlers  \* webhook requests that can be in progress at one time

VARIABLE hook      \* hook[h]: the goroutine that serves the notification h

NoHook == [pc |-> "idle"]

PhaseTwo == {"tenant", "send", "success", "retry", "fail"}

Hook == [pc : {"lookup", "paid"} \cup PhaseTwo, about : Capture,
         target : Callbacks \cup {"none"}]

NotifyTypeOK == hook \in [Handlers -> Hook \cup {NoHook}]

NotifyInit == hook = [h \in Handlers |-> NoHook]

\* The order that a handler makes out of the number in a notification.
OrderOf(c) == UuidFromCompact(c.no)

\* A handler that has looked up a row goes on with its order.
OrderIn(h) == OrderOf(hook[h].about)

HookGoTo(h, pc) == hook' = [hook EXCEPT ![h].pc = pc]

(***************************************************************************)
(* A gateway sends a notification again and again until it is answered     *)
(* with success, possibly while an earlier one is still being served.  One *)
(* sent after that is an upset.                                            *)
(***************************************************************************)
Receive(h, c) ==
    /\ hook[h].pc = "idle"
    /\ hook' = [hook EXCEPT ![h] = [pc |-> "lookup", about |-> c, target |-> "none"]]
    /\ IF c \in acked THEN Upset ELSE Calm
    /\ UNCHANGED <<rowVars, tenants, gatewayVars, endpointVars>>

(***************************************************************************)
(* The handler returns.  net/http holds the short answers of the handlers  *)
(* in its buffer, and sends them when the handler returns at the latest.   *)
(***************************************************************************)
Return(h, ok) ==
    /\ hook' = [hook EXCEPT ![h] = NoHook]
    /\ acked' = IF ok THEN acked \cup {hook[h].about} ELSE acked
    /\ UNCHANGED <<checkouts, captures>>

\* The answer 200 reaches the gateway while the handler is in phase 2.
AnswerSent(h) ==
    /\ hook[h].pc \in PhaseTwo
    /\ hook[h].about \notin acked
    /\ acked' = acked \cup {hook[h].about}
    /\ UNCHANGED <<rowVars, tenants, checkouts, captures, endpointVars, upsets, hook>>

\* The amount of the notification is not compared with the row.
Lookup_AnyAmount(h) ==
    LET c == hook[h].about
        payment == rows[OrderOf(c)]
    IN  /\ hook[h].pc = "lookup"
        /\ Present(OrderOf(c))
        /\ Calm
        /\ IF payment.status = "paid" /\ payment.callback = "success"
           THEN Return(h, TRUE)
           ELSE /\ HookGoTo(h, IF payment.status = "pending" THEN "paid" ELSE "tenant")
                /\ UNCHANGED gatewayVars
        /\ UNCHANGED <<rowVars, tenants, endpointVars>>

(***************************************************************************)
(* What each handler checks of the row: only Stripe's looks at its channel.*)
(***************************************************************************)
StripeAccepts(c) ==
    /\ Present(OrderOf(c))
    /\ rows[OrderOf(c)].channel = "stripe"
    /\ rows[OrderOf(c)].amount = c.amount

AlipayAccepts(c) == Present(OrderOf(c)) /\ rows[OrderOf(c)].amount = c.amount

WechatAccepts(c) == Present(OrderOf(c)) /\ rows[OrderOf(c)].amount = c.amount

Accepted(c) ==
    /\ c.channel = "stripe" => StripeAccepts(c)
    /\ c.channel = "alipay" => AlipayAccepts(c)
    /\ c.channel = "wechat" => WechatAccepts(c)

(***************************************************************************)
(* GetPaymentByOrderID, the checks on the row it returns, and the answer   *)
(* to a notification that has nothing left to do.                          *)
(***************************************************************************)
Lookup(h) ==
    LET c == hook[h].about
        payment == rows[OrderOf(c)]
        Duplicate == payment.status = "paid" /\ payment.callback = "success"
    IN  /\ hook[h].pc = "lookup"
        /\ \/ Upset /\ Return(h, FALSE)
           \/ ~Accepted(c) /\ Calm /\ Return(h, FALSE)
           \/ Accepted(c) /\ Duplicate /\ Calm /\ Return(h, TRUE)
           \/ /\ Accepted(c) /\ ~Duplicate /\ Calm
              /\ HookGoTo(h, IF payment.status = "pending" THEN "paid" ELSE "tenant")
              /\ UNCHANGED gatewayVars
        /\ UNCHANGED <<rowVars, tenants, endpointVars>>

\* An error of the statement is logged and phase 2 begins all the same.
MarkPaid_IgnoresError(h) ==
    LET c == hook[h].about
        Mark == MarkPaymentPaid(rows[OrderOf(c)].tenant, OrderOf(c),
                  IF c.channel = "stripe" THEN "session" ELSE "transaction")
    IN  /\ hook[h].pc = "paid"
        /\ (Mark /\ Calm) \/ StatementFails(Mark)
        /\ HookGoTo(h, "tenant")
        /\ UNCHANGED <<tenants, gatewayVars, endpointVars>>

\* An error of the statement is answered with success.
MarkPaid_AcksError(h) ==
    LET c == hook[h].about
        Mark == MarkPaymentPaid(rows[OrderOf(c)].tenant, OrderOf(c),
                  IF c.channel = "stripe" THEN "session" ELSE "transaction")
    IN  /\ hook[h].pc = "paid"
        /\ \/ Mark /\ Calm /\ HookGoTo(h, "tenant") /\ UNCHANGED gatewayVars
           \/ StatementFails(Mark) /\ Return(h, TRUE)
        /\ UNCHANGED <<tenants, endpointVars>>

(***************************************************************************)
(* Phase 1.  Whether the row was still pending makes no difference: the    *)
(* handler that loses the race goes on to phase 2 as well.                 *)
(***************************************************************************)
MarkPaid(h) ==
    LET c == hook[h].about
        Mark == MarkPaymentPaid(rows[OrderOf(c)].tenant, OrderOf(c),
                  IF c.channel = "stripe" THEN "session" ELSE "transaction")
    IN  /\ hook[h].pc = "paid"
        /\ \/ Mark /\ Calm /\ HookGoTo(h, "tenant") /\ UNCHANGED gatewayVars
           \/ StatementFails(Mark) /\ Return(h, FALSE)
        /\ UNCHANGED <<tenants, endpointVars>>

\* A failed lookup of the tenant is counted as a failed callback.
ResolveTenant_CountsError(h) ==
    LET t == tenants[rows[OrderIn(h)].tenant]
    IN  /\ hook[h].pc = "tenant"
        /\ \/ Upset /\ HookGoTo(h, "retry")
           \/ ~t.active /\ Calm /\ HookGoTo(h, "fail")
           \/ /\ t.active /\ Calm
              /\ hook' = [hook EXCEPT ![h].pc = "send", ![h].target = t.callback]
        /\ UNCHANGED <<rowVars, tenants, gatewayVars, endpointVars>>

(***************************************************************************)
(* GetTenantByID at the beginning of phase 2.  If it fails, the handler    *)
(* gives up and leaves the callback to the compensation worker.            *)
(***************************************************************************)
ResolveTenant(h) ==
    LET t == tenants[rows[OrderIn(h)].tenant]
    IN  /\ hook[h].pc = "tenant"
        /\ \/ Upset /\ Return(h, TRUE)
           \/ /\ ~t.active /\ Calm
              /\ HookGoTo(h, "fail")
              /\ UNCHANGED gatewayVars
           \/ /\ t.active /\ Calm
              /\ hook' = [hook EXCEPT ![h].pc = "send", ![h].target = t.callback]
              /\ UNCHANGED gatewayVars
        /\ UNCHANGED <<rowVars, tenants, endpointVars>>

Deliver(h) ==
    /\ hook[h].pc = "send"
    /\ \/ SendAccepted(OrderIn(h), hook[h].target) /\ HookGoTo(h, "success")
       \/ SendFails(OrderIn(h), hook[h].target) /\ HookGoTo(h, "retry")
    /\ UNCHANGED <<rowVars, tenants, gatewayVars>>

(***************************************************************************)
(* The statement that records the outcome; its error is ignored.           *)
(***************************************************************************)
Record(h) ==
    LET o == OrderIn(h)
        t == rows[o].tenant
        Statement == \/ hook[h].pc = "success" /\ MarkCallbackSuccess(t, o)
                     \/ hook[h].pc = "retry" /\ IncrCallbackRetries(t, o)
                     \/ hook[h].pc = "fail" /\ MarkCallbackFailed(t, o)
    IN  /\ hook[h].pc \in {"success", "retry", "fail"}
        /\ (Statement /\ Calm) \/ StatementFails(Statement)
        /\ Return(h, TRUE)
        /\ UNCHANGED <<tenants, endpointVars>>

NotifyStep(h) ==
    \/ Lookup(h)
    \/ MarkPaid(h)
    \/ ResolveTenant(h)
    \/ Deliver(h)
    \/ Record(h)

=============================================================================
