------------------------------- MODULE Store -------------------------------
(***************************************************************************)
(* The two tables of internal/store and the SQL statements run on them.    *)
(*                                                                         *)
(* Every statement runs on the connection pool in autocommit mode, so each *)
(* operator below is one atomic step: there is no transaction that spans   *)
(* two of them, whatever the Go function that issues them looks like.      *)
(*                                                                         *)
(* A row is keyed by order_id, which is UNIQUE; the generated id is not    *)
(* kept apart from it.  created_at, raw_notify and paid_at are left out.   *)
(* updated_at is kept as the order it induces (older), which is all that   *)
(* ORDER BY updated_at looks at.                                           *)
(***************************************************************************)
EXTENDS OrderNumber, Naturals, FiniteSets

CONSTANTS
    Orders,      \* order ids that tenants use or webhooks look up
    Tenants,     \* ids of the tenants that exist at the start
    Channels,    \* names of the configured gateways
    Amounts,     \* amounts in minor units
    Callbacks    \* kinds of callback configuration a tenant may have

(***************************************************************************)
(* Callback configurations, as CallbackClient.Send tells them apart:       *)
(* "none" has no URL, "bad" has a URL that is refused or no signing        *)
(* secret, "endpoint" can be posted to.                                    *)
(***************************************************************************)
ASSUME ConstantsAssumption ==
    /\ Orders \subseteq OrderId
    /\ \A o \in Orders : UuidFromCompact(OutTradeNo(o)) \in Orders
    /\ Channels \subseteq {"stripe", "alipay", "wechat"}
    /\ Callbacks \subseteq {"none", "bad", "endpoint"}

VARIABLES
    rows,        \* rows[o]: the payments row with order_id o, or NoRow
    older,       \* <<x, y>>: x was updated before y
    tenants      \* tenants[t]: the tenants row with id t

rowVars == <<rows, older>>

TradeNos == {"", "session", "transaction"}
Statuses == {"pending", "paid"}
CallbackStatuses == {"n/a", "pending", "success", "failed"}

Payment == [tenant : Tenants, channel : Channels, amount : Amounts,
            url : {"", "link"}, trade : TradeNos, status : Statuses,
            callback : CallbackStatuses, retries : Nat]

NoRow == [status |-> "absent"]

Tenant == [present : BOOLEAN, active : BOOLEAN, callback : Callbacks \cup {"none"}]

NoTenant == [present |-> FALSE, active |-> FALSE, callback |-> "none"]

StoreTypeOK ==
    /\ rows \in [Orders -> Payment \cup {NoRow}]
    /\ older \in SUBSET (Orders \X Orders)
    /\ tenants \in [Tenants -> Tenant]

Present(o) == rows[o].status # "absent"

(***************************************************************************)
(* updated_at = NOW(): o becomes the most recently updated row.            *)
(***************************************************************************)
Touch(o) ==
    older' = {e \in older : o \notin {e[1], e[2]}}
                \cup {<<x, o>> : x \in {y \in Orders \ {o} : Present(y)}}

(***************************************************************************)
(* UPDATE payments SET ..., updated_at = NOW() WHERE order_id = o AND cond *)
(***************************************************************************)
UpdateWhere(o, cond, row) ==
    IF Present(o) /\ cond
    THEN rows' = [rows EXCEPT ![o] = row] /\ Touch(o)
    ELSE UNCHANGED rowVars

(***************************************************************************)
(* The INSERT ... ON CONFLICT (order_id) DO NOTHING of InsertOrGetPayment, *)
(* in the case that there is no conflict and the foreign key holds.        *)
(***************************************************************************)
InsertRow(o, t, c, a) ==
    /\ rows' = [rows EXCEPT ![o] =
                  [tenant |-> t, channel |-> c, amount |-> a, url |-> "", trade |-> "",
                   status |-> "pending", callback |-> "n/a", retries |-> 0]]
    /\ Touch(o)

\* The guard is dropped: a gateway answer that comes late overwrites a paid row.
UpdatePaymentGatewayResult_Unguarded(o, trade, url) ==
    UpdateWhere(o, TRUE, [rows[o] EXCEPT !.trade = trade, !.url = url])

\* The arguments of the statement are swapped.
UpdatePaymentGatewayResult_Swapped(o, trade, url) ==
    UpdateWhere(o, rows[o].status = "pending",
                [rows[o] EXCEPT !.trade = url, !.url = trade])

UpdatePaymentGatewayResult(o, trade, url) ==
    UpdateWhere(o, rows[o].status = "pending",
                [rows[o] EXCEPT !.trade = trade, !.url = url])

\* Returns updated = rows[o] was pending; the handlers only log the result.
MarkPaymentPaid(t, o, trade) ==
    UpdateWhere(o, rows[o].tenant = t /\ rows[o].status = "pending",
                [rows[o] EXCEPT !.status = "paid", !.trade = trade])

MarkCallbackSuccess(t, o) ==
    UpdateWhere(o, rows[o].tenant = t, [rows[o] EXCEPT !.callback = "success"])

IncrCallbackRetries(t, o) ==
    UpdateWhere(o, rows[o].tenant = t, [rows[o] EXCEPT !.retries = @ + 1])

MarkCallbackFailed(t, o) ==
    UpdateWhere(o, rows[o].tenant = t, [rows[o] EXCEPT !.callback = "failed"])

(***************************************************************************)
(* ListPendingCallbacks: the results the query may return.  FOR UPDATE     *)
(* holds its locks only as long as the statement runs, so it excludes      *)
(* nobody afterwards.                                                      *)
(***************************************************************************)
AwaitingCallback(maxRetries) ==
    {o \in Orders : /\ rows[o].status = "paid"
                    /\ rows[o].callback = "pending"
                    /\ rows[o].retries < maxRetries}

ListPendingCallbacks(limit, maxRetries) ==
    LET eligible == AwaitingCallback(maxRetries)
    IN  {B \in SUBSET eligible :
            /\ IF Cardinality(eligible) <= limit
               THEN B = eligible
               ELSE Cardinality(B) = limit
            /\ \A x \in B, y \in eligible \ B : <<y, x>> \notin older}

(***************************************************************************)
(* UPDATE tenants: the columns of updateAllowedFields that matter here.    *)
(* A statement that matches no row changes nothing.                        *)
(***************************************************************************)
UpdateTenant(t, active, callback) ==
    /\ tenants[t].present
    /\ tenants' = [tenants EXCEPT ![t].active = active, ![t].callback = callback]

\* The row is deleted whatever refers to it.
DeleteTenant_Cascade(t) ==
    /\ tenants[t].present
    /\ tenants' = [tenants EXCEPT ![t] = NoTenant]

(***************************************************************************)
(* DELETE FROM tenants: payments.tenant_id is ON DELETE RESTRICT, so a     *)
(* tenant that owns a row is kept (ErrTenantHasPayments).                  *)
(***************************************************************************)
DeleteTenant(t) ==
    /\ tenants[t].present
    /\ \A o \in Orders : Present(o) => rows[o].tenant # t
    /\ tenants' = [tenants EXCEPT ![t] = NoTenant]

=============================================================================
