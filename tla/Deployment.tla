----------------------------- MODULE Deployment -----------------------------
(***************************************************************************)
(* A deployment over its life: the operator edits the configuration, the   *)
(* process boots from it part by part, serves and dies, while trades at    *)
(* the gateways stay open and their notifications keep coming.             *)
(*                                                                         *)
(* A handler is one step here: what can happen between its statements is   *)
(* the business of Payserver.  Tenants and callbacks are left out.         *)
(***************************************************************************)
EXTENDS Config, OrderNumber, Wire, FiniteSets

CONSTANTS
    Ids,         \* order ids of the requests
    Amounts,     \* amounts in fen, of requests and of payments
    First,       \* the keys of the first configuration file
    Editable,    \* the keys the operator may set or remove later
    MaxUpsets    \* edits, failures and crashes

ASSUME DeploymentAssumption ==
    /\ Ids \subseteq OrderId
    /\ Amounts \subseteq 1..MaxInt
    /\ First \subseteq Keys /\ Editable \subseteq Keys
    /\ MaxUpsets \in Nat

VARIABLES
    file, env,   \* the keys set in the configuration file and in the environment
    process,     \* the one process: where it is, its configuration and its gateways
    rows,        \* rows[o]: the row of order o
    trades,      \* open at the gateways, each with the order it was opened for
    captures,    \* made at the gateways
    upsets       \* edits, failures and crashes that may still come

vars == <<file, env, process, rows, trades, captures, upsets>>

\* The order of runServer.
After == [store |-> "wechat", wechat |-> "alipay", alipay |-> "stripe", stripe |-> "oidc",
          oidc |-> "up"]

Down == [pc |-> "down", given |-> {}, gateways |-> {}]

NoRow == [status |-> "none"]
Row == [status : {"pending", "paid"}, channel : Gateways, amount : Amounts]

\* A gateway knows the order by the number it was given, the amount as it
\* understood it, and whether it is to notify; for is the order that was meant.
Trade == [channel : Gateways, no : Texts, amount : 1..MaxInt, notifies : BOOLEAN, for : Ids]
Capture == {n \in Trade : n.amount \in Amounts}

TypeOK ==
    /\ file \subseteq Keys /\ env \subseteq Keys
    /\ process \in [pc : {"down", "up"} \cup DOMAIN After, given : SUBSET Keys, gateways : SUBSET Gateways]
    /\ rows \in [Ids -> {NoRow} \cup Row]
    /\ trades \subseteq Trade /\ captures \subseteq Capture
    /\ upsets \in 0..MaxUpsets

Init ==
    /\ file = First /\ env = {} /\ process = Down
    /\ rows = [o \in Ids |-> NoRow] /\ trades = {} /\ captures = {}
    /\ upsets = MaxUpsets

-----------------------------------------------------------------------------
(***************************************************************************)
(* The operator.  An edit shows only when the process is started again.    *)
(***************************************************************************)
Upset == upsets > 0 /\ upsets' = upsets - 1

Toggle(k, S) == IF k \in S THEN S \ {k} ELSE S \cup {k}

Edit(k) ==
    /\ \/ file' = Toggle(k, file) /\ UNCHANGED env
       \/ env' = Toggle(k, env) /\ UNCHANGED file
    /\ Upset
    /\ UNCHANGED <<process, rows, trades, captures>>

(***************************************************************************)
(* The process.  An error on the way up ends it, whatever was built.       *)
(***************************************************************************)
Start ==
    /\ process.pc = "down"
    /\ Validate(Load(file, env))
    /\ process' = [pc |-> "store", given |-> Load(file, env), gateways |-> {}]
    /\ UNCHANGED <<file, env, rows, trades, captures, upsets>>

\* store.New returns: the database is there and migrated.
OpenStore ==
    /\ process.pc = "store"
    /\ process' = [process EXCEPT !.pc = After["store"]]
    /\ UNCHANGED <<file, env, rows, trades, captures, upsets>>

\* Whatever is built is registered as a gateway.
Build_AsGateway(part) ==
    /\ process.pc = part
    /\ process' =
         IF Wanted(part, process.given)
         THEN [process EXCEPT !.pc = After[part], !.gateways = @ \cup {part}]
         ELSE [process EXCEPT !.pc = After[part]]
    /\ UNCHANGED <<file, env, rows, trades, captures, upsets>>

Build(part) ==
    /\ process.pc = part
    /\ process' =
         IF ~Wanted(part, process.given) THEN [process EXCEPT !.pc = After[part]]
         ELSE IF ~Builds(part, process.given) THEN Down
         ELSE [process EXCEPT !.pc = After[part],
                              !.gateways = @ \cup ({part} \cap Gateways)]
    /\ UNCHANGED <<file, env, rows, trades, captures, upsets>>

\* The database, the certificates or the OIDC provider cannot be reached, a key
\* is not one, the port is taken, or the process crashes.
Die ==
    /\ process.pc # "down"
    /\ process' = Down
    /\ Upset
    /\ UNCHANGED <<file, env, rows, trades, captures>>

BootStep == Start \/ OpenStore \/ \E part \in Parts : Build(part)

-----------------------------------------------------------------------------
(***************************************************************************)
(* The process serves.  The router has a route for each gateway built.     *)
(***************************************************************************)
Serves(c) == process.pc = "up" /\ c \in process.gateways

\* Alipay understands the text it is sent; the others are sent the number.
Meaning == [fen \in Amounts |-> CHOOSE n \in 1..MaxInt : FormatAmount(fen) \in Notations(n)]

Understood(c, fen) == IF c = "alipay" THEN Meaning[fen] ELSE fen

\* No part of the server asks for the notify_url.
Opened(o, c, a) ==
    [channel |-> c, no |-> OutTradeNo(o), amount |-> Understood(c, a),
     notifies |-> c \in DOMAIN NotifyUrl => NotifyUrl[c] \in process.given, for |-> o]

\* The row is inserted first; the gateway may then fail.
CreatePayment(o, c, a) ==
    /\ Serves(c)
    /\ rows[o] = NoRow
    /\ rows' = [rows EXCEPT ![o] = [status |-> "pending", channel |-> c, amount |-> a]]
    /\ trades' \in {trades, trades \cup {Opened(o, c, a)}}
    /\ UNCHANGED <<file, env, process, captures, upsets>>

\* The payer pays a trade once, in full or not.
Pay(t, a) ==
    /\ \A n \in captures : n.for # t.for
    /\ captures' = captures \cup {[t EXCEPT !.amount = a]}
    /\ UNCHANGED <<file, env, process, rows, trades, upsets>>

\* The amounts that a handler may read from a notification.
Readings == [fen \in Amounts |-> {ParseYuanToFen(yuan) : yuan \in Notations(fen)}]

Told(n) == IF n.channel = "alipay" THEN Readings[n.amount] ELSE {n.amount}

\* A handler that refuses, or finds the row paid, changes nothing.
Notify(n) ==
    LET o == UuidFromCompact(n.no)
    IN  /\ n.notifies /\ Serves(n.channel)
        /\ o \in Ids /\ rows[o].status = "pending"
        /\ rows[o].amount \in Told(n)
        /\ n.channel = "stripe" => rows[o].channel = "stripe"
        /\ rows' = [rows EXCEPT ![o].status = "paid"]
        /\ UNCHANGED <<file, env, process, trades, captures, upsets>>

Next ==
    \/ BootStep
    \/ Die
    \/ \E k \in Editable : Edit(k)
    \/ \E o \in Ids, c \in Gateways, a \in Amounts : CreatePayment(o, c, a)
    \/ \E t \in trades, a \in Amounts : Pay(t, a)
    \/ \E n \in captures : Notify(n)

(***************************************************************************)
(* Fairness.  Something starts the process again when it has died, a boot  *)
(* goes on, and the gateways repeat their notifications.                   *)
(***************************************************************************)
Spec ==
    /\ Init /\ [][Next]_vars
    /\ WF_vars(BootStep)
    /\ \A o \in Ids : SF_vars(\E n \in captures : n.for = o /\ Notify(n))

-----------------------------------------------------------------------------
(***************************************************************************)
(* Properties.                                                             *)
(***************************************************************************)

\* A process that is booting is not stopped by the constructor of a part for
\* want of a setting that Validate should have asked for ("rather than a partial
\* boot that later fatals deep inside a gateway constructor"), and one that
\* serves Stripe has the secret its handler verifies with.
ValidatedIsComplete ==
    /\ \A part \in Parts :
         process.pc = part /\ Wanted(part, process.given) => Builds(part, process.given)
    /\ "stripe" \in process.gateways => "stripe.webhook_secret" \in process.given

\* A process that is up has every gateway its configuration asks for, and no
\* other: none is left out silently because a key beside it is missing.
ServesWhatIsConfigured ==
    process.pc = "up" =>
        process.gateways = {c \in Gateways : Trigger[c] \in process.given}

\* Where Alipay is offered, its gateway asks the payer for exactly the amount
\* of the row, and whichever amount is asked for is read back as it, up to the
\* largest integer, with or without the zeros at its end.
AmountsSurvive ==
    "alipay" \in process.gateways =>
        /\ RoundTrips
        /\ \A t \in trades : t.amount = rows[t.for].amount

\* An order is paid only by money captured under its number in exactly its amount,
\* however the amount is written, and with Stripe's only if it is to be paid by
\* Stripe.  It is the order's own money, at the gateway it was opened at, unless
\* another order on record has the same number.
Alone(o) == \A p \in Ids : p.text = o.text /\ rows[p] # NoRow => p = o

PaidInFull ==
    \A o \in Ids : rows[o].status = "paid" =>
        \E n \in captures :
            /\ UuidFromCompact(n.no) = o /\ n.amount = rows[o].amount
            /\ n.channel = "stripe" => rows[o].channel = "stripe"
            /\ Alone(o) => n.for = o /\ n.channel = rows[o].channel

\* Money captured in full for an order whose id comes back is recorded in the
\* end, although the process is restarted with other settings meanwhile: unless
\* it is up without the gateway, its configuration does not let it start, or the
\* trade was opened without a notify_url.
Refused(c) ==
    \/ process.pc = "up" /\ c \notin process.gateways
    \/ process.pc = "down" /\ ~Validate(Load(file, env))

CaptureInFull(o, c) ==
    \E n \in captures : /\ n.for = o /\ n.channel = c /\ n.notifies
                        /\ n.amount = rows[o].amount

CapturesRecorded ==
    \A o \in Ids, c \in Gateways :
        Returns(o) /\ CaptureInFull(o, c) ~> (rows[o].status = "paid" \/ Refused(c))

=============================================================================
