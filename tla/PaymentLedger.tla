--------------------------- MODULE PaymentLedger ---------------------------
(***************************************************************************)
(* What payserver promises, without requests, handlers or retries: an      *)
(* order is entered once, for one tenant and one amount; money is captured *)
(* only for an order that is entered, once, and at its own gateway; it is  *)
(* booked to the account that its order has at the gateways, which is that *)
(* order or another; an order is settled once, and only when exactly its   *)
(* amount is booked to it; its tenant is told about it only when it is     *)
(* settled.                                                                *)
(***************************************************************************)
CONSTANTS Orders, Tenants, Amounts, Channels,
          Account,    \* Account[o]: the order that money for o is booked to
          Selective,  \* channels whose money settles only orders of their own
          Settled     \* orders that are settled from the start

VARIABLES
    ledger,   \* ledger[o]: the entry of order o, or NoEntry
    money,    \* what the gateways have captured
    told      \* orders whose tenant has been told

vars == <<ledger, money, told>>

NoEntry == [state |-> "none"]
Entry == [state : {"open", "settled"}, tenant : Tenants, channel : Channels,
          amount : Amounts]
Money == [order : Orders, channel : Channels, amount : Amounts]

Proceeds(o) == [order |-> o, channel |-> ledger[o].channel, amount |-> ledger[o].amount]

Init ==
    /\ ledger \in [Orders -> Entry \cup {NoEntry}]
    /\ \A o \in Orders : ledger[o].state = IF o \in Settled THEN "settled" ELSE "none"
    /\ money = {Proceeds(o) : o \in Settled}
    /\ told = {}

Enter(o) ==
    /\ ledger[o] = NoEntry
    /\ \E t \in Tenants, c \in Channels, a \in Amounts :
         ledger' = [ledger EXCEPT ![o] = [state |-> "open", tenant |-> t,
                                          channel |-> c, amount |-> a]]
    /\ UNCHANGED <<money, told>>

\* A gateway captures money for an order that is entered, at its own gateway.
Receive(o) ==
    /\ ledger[o] # NoEntry
    /\ \A m \in money : m.order # o
    /\ \E a \in Amounts :
         money' = money \cup {[order |-> o, channel |-> ledger[o].channel, amount |-> a]}
    /\ UNCHANGED <<ledger, told>>

\* The money m is booked to o and makes up its amount.
Covers(m, o) ==
    /\ Account[m.order] = o
    /\ m.amount = ledger[o].amount
    /\ m.channel \in Selective => m.channel = ledger[o].channel

Settle(o) ==
    /\ ledger[o].state = "open"
    /\ \E m \in money : Covers(m, o)
    /\ ledger' = [ledger EXCEPT ![o].state = "settled"]
    /\ UNCHANGED <<money, told>>

Tell(o) ==
    /\ ledger[o].state = "settled"
    /\ told' = told \cup {o}
    /\ UNCHANGED <<ledger, money>>

Next == \E o \in Orders : Enter(o) \/ Receive(o) \/ Settle(o) \/ Tell(o)

\* Money booked to an order in full is not left lying.
Fairness == \A o \in Orders : WF_vars(Settle(o))

Safety == Init /\ [][Next]_vars

Spec == Safety /\ Fairness

=============================================================================
