------------------------------ MODULE Outside ------------------------------
(***************************************************************************)
(* What payserver talks to: the payment gateways, the callback endpoints   *)
(* of the tenants, and everything that can go wrong.  None of it is code   *)
(* of this repository; it is modelled from how the code uses it, and it    *)
(* may do more than a real gateway would.                                  *)
(*                                                                         *)
(* Whatever disturbs the normal course (a statement or a call that fails,  *)
(* a crash, a notification sent again after it was acknowledged, a change  *)
(* made by an administrator) uses up one of MaxUpsets upsets.  That bound  *)
(* is what keeps every counter of the model finite, and it makes the       *)
(* liveness properties read "once the upsets have stopped".                *)
(***************************************************************************)
EXTENDS Store

CONSTANTS
    Requests,    \* POST /payments calls, each made once
    MaxUpsets    \* bound on the number of upsets

ASSUME OutsideAssumption == MaxUpsets \in Nat

VARIABLES
    checkouts,   \* checkouts opened at a gateway, with the request that did
    captures,    \* payments a gateway has captured
    acked,       \* captures whose notification was answered with success
    received,    \* orders whose tenant has received a callback
    satisfied,   \* orders for which CallbackClient.Send returned nil
    failed,      \* failed[o]: how often Send returned an error for o
    upsets       \* upsets left

gatewayVars == <<checkouts, captures, acked>>
endpointVars == <<received, satisfied, failed>>

(***************************************************************************)
(* The gateway knows the number it was given.  The order it was opened for *)
(* and the request that did are history: no notification tells them.       *)
(***************************************************************************)
Checkout == {[order |-> o, no |-> OutTradeNo(o), channel |-> c, amount |-> a, by |-> q] :
               o \in Orders, c \in Channels, a \in Amounts, q \in Requests}
Capture == {[order |-> o, no |-> OutTradeNo(o), channel |-> c, amount |-> a] :
              o \in Orders, c \in Channels, a \in Amounts}

OutsideTypeOK ==
    /\ checkouts \in SUBSET Checkout
    /\ captures \in SUBSET Capture
    /\ acked \in SUBSET Capture
    /\ received \in SUBSET Orders
    /\ satisfied \in SUBSET Orders
    /\ failed \in [Orders -> Nat]
    /\ upsets \in 0..MaxUpsets

Upset == upsets > 0 /\ upsets' = upsets - 1
Calm == UNCHANGED upsets

(***************************************************************************)
(* A statement whose error the caller sees may still have taken effect:    *)
(* the connection can be lost after the commit.                            *)
(***************************************************************************)
StatementFails(statement) == Upset /\ (statement \/ UNCHANGED rowVars)

(***************************************************************************)
(* The payer pays at an open checkout, once per order and gateway.  The    *)
(* amount captured is the gateway's own affair, which is why every handler *)
(* compares it; and nothing makes the payer wait until payserver has       *)
(* stored the gateway's answer.                                            *)
(***************************************************************************)
Pay(k, a) ==
    /\ \A c \in captures : <<c.order, c.channel>> # <<k.order, k.channel>>
    /\ captures' = captures \cup
                     {[order |-> k.order, no |-> k.no, channel |-> k.channel, amount |-> a]}
    /\ UNCHANGED <<checkouts, acked>>

(***************************************************************************)
(* CallbackClient.Send returns nil: there is no URL and nothing is posted, *)
(* or the endpoint answered 2xx.                                           *)
(***************************************************************************)
SendAccepted(o, target) ==
    /\ target \in {"endpoint", "none"}
    /\ satisfied' = satisfied \cup {o}
    /\ received' = IF target = "endpoint" THEN received \cup {o} ELSE received
    /\ UNCHANGED failed
    /\ Calm

(***************************************************************************)
(* CallbackClient.Send returns an error: the URL or the secret is no good  *)
(* and nothing is posted, or the post failed, before or after it reached   *)
(* the endpoint.                                                           *)
(***************************************************************************)
SendFails(o, target) ==
    /\ \/ target = "bad" /\ Calm /\ UNCHANGED received
       \/ target = "endpoint" /\ Upset /\ UNCHANGED received
       \/ target = "endpoint" /\ Upset /\ received' = received \cup {o}
    /\ failed' = [failed EXCEPT ![o] = @ + 1]
    /\ UNCHANGED satisfied

=============================================================================
