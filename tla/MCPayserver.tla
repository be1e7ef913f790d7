---------------------------- MODULE MCPayserver ----------------------------
(***************************************************************************)
(* Payserver on small instances.  Every replica runs one worker; the hosts *)
(* of requests and webhooks alternate over the replicas.                   *)
(***************************************************************************)
EXTENDS Payserver, TLC

CONSTANTS t1, t2, q1, q2, h1, h2, r1, r2

\* A UUID with its hyphens and without, which have one number at the gateways.
\* The first comes back; the second leads to the first, if that is on record, and
\* to nobody otherwise, like any id that does not come back.
Uuid == [text |-> "long", hyphens |-> "uuid"]
Compact == [text |-> "long", hyphens |-> "none"]

Plain == [text |-> "short", hyphens |-> "none"]
Another == [text |-> "brief", hyphens |-> "none"]

OneOrder == {Uuid}
SharedNumber == {Uuid, Compact}
OldOrders == {Plain, Another}
OldAndNew == SharedNumber \cup OldOrders

OneHost == [x \in Requests \cup Handlers |-> r1]

TwoHosts == [x \in Requests \cup Handlers |-> IF x \in {q2, h2} THEN r2 ELSE r1]

\* All but older, which only the list query of a worker looks at.
WithoutOlder == <<rows, tenants, gatewayVars, endpointVars, upsets, request, hook, worker>>

Alike == Permutations(Requests) \cup Permutations(Handlers) \cup Permutations(Tenants)

=============================================================================
