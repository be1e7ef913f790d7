-------------------------- MODULE PayserverProofs --------------------------
(***************************************************************************)
(* The safety properties of Payserver, for every number of orders,         *)
(* tenants, requests, webhooks, replicas and upsets.                       *)
(*                                                                         *)
(* IInv is the inductive invariant: the types, what every goroutine and    *)
(* every gateway knows about the database (OnRecord), and the promises     *)
(* themselves.  Each conjunct is preserved because of the effects of a     *)
(* step (PayserverStepProofs), and because no step changes what is on      *)
(* record (RowsKept).                                                      *)
(***************************************************************************)
EXTENDS PayserverStepProofs, FiniteSetTheorems

\* What PaidIsCaptured says in any case; the rest follows from what is on record.
PaidByNumber ==
    \A o \in Orders : rows[o].status = "paid" => \E c \in captures : Pays(c, o)

Promises ==
    /\ OneCheckoutPerOrder
    /\ PaidByNumber
    /\ AckedIsPaid
    /\ CallbacksOnlyForPaid
    /\ SuccessIsEarned
    /\ AnswersAreOwn
    /\ LinkHandedOutIsKept
    /\ OwnerExists

IInv == TypeOK /\ OnRecord /\ Promises

-----------------------------------------------------------------------------
(***************************************************************************)
(* What is on record stays on record.                                      *)
(***************************************************************************)

Kept(o) ==
    /\ Present(o) => /\ rows'[o].status # "absent"
                     /\ rows'[o].tenant = rows[o].tenant
                     /\ rows'[o].channel = rows[o].channel
                     /\ rows'[o].amount = rows[o].amount
    /\ rows[o].status = "paid" => rows'[o].status = "paid"

LEMMA RecordKept ==
    ASSUME RowsKept
    PROVE  \A o \in Orders : Kept(o)
<1> SUFFICES ASSUME NEW o \in Orders PROVE Kept(o)
  OBVIOUS
<1>1. Present(o) => rows'[o].status # "absent" /\ Terms(rows'[o]) = Terms(rows[o])
  BY DEF RowsKept, Present
<1>2. rows[o].status = "paid" => PaymentRecord(rows'[o]) = PaymentRecord(rows[o])
  BY DEF RowsKept
<1>3. Terms(rows'[o]) = Terms(rows[o]) =>
        /\ rows'[o].tenant = rows[o].tenant
        /\ rows'[o].channel = rows[o].channel
        /\ rows'[o].amount = rows[o].amount
  BY DEF Terms
<1>4. PaymentRecord(rows'[o]) = PaymentRecord(rows[o]) =>
        rows'[o].status = rows[o].status
  BY DEF PaymentRecord
<1> QED BY <1>1, <1>2, <1>3, <1>4 DEF Kept

LEMMA GatewayOnRecordKept ==
    ASSUME TypeOK, TypeOK', OnRecord, RowsKept, GatewayEffect
    PROVE  GatewayOnRecord'
<1>1. \A o \in Orders : Kept(o)
  BY RecordKept
<1>2. \A k \in checkouts \cup captures : k.order \in Orders
  BY DEF TypeOK, OutsideTypeOK, Checkout, Capture
<1>3. \A k \in checkouts \cup captures :
        rows'[k.order].status # "absent" /\ rows'[k.order].channel = k.channel
  BY <1>1, <1>2 DEF Kept, OnRecord, GatewayOnRecord
<1>4. ASSUME NEW k \in checkouts' \ checkouts
      PROVE  rows'[k.order].status # "absent" /\ rows'[k.order].channel = k.channel
  <2>1. PICK q \in Requests : /\ request[q].pc = "gateway"
                              /\ k.order = request[q].order
                              /\ k.channel = request[q].channel
    BY <1>4 DEF GatewayEffect
  <2>2. /\ Present(request[q].order)
        /\ Terms(rows[request[q].order]) =
             <<request[q].tenant, request[q].channel, request[q].amount>>
    BY <2>1 DEF OnRecord, RequestsOnRecord
  <2>3. rows[k.order].channel = k.channel
    BY <2>1, <2>2 DEF Terms
  <2>4. request[q].order \in Orders
    BY <2>1, RequestMoves DEF TypeOK, Request
  <2> QED BY <1>1, <2>1, <2>2, <2>3, <2>4 DEF Kept
<1>5. ASSUME NEW c \in captures' \ captures
      PROVE  rows'[c.order].status # "absent" /\ rows'[c.order].channel = c.channel
  <2>1. PICK k \in checkouts : c.order = k.order /\ c.channel = k.channel
    BY <1>5 DEF GatewayEffect
  <2> QED BY <1>3, <2>1
<1> QED BY <1>3, <1>4, <1>5 DEF GatewayOnRecord, Present

LEMMA RequestsOnRecordKept ==
    ASSUME TypeOK, OnRecord, RowsKept, \A q \in Requests : RequestEffect(q)
    PROVE  RequestsOnRecord'
<1>1. \A o \in Orders : Kept(o)
  BY RecordKept
<1> SUFFICES ASSUME NEW q \in Requests
             PROVE  /\ request'[q].pc \in {"fetch", "gateway", "save"} =>
                         rows'[request'[q].order].status # "absent"
                    /\ request'[q].pc \in {"gateway", "save"} =>
                         Terms(rows'[request'[q].order]) =
                           <<request'[q].tenant, request'[q].channel, request'[q].amount>>
  BY DEF RequestsOnRecord, Present
<1>2. request[q].pc \in {"insert", "fetch", "gateway", "save"} => request[q].order \in Orders
  BY RequestMoves DEF TypeOK, Request
<1>3. RequestEffect(q)
  OBVIOUS
<1>4. /\ request[q].pc \in {"fetch", "gateway", "save"} => Present(request[q].order)
      /\ request[q].pc \in {"gateway", "save"} =>
           Terms(rows[request[q].order]) =
             <<request[q].tenant, request[q].channel, request[q].amount>>
  BY DEF OnRecord, RequestsOnRecord
<1>5. \A o \in Orders : Present(o) =>
        rows'[o].status # "absent" /\ Terms(rows'[o]) = Terms(rows[o])
  BY DEF RowsKept, Present
<1> QED BY <1>2, <1>3, <1>4, <1>5 DEF RequestEffect, Moves

LEMMA SoleCallerKept ==
    ASSUME TypeOK, OnRecord, GatewayEffect, \A q \in Requests : RequestEffect(q)
    PROVE  SoleCaller'
<1> DEFINE Begins(q) ==
             /\ ~Present(request[q].order) /\ request'[q].order = request[q].order
             /\ \A r \in Requests \ {q} : request'[r] = request[r]
<1>1. \A q \in Requests : request'[q].pc = "gateway" =>
        \/ request[q].pc = "gateway" /\ request'[q] = request[q]
        \/ Begins(q)
  BY DEF RequestEffect, Moves
<1>2. \A q \in Requests : request[q].pc = "gateway" => Present(request[q].order)
  BY DEF OnRecord, RequestsOnRecord
<1>3. \A k \in checkouts : Present(k.order)
  BY DEF OnRecord, GatewayOnRecord
<1> SUFFICES ASSUME NEW q \in Requests, request'[q].pc = "gateway"
             PROVE  /\ \A k \in checkouts' : k.order # request'[q].order
                    /\ \A r \in Requests \ {q} :
                         request'[r].pc = "gateway" => request'[r].order # request'[q].order
  BY DEF SoleCaller
<1>4. CASE request[q].pc = "gateway" /\ request'[q] = request[q]
  <2>1. /\ \A k \in checkouts : k.order # request[q].order
        /\ \A r \in Requests \ {q} :
             request[r].pc = "gateway" => request[r].order # request[q].order
    BY <1>4 DEF OnRecord, SoleCaller
  <2>2. \A k \in checkouts' \ checkouts : k.order # request[q].order
    BY <1>4, <2>1 DEF GatewayEffect
  <2>3. ASSUME NEW r \in Requests \ {q}, request'[r].pc = "gateway"
        PROVE  request'[r].order # request'[q].order
    BY <1>1, <1>2, <1>4, <2>1, <2>3
  <2> QED BY <1>4, <2>1, <2>2, <2>3
<1>5. CASE Begins(q)
  <2>1. \A k \in checkouts' \ checkouts : k.order # request[q].order
    BY <1>2, <1>5 DEF GatewayEffect
  <2> QED BY <1>2, <1>3, <1>5, <2>1
<1> QED BY <1>1, <1>4, <1>5

LEMMA LinksAreOpenKept ==
    ASSUME TypeOK, OnRecord, RowEffect, RowsKept, GatewayEffect,
           \A q \in Requests : RequestEffect(q)
    PROVE  LinksAreOpen'
<1>1. checkouts \subseteq checkouts'
  BY DEF GatewayEffect
<1>2. ASSUME NEW o \in Orders, rows'[o].status = "pending", rows'[o].url = "link"
      PROVE  \E k \in checkouts' : k.order = o
  <2>1. CASE rows'[o] = rows[o]
    BY <1>1, <1>2, <2>1 DEF OnRecord, LinksAreOpen
  <2>2. CASE Linked(o)
    BY <1>1, <2>2 DEF Linked
  <2>3. rows[o].status # "paid"
    BY <1>2, RecordKept DEF Kept
  <2> QED BY <1>2, <2>1, <2>2, <2>3 DEF RowEffect, Inserted, PaidUp, Attempted
<1>3. ASSUME NEW q \in Requests, request'[q].pc = "save"
      PROVE  \E k \in checkouts' : k.order = request'[q].order
  <2>1. RequestEffect(q)
    OBVIOUS
  <2>2. request[q].pc = "save" => \E k \in checkouts : k.order = request[q].order
    BY DEF OnRecord, LinksAreOpen
  <2> QED BY <1>1, <1>3, <2>1, <2>2 DEF RequestEffect, Moves
<1> QED BY <1>2, <1>3 DEF LinksAreOpen

LEMMA HooksOnRecordKept ==
    ASSUME TypeOK, OnRecord, RowsKept, GatewayEffect, EndpointEffect,
           \A h \in Handlers : HookEffect(h)
    PROVE  HooksOnRecord'
<1>1. \A o \in Orders : Kept(o)
  BY RecordKept
<1>2. captures \subseteq captures' /\ satisfied \subseteq satisfied'
  BY DEF GatewayEffect, EndpointEffect
<1>3. ASSUME NEW o \in Orders, NEW k, Present(o), Pays(k, o)
      PROVE  /\ rows'[o].status # "absent"
             /\ OrderOf(k) = o /\ k.amount = rows'[o].amount
             /\ k.channel = "stripe" => rows'[o].channel = "stripe"
  BY <1>1, <1>3 DEF Kept, Pays
<1> DEFINE Right(k, pc) ==
             /\ pc \in {"paid"} \cup PhaseTwo =>
                  /\ rows'[OrderOf(k)].status # "absent"
                  /\ k.amount = rows'[OrderOf(k)].amount
                  /\ k.channel = "stripe" => rows'[OrderOf(k)].channel = "stripe"
             /\ pc \in PhaseTwo => rows'[OrderOf(k)].status = "paid"
             /\ pc = "success" => OrderOf(k) \in satisfied'
<1> SUFFICES ASSUME NEW h \in Handlers
             PROVE  /\ hook'[h].pc # "idle" => hook'[h].about \in captures'
                    /\ Right(hook'[h].about, hook'[h].pc)
  BY DEF HooksOnRecord, Present, Pays, OrderOf
<1> DEFINE c == hook[h].about
<1>4. hook[h].pc # "idle" => c \in captures /\ OrderOf(c) \in Orders
  BY HookOrder DEF TypeOK, OnRecord, HooksOnRecord
<1>5. HookEffect(h)
  OBVIOUS
<1>6. CASE hook'[h] = hook[h]
  <2>1. /\ hook[h].pc \in {"paid"} \cup PhaseTwo => Present(OrderOf(c)) /\ Pays(c, OrderOf(c))
        /\ hook[h].pc \in PhaseTwo => rows[OrderOf(c)].status = "paid"
        /\ hook[h].pc = "success" => OrderOf(c) \in satisfied
    BY DEF OnRecord, HooksOnRecord
  <2>2. hook[h].pc \in PhaseTwo => rows'[OrderOf(c)].status = "paid"
    BY <1>1, <1>4, <2>1 DEF Kept, PhaseTwo
  <2>3. Right(c, hook[h].pc)
    BY <1>2, <1>3, <1>4, <2>1, <2>2 DEF PhaseTwo
  <2> QED BY <1>2, <1>4, <1>6, <2>3
<1>7. CASE hook'[h].pc \in {"idle", "lookup"} /\ (hook'[h].pc = "lookup" => hook'[h].about \in captures)
  BY <1>2, <1>7 DEF PhaseTwo
<1>8. CASE /\ hook[h].pc # "idle" /\ hook'[h].about = c
           /\ hook'[h].pc # "lookup"
           /\ Present(OrderOf(c)) /\ Pays(c, OrderOf(c))
           /\ hook'[h].pc \in PhaseTwo => rows'[OrderOf(c)].status = "paid"
           /\ hook'[h].pc = "success" => OrderOf(c) \in satisfied'
  <2>1. Right(c, hook'[h].pc)
    BY <1>3, <1>4, <1>8
  <2> QED BY <1>2, <1>4, <1>8, <2>1
<1> QED BY <1>5, <1>6, <1>7, <1>8 DEF HookEffect

LEMMA WorkOnRecordKept ==
    ASSUME TypeOK, TypeOK', OnRecord, RowsKept, EndpointEffect,
           \A r \in Replicas : WorkEffect(r)
    PROVE  WorkOnRecord'
<1>1. \A o \in Orders : Kept(o)
  BY RecordKept
<1>2. ASSUME NEW p, p.order \in Orders, SnapshotIsRight(p)
      PROVE  rows'[p.order].status = "paid" /\ rows'[p.order].tenant = p.tenant
  <2>1. Present(p.order)
    BY <1>2 DEF SnapshotIsRight, Present
  <2> QED BY <1>1, <1>2, <2>1 DEF Kept, SnapshotIsRight
<1> SUFFICES ASSUME NEW r \in Replicas, worker'[r].pc # "idle"
             PROVE  /\ \A p \in worker'[r].batch :
                         rows'[p.order].status = "paid" /\ rows'[p.order].tenant = p.tenant
                    /\ worker'[r].pc \in Attempts =>
                         /\ rows'[worker'[r].now.order].status = "paid"
                         /\ rows'[worker'[r].now.order].tenant = worker'[r].now.tenant
                    /\ worker'[r].pc = "success" => worker'[r].now.order \in satisfied'
  BY DEF WorkOnRecord, SnapshotIsRight, Attempts
<1>3. /\ \A p \in worker'[r].batch : p.order \in Orders
      /\ worker'[r].pc \in Attempts => worker'[r].now.order \in Orders
  <2>1. worker'[r] \in Work
    BY DEF TypeOK, CompensateTypeOK, NoWork
  <2> QED BY <2>1 DEF Work, Snapshot, Attempts
<1>4. /\ \A p \in worker'[r].batch : SnapshotIsRight(p)
      /\ worker'[r].pc \in Attempts => SnapshotIsRight(worker'[r].now)
      /\ worker'[r].pc = "success" => worker'[r].now.order \in satisfied'
  <2>1. worker[r].pc # "idle" =>
          /\ \A p \in worker[r].batch : SnapshotIsRight(p)
          /\ worker[r].pc \in Attempts => SnapshotIsRight(worker[r].now)
          /\ worker[r].pc = "success" => worker[r].now.order \in satisfied
    BY DEF OnRecord, WorkOnRecord, Attempts
  <2>2. satisfied \subseteq satisfied' /\ WorkEffect(r)
    BY DEF EndpointEffect
  <2> QED BY <2>1, <2>2 DEF WorkEffect
<1> QED BY <1>2, <1>3, <1>4

LEMMA OnRecordKept ==
    ASSUME TypeOK, OnRecord, [Next]_vars
    PROVE  OnRecord'
<1>1. TypeOK' /\ RowsKept /\ RowEffect
  BY StepKeeps, StepEffect DEF OnRecord
<1>2. GatewayEffect /\ EndpointEffect
  BY GatewayStep, EndpointStep
<1>3. /\ \A q \in Requests : RequestEffect(q)
      /\ \A h \in Handlers : HookEffect(h)
      /\ \A r \in Replicas : WorkEffect(r)
  BY RequestStep, HookStep, WorkStep
<1> QED
  BY <1>1, <1>2, <1>3, GatewayOnRecordKept, RequestsOnRecordKept, SoleCallerKept,
     LinksAreOpenKept, HooksOnRecordKept, WorkOnRecordKept DEF OnRecord

-----------------------------------------------------------------------------
(***************************************************************************)
(* The promises.                                                           *)
(***************************************************************************)

LEMMA OneCheckoutKept ==
    ASSUME OnRecord, OneCheckoutPerOrder, GatewayEffect
    PROVE  OneCheckoutPerOrder'
<1>1. \A x, y \in checkouts : x.order = y.order => x = y
  BY DEF OneCheckoutPerOrder
<1>2. \A x, y \in checkouts' \ checkouts : x = y
  BY DEF GatewayEffect
<1>3. \A x \in checkouts' \ checkouts : \A y \in checkouts : x.order # y.order
  BY DEF GatewayEffect, OnRecord, SoleCaller
<1> QED BY <1>1, <1>2, <1>3 DEF OneCheckoutPerOrder

LEMMA PaidByNumberKept ==
    ASSUME TypeOK, PaidByNumber, RowEffect, RowsKept, GatewayEffect
    PROVE  PaidByNumber'
<1> SUFFICES ASSUME NEW o \in Orders, rows'[o].status = "paid"
             PROVE  \E c \in captures' :
                      /\ OrderOf(c) = o /\ c.amount = rows'[o].amount
                      /\ c.channel = "stripe" => rows'[o].channel = "stripe"
  BY DEF PaidByNumber, Pays, OrderOf
<1>1. Kept(o) /\ captures \subseteq captures'
  BY RecordKept DEF GatewayEffect
<1>2. rows[o].status = "paid" \/ \E c \in captures : Pays(c, o)
  BY DEF RowEffect, Inserted, Linked, PaidUp, Attempted
<1>3. PICK c \in captures : Pays(c, o)
  BY <1>2 DEF PaidByNumber
<1>4. Present(o)
  BY DEF RowEffect, Inserted, Linked, PaidUp, Attempted, Present
<1> QED BY <1>1, <1>3, <1>4 DEF Kept, Pays

LEMMA AckedIsPaidKept ==
    ASSUME TypeOK, TypeOK', AckedIsPaid, RowsKept, AckEffect
    PROVE  AckedIsPaid'
<1> SUFFICES ASSUME NEW c \in acked'
             PROVE  LET o == OrderOf(c)
                    IN  /\ rows'[o].status = "paid" /\ c.amount = rows'[o].amount
                        /\ c.channel = "stripe" => rows'[o].channel = "stripe"
  BY DEF AckedIsPaid, Pays, OrderOf
<1>1. OrderOf(c) \in Orders
  BY CaptureShape DEF TypeOK, OutsideTypeOK
<1>2. rows[OrderOf(c)].status = "paid" /\ Pays(c, OrderOf(c))
  BY DEF AckedIsPaid, AckEffect
<1>3. Kept(OrderOf(c)) /\ Present(OrderOf(c))
  BY <1>1, <1>2, RecordKept DEF Present
<1> QED BY <1>2, <1>3 DEF Kept, Pays

LEMMA CallbacksOnlyForPaidKept ==
    ASSUME TypeOK, CallbacksOnlyForPaid, RowEffect, RowsKept, EndpointEffect
    PROVE  CallbacksOnlyForPaid'
<1> SUFFICES ASSUME NEW o \in Orders, rows'[o].status # "paid"
             PROVE  /\ o \notin received' \cup satisfied'
                    /\ failed'[o] = 0
                    /\ rows'[o].status # "absent" =>
                         rows'[o].callback = "n/a" /\ rows'[o].retries = 0
  BY DEF CallbacksOnlyForPaid, Present
<1>1. rows[o].status # "paid"
  BY RecordKept DEF Kept
<1>2. /\ o \notin received \cup satisfied
      /\ failed[o] = 0
      /\ Present(o) => rows[o].callback = "n/a" /\ rows[o].retries = 0
  BY <1>1 DEF CallbacksOnlyForPaid
<1>3. o \notin received' \cup satisfied' /\ failed'[o] = 0
  BY <1>1, <1>2 DEF EndpointEffect
<1>4. CASE rows'[o] = rows[o]
  BY <1>2, <1>3, <1>4 DEF Present
<1>5. CASE Linked(o)
  BY <1>2, <1>3, <1>5 DEF Linked, Present
<1> QED BY <1>1, <1>3, <1>4, <1>5 DEF RowEffect, Inserted, PaidUp, Attempted

LEMMA SuccessIsEarnedKept ==
    ASSUME SuccessIsEarned, RowEffect, EndpointEffect
    PROVE  SuccessIsEarned'
<1> SUFFICES ASSUME NEW o \in Orders, rows'[o].status # "absent",
                    rows'[o].callback = "success"
             PROVE  o \in satisfied'
  BY DEF SuccessIsEarned, Present
<1>1. Present(o) /\ rows[o].callback = "success" => o \in satisfied
  BY DEF SuccessIsEarned
<1>2. satisfied \subseteq satisfied'
  BY DEF EndpointEffect
<1> QED BY <1>1, <1>2 DEF RowEffect, Inserted, Linked, PaidUp, Attempted, Present

LEMMA AnswersAreOwnKept ==
    ASSUME TypeOK, TypeOK', AnswersAreOwn, RowsKept, GatewayEffect,
           \A q \in Requests : RequestEffect(q)
    PROVE  AnswersAreOwn'
<1> SUFFICES ASSUME NEW q \in Requests, request'[q].pc = "done"
             PROVE  /\ request'[q].answer \in {"200 link", "200 empty"} =>
                         /\ rows'[request'[q].order].status # "absent"
                         /\ rows'[request'[q].order].tenant = request'[q].tenant
                    /\ request'[q].answer = "200 link" =>
                         \E k \in checkouts' : k.order = request'[q].order
  BY DEF AnswersAreOwn, Present
<1> DEFINE p == request[q]
<1>1. \A o \in Orders : Kept(o)
  BY RecordKept
<1>2. RequestEffect(q) /\ checkouts \subseteq checkouts'
  BY DEF GatewayEffect
<1>3. CASE request'[q] = p
  <2>1. p.order \in Orders
    BY <1>3 DEF TypeOK, RequestTypeOK, Request, NoRequest, Lost
  <2>2. /\ p.answer \in {"200 link", "200 empty"} =>
             Present(p.order) /\ rows[p.order].tenant = p.tenant
        /\ p.answer = "200 link" => \E k \in checkouts : k.order = p.order
    BY <1>3 DEF AnswersAreOwn
  <2> QED BY <1>1, <1>2, <1>3, <2>1, <2>2 DEF Kept
<1>4. CASE /\ Moves(q, "done")
           /\ request'[q].answer \in {"200 link", "200 empty"} => OwnRow(q)
           /\ request'[q].answer = "200 link" => HasCheckout(p.order)
  <2>1. request'[q].order \in Orders
    BY DEF TypeOK, RequestTypeOK, Request, NoRequest, Lost
  <2> QED BY <1>1, <1>2, <1>4, <2>1 DEF Kept, Moves, OwnRow, HasCheckout
<1> QED BY <1>2, <1>3, <1>4 DEF RequestEffect, Moves

LEMMA LinkHandedOutIsKeptKept ==
    ASSUME TypeOK, TypeOK', AnswersAreOwn, LinkHandedOutIsKept, RowsKept, RowEffect,
           \A q \in Requests : RequestEffect(q)
    PROVE  LinkHandedOutIsKept'
<1> SUFFICES ASSUME NEW q \in Requests, request'[q].pc = "done",
                    request'[q].answer = "200 link"
             PROVE  LinkOnRecord(request'[q].order)
  BY DEF LinkHandedOutIsKept, LinkOnRecord
<1>1. RequestEffect(q)
  OBVIOUS
<1>2. CASE request'[q] = request[q]
  <2> DEFINE o == request[q].order
  <2>0. request[q].pc = "done" /\ request[q].answer = "200 link"
    BY <1>2
  <2>1. o \in Orders
    <3>1. request[q] \in Request \cup {NoRequest, Lost}
      BY DEF TypeOK, RequestTypeOK
    <3>2. NoRequest.pc = "idle" /\ Lost.pc = "lost"
      BY DEF NoRequest, Lost
    <3>3. request[q] \in Request
      BY <2>0, <3>1, <3>2
    <3> QED BY <3>3 DEF Request
  <2>2. Present(o)
    BY <2>0 DEF AnswersAreOwn
  <2>3. rows[o].status = "pending" => rows[o].url = "link"
    BY <2>0 DEF LinkHandedOutIsKept
  <2>4. Kept(o)
    BY <2>1, RecordKept
  <2>5. LinkOnRecord(o)
    <3> HIDE DEF o
    <3>1. \/ rows'[o] = rows[o] \/ Inserted(o) \/ Linked(o) \/ PaidUp(o) \/ Attempted(o)
      BY <2>1 DEF RowEffect
    <3> QED BY <2>2, <2>3, <2>4, <3>1
            DEF Inserted, Linked, PaidUp, Attempted, Kept, LinkOnRecord
  <2> QED BY <1>2, <2>5
<1> QED BY <1>1, <1>2 DEF RequestEffect, Moves

LEMMA OwnerExistsKept ==
    ASSUME TypeOK, TypeOK', OwnerExists, RowEffect, RowsKept, TenantEffect
    PROVE  OwnerExists'
<1> SUFFICES ASSUME NEW o \in Orders, rows'[o].status # "absent"
             PROVE  tenants'[rows'[o].tenant].present
  BY DEF OwnerExists, Present
<1>1. CASE Present(o)
  <2>1. rows[o].tenant \in Tenants
    BY <1>1, PresentRow DEF TypeOK, StoreTypeOK, RowsTypeOK, Payment
  <2>2. tenants[rows[o].tenant].present /\ rows'[o].tenant = rows[o].tenant
    BY <1>1, RecordKept DEF OwnerExists, Kept
  <2> QED BY <1>1, <2>1, <2>2 DEF TenantEffect
<1>2. CASE ~Present(o)
  <2>1. Inserted(o) /\ rows' # rows
    BY <1>2 DEF RowEffect, Linked, PaidUp, Attempted, Present
  <2>2. rows'[o].tenant \in Tenants
    <3>1. rows'[o] \in Payment
      BY DEF TypeOK, StoreTypeOK, NoRow
    <3> QED BY <3>1 DEF Payment
  <2> QED BY <2>1, <2>2 DEF TenantEffect, Inserted
<1> QED BY <1>1, <1>2

-----------------------------------------------------------------------------
(***************************************************************************)
(* The invariant.                                                          *)
(***************************************************************************)

LEMMA InitOnRecord ==
    ASSUME Init
    PROVE  OnRecord /\ Promises
<1>1. PICK t \in Tenants, c \in Channels, a \in Amounts :
        rows = [o \in Orders |-> IF o \in Backlog THEN BacklogRow(t, c, a) ELSE NoRow]
  BY DEF Init
<1>2. BacklogRow(t, c, a).status = "paid" /\ BacklogRow(t, c, a).callback = "pending"
  BY DEF BacklogRow
<1>3. NoRow.status = "absent"
  BY DEF NoRow
<1>4. BacklogRow(t, c, a).tenant = t /\ tenants[t].present
  BY DEF BacklogRow, Init
<1>5. \A o \in Orders :
        \/ /\ o \in Backlog /\ Present(o) /\ rows[o].status = "paid"
           /\ rows[o].callback = "pending" /\ rows[o].tenant = t
        \/ o \notin Backlog /\ rows[o].status = "absent"
  <2> DEFINE row == BacklogRow(t, c, a)
  <2>1. \A o \in Orders : rows[o] = IF o \in Backlog THEN row ELSE NoRow
    BY <1>1
  <2>2. row.status = "paid" /\ row.callback = "pending" /\ row.tenant = t
    BY <1>2, <1>4
  <2> HIDE DEF row
  <2>3. ASSUME NEW o \in Orders, o \in Backlog
        PROVE  /\ Present(o) /\ rows[o].status = "paid"
               /\ rows[o].callback = "pending" /\ rows[o].tenant = t
    <3>1. rows[o] = row
      BY <2>1, <2>3
    <3> QED BY <2>2, <3>1 DEF Present
  <2>4. ASSUME NEW o \in Orders, o \notin Backlog
        PROVE  rows[o].status = "absent"
    <3>1. rows[o] = NoRow
      BY <2>1, <2>4
    <3> QED BY <1>3, <3>1
  <2> QED BY <2>3, <2>4
<1>6. /\ checkouts = {} /\ captures = {CaptureOf(o) : o \in Backlog} /\ acked = captures
      /\ received = {} /\ satisfied = {} /\ \A o \in Orders : failed[o] = 0
  BY DEF Init
<1>7. \A k \in captures :
        \E o \in Backlog : k = CaptureOf(o) /\ k.order = o /\ k.channel = rows[o].channel
  BY <1>6 DEF CaptureOf
<1>8. Backlog \subseteq Orders
  BY PayserverAssumption
<1>12. \A o \in Backlog : Pays(CaptureOf(o), o) /\ OrderOf(CaptureOf(o)) = o
  <2> TAKE o \in Backlog
  <2>1. o \in OrderId /\ Returns(o)
    BY PayserverAssumption, ConstantsAssumption
  <2>2. OrderOf(CaptureOf(o)) = o
    BY <2>1 DEF OrderId, Returns, OrderOf, CaptureOf, OutTradeNo, UuidFromCompact
  <2>3. /\ CaptureOf(o).amount = rows[o].amount
        /\ CaptureOf(o).channel = rows[o].channel
    BY DEF CaptureOf
  <2> QED BY <2>2, <2>3 DEF Pays
<1>9. /\ \A q \in Requests : request[q].pc = "idle"
      /\ \A h \in Handlers : hook[h].pc = "idle"
      /\ \A r \in Replicas : worker[r].pc = "idle"
  BY DEF Init, CreatePaymentInit, NotifyInit, CompensateInit, NoRequest, NoHook, NoWork
<1>10. OnRecord
  <2>1. GatewayOnRecord
    BY <1>5, <1>6, <1>7, <1>8 DEF GatewayOnRecord
  <2>2. RequestsOnRecord /\ SoleCaller /\ HooksOnRecord /\ WorkOnRecord
    BY <1>9 DEF RequestsOnRecord, SoleCaller, HooksOnRecord, WorkOnRecord, PhaseTwo, Attempts
  <2>3. LinksAreOpen
    BY <1>5, <1>9 DEF LinksAreOpen
  <2> QED BY <2>1, <2>2, <2>3 DEF OnRecord
<1>11. Promises
  <2>1. OneCheckoutPerOrder /\ SuccessIsEarned /\ AnswersAreOwn /\ LinkHandedOutIsKept
    BY <1>5, <1>6, <1>9
       DEF OneCheckoutPerOrder, SuccessIsEarned, AnswersAreOwn, LinkHandedOutIsKept, Present
  <2>2. PaidByNumber
    BY <1>5, <1>6, <1>12 DEF PaidByNumber
  <2>3. AckedIsPaid
    BY <1>5, <1>6, <1>8, <1>12 DEF AckedIsPaid
  <2>4. CallbacksOnlyForPaid
    BY <1>5, <1>6 DEF CallbacksOnlyForPaid, Present
  <2>5. OwnerExists
    BY <1>4, <1>5 DEF OwnerExists, Present
  <2> QED BY <2>1, <2>2, <2>3, <2>4, <2>5 DEF Promises
<1> QED BY <1>10, <1>11

LEMMA PromisesKept ==
    ASSUME IInv, [Next]_vars
    PROVE  Promises'
<1> USE DEF IInv
<1>1. TypeOK' /\ RowsKept /\ RowEffect
  BY StepKeeps, StepEffect DEF OnRecord
<1>2. GatewayEffect /\ AckEffect /\ EndpointEffect /\ TenantEffect
  BY GatewayStep, AckStep, EndpointStep, TenantStep
<1>3. \A q \in Requests : RequestEffect(q)
  BY RequestStep
<1> QED
  BY <1>1, <1>2, <1>3, OneCheckoutKept, PaidByNumberKept, AckedIsPaidKept,
     CallbacksOnlyForPaidKept, SuccessIsEarnedKept, AnswersAreOwnKept,
     LinkHandedOutIsKeptKept, OwnerExistsKept
     DEF Promises

\* IInv is inductive.
LEMMA Inductive ==
    /\ Init => IInv
    /\ IInv /\ [Next]_vars => IInv'
<1>1. Init => IInv
  BY InitTyped, InitOnRecord DEF IInv
<1>2. ASSUME IInv, [Next]_vars
      PROVE  IInv'
  BY <1>2, StepKeeps, OnRecordKept, PromisesKept DEF IInv, OnRecord
<1> QED BY <1>1, <1>2

\* In every reachable state the inductive invariant holds.
LEMMA AlwaysIInv == Safety => []IInv
  BY Inductive, PTL DEF Safety

(***************************************************************************)
(* Every variable keeps its type: in particular a worker or a webhook in   *)
(* phase 2 never looks up the tenant of a row that is not there.           *)
(***************************************************************************)
THEOREM TypeCorrect == Safety => []TypeOK
<1>1. IInv => TypeOK
  BY DEF IInv
<1> QED BY <1>1, AlwaysIInv, PTL

(***************************************************************************)
(* What the goroutines in progress and the gateways know of the database   *)
(* is right, however their steps, crashes and the administrators'          *)
(* changes interleave.                                                     *)
(***************************************************************************)
THEOREM SnapshotsStayRight == Safety => []OnRecord
<1>1. IInv => OnRecord
  BY DEF IInv
<1> QED BY <1>1, AlwaysIInv, PTL

(***************************************************************************)
(* handleCreatePayment opens at most one checkout for an order, for any    *)
(* number of concurrent requests, replicas, errors and crashes.            *)
(***************************************************************************)
THEOREM CheckoutsAreUnique == Safety => []OneCheckoutPerOrder
<1>1. IInv => OneCheckoutPerOrder
  BY DEF IInv, Promises
<1> QED BY <1>1, AlwaysIInv, PTL

\* A capture that leads to an order whose number no other order on record has is
\* the capture of that order: it was made under an order on record, which has the
\* text of the number.
LEMMA AloneIsOwn ==
    ASSUME TypeOK, GatewayOnRecord, NEW o \in Orders, NEW c \in captures, Pays(c, o), Alone(o)
    PROVE  c = CaptureOf(o)
<1>1. c \in Capture /\ Present(c.order) /\ rows[c.order].channel = c.channel
  BY DEF TypeOK, OutsideTypeOK, GatewayOnRecord
<1>2. o.text = c.order.text
  BY <1>1, CaptureShape DEF Pays, OrderOf, UuidFromCompact, OutTradeNo
<1>3. c.order = o
  BY <1>1, <1>2, CaptureShape DEF Alone
<1>4. c = [order |-> c.order, no |-> OutTradeNo(c.order), channel |-> c.channel,
           amount |-> c.amount]
  BY <1>1 DEF Capture
<1> QED BY <1>1, <1>3, <1>4 DEF CaptureOf, Pays

(***************************************************************************)
(* The webhook handlers mark a row paid only for a capture of its amount   *)
(* under its number, and only if its id comes back as it was sent; the     *)
(* capture is that of the order itself unless another order on record has  *)
(* the same number.                                                        *)
(***************************************************************************)
THEOREM PaymentsAreCaptured == Safety => []PaidIsCaptured
<1>1. ASSUME IInv, NEW o \in Orders, rows[o].status = "paid"
      PROVE  /\ \E c \in captures : Pays(c, o)
             /\ Alone(o) => CaptureOf(o) \in captures
             /\ Returns(o)
  <2>1. PICK c \in captures : Pays(c, o)
    BY <1>1 DEF IInv, Promises, PaidByNumber
  <2>2. Alone(o) => CaptureOf(o) \in captures
    BY <1>1, <2>1, AloneIsOwn DEF IInv, OnRecord
  <2>3. Returns(o)
    BY <2>1 DEF Pays, OrderOf, UuidFromCompact, Returns
  <2> QED BY <2>1, <2>2, <2>3
<1>2. IInv => PaidIsCaptured
  BY <1>1 DEF PaidIsCaptured
<1> QED BY <1>2, AlwaysIInv, PTL

(***************************************************************************)
(* A gateway is answered with success only when the order that its number  *)
(* leads to is on record as paid, in the amount captured.                  *)
(***************************************************************************)
THEOREM AcknowledgedIsRecorded == Safety => []AckedIsPaid
<1>1. IInv => AckedIsPaid
  BY DEF IInv, Promises
<1> QED BY <1>1, AlwaysIInv, PTL

(***************************************************************************)
(* No tenant hears of an order, and no callback column is touched, before  *)
(* the order is paid.                                                      *)
(***************************************************************************)
THEOREM CallbacksFollowPayment == Safety => []CallbacksOnlyForPaid
<1>1. IInv => CallbacksOnlyForPaid
  BY DEF IInv, Promises
<1> QED BY <1>1, AlwaysIInv, PTL

(***************************************************************************)
(* A row whose callback is on record as successful has had a successful    *)
(* Send, whichever webhook or worker wrote it.                             *)
(***************************************************************************)
THEOREM SuccessesAreEarned == Safety => []SuccessIsEarned
<1>1. IInv => SuccessIsEarned
  BY DEF IInv, Promises
<1> QED BY <1>1, AlwaysIInv, PTL

(***************************************************************************)
(* A 200 goes to the tenant that owns the row, and its link is that of an  *)
(* open checkout.                                                          *)
(***************************************************************************)
THEOREM AnswersGoToOwners == Safety => []AnswersAreOwn
<1>1. IInv => AnswersAreOwn
  BY DEF IInv, Promises
<1> QED BY <1>1, AlwaysIInv, PTL

(***************************************************************************)
(* A link that handleCreatePayment gave to a client stays on record until  *)
(* the payment is paid.                                                    *)
(***************************************************************************)
THEOREM LinksStay == Safety => []LinkHandedOutIsKept
<1>1. IInv => LinkHandedOutIsKept
  BY DEF IInv, Promises
<1> QED BY <1>1, AlwaysIInv, PTL

(***************************************************************************)
(* The tenant of every payment is there: the foreign key makes the race    *)
(* of an insert with a deletion harmless.                                  *)
(***************************************************************************)
THEOREM OwnersStay == Safety => []OwnerExists
<1>1. IInv => OwnerExists
  BY DEF IInv, Promises
<1> QED BY <1>1, AlwaysIInv, PTL

(***************************************************************************)
(* The terms of a payment never change, and its record does not once it is *)
(* paid: not by a late answer of the gateway, nor by a second webhook.     *)
(***************************************************************************)
THEOREM RecordsAreStable == Safety => RecordIsStable
<1>1. IInv /\ [Next]_vars => [RowsKept]_vars
  BY StepKeeps DEF IInv, OnRecord
<1> QED BY <1>1, AlwaysIInv, PTL DEF Safety, RecordIsStable

-----------------------------------------------------------------------------
(***************************************************************************)
(* callback_retries never counts more than the sends that failed, for      *)
(* every number of webhooks, workers and crashes.                          *)
(*                                                                         *)
(* The counter is raised in a statement of its own, some time after the    *)
(* send has failed.  In between the webhook or the worker owes the row an  *)
(* increment.  The inductive invariant adds what is owed to what has been  *)
(* counted: a failed send raises the debt, an increment moves one unit of  *)
(* it to the counter, and an error or a crash only writes some of it off.  *)
(***************************************************************************)

Retries(o) == IF Present(o) THEN rows[o].retries ELSE 0

HooksOwing(o) == {h \in Handlers : hook[h].pc = "retry" /\ OrderOf(hook[h].about) = o}
WorkersOwing(o) == {r \in Replicas : worker[r].pc = "retry" /\ worker[r].now.order = o}

Accounted(o) ==
    /\ IsFiniteSet(HooksOwing(o)) /\ IsFiniteSet(WorkersOwing(o))
    /\ Retries(o) + Cardinality(HooksOwing(o)) + Cardinality(WorkersOwing(o)) <= failed[o]

Counted == \A o \in Orders : Accounted(o)

-----------------------------------------------------------------------------
(***************************************************************************)
(* What a step can do to the account of an order.                          *)
(***************************************************************************)

NoMoreOwed(o) ==
    /\ HooksOwing(o)' \subseteq HooksOwing(o)
    /\ WorkersOwing(o)' \subseteq WorkersOwing(o)

SameCount(o) == Retries(o)' = Retries(o) /\ failed'[o] = failed[o]

\* A send of h, or of r, has failed.
HookFailed(o) ==
    /\ Retries(o)' = Retries(o) /\ failed'[o] = failed[o] + 1
    /\ \E h : HooksOwing(o)' \subseteq HooksOwing(o) \cup {h}
    /\ WorkersOwing(o)' \subseteq WorkersOwing(o)

WorkerFailed(o) ==
    /\ Retries(o)' = Retries(o) /\ failed'[o] = failed[o] + 1
    /\ HooksOwing(o)' \subseteq HooksOwing(o)
    /\ \E r : WorkersOwing(o)' \subseteq WorkersOwing(o) \cup {r}

\* The increment that h, or r, owed has been made.
HookCounted(o) ==
    /\ Retries(o)' = Retries(o) + 1 /\ failed'[o] = failed[o]
    /\ \E h \in HooksOwing(o) : HooksOwing(o)' \subseteq HooksOwing(o) \ {h}
    /\ WorkersOwing(o)' \subseteq WorkersOwing(o)

WorkerCounted(o) ==
    /\ Retries(o)' = Retries(o) + 1 /\ failed'[o] = failed[o]
    /\ HooksOwing(o)' \subseteq HooksOwing(o)
    /\ \E r \in WorkersOwing(o) : WorkersOwing(o)' \subseteq WorkersOwing(o) \ {r}

AccountEffect(o) ==
    \/ SameCount(o) /\ NoMoreOwed(o)
    \/ HookFailed(o)
    \/ WorkerFailed(o)
    \/ HookCounted(o)
    \/ WorkerCounted(o)

\* A set is no larger than one it is part of.
LEMMA NoLarger ==
    ASSUME NEW S, NEW T, IsFiniteSet(S), T \subseteq S
    PROVE  /\ IsFiniteSet(T)
           /\ Cardinality(T) \in Nat /\ Cardinality(S) \in Nat
           /\ Cardinality(T) <= Cardinality(S)
  BY FS_Subset, FS_CardinalityType

\* It has at most one element more when it is part of the set and one other.
LEMMA OneLarger ==
    ASSUME NEW S, NEW T, NEW x, IsFiniteSet(S), T \subseteq S \cup {x}
    PROVE  /\ IsFiniteSet(T)
           /\ Cardinality(T) \in Nat /\ Cardinality(S) \in Nat
           /\ Cardinality(T) <= Cardinality(S) + 1
<1>1. /\ IsFiniteSet(S \cup {x}) /\ Cardinality(S) \in Nat
      /\ Cardinality(S \cup {x}) \in Nat
      /\ Cardinality(S \cup {x}) <= Cardinality(S) + 1
  BY FS_AddElement, FS_CardinalityType
<1>2. /\ IsFiniteSet(T) /\ Cardinality(T) \in Nat
      /\ Cardinality(T) <= Cardinality(S \cup {x})
  BY <1>1, NoLarger
<1> QED BY <1>1, <1>2

\* It has at least one element less when an element is taken out.
LEMMA OneSmaller ==
    ASSUME NEW S, NEW T, NEW x \in S, IsFiniteSet(S), T \subseteq S \ {x}
    PROVE  /\ IsFiniteSet(T)
           /\ Cardinality(T) \in Nat /\ Cardinality(S) \in Nat
           /\ Cardinality(T) + 1 <= Cardinality(S)
<1>1. /\ IsFiniteSet(S \ {x}) /\ Cardinality(S) \in Nat
      /\ Cardinality(S \ {x}) \in Nat
      /\ Cardinality(S \ {x}) = Cardinality(S) - 1
  BY FS_RemoveElement, FS_CardinalityType
<1>2. /\ IsFiniteSet(T) /\ Cardinality(T) \in Nat
      /\ Cardinality(T) <= Cardinality(S \ {x})
  BY <1>1, NoLarger
<1> QED BY <1>1, <1>2

\* Whatever the step does to the account, it stays balanced.
LEMMA AccountKept ==
    ASSUME NEW o \in Orders, Accounted(o), AccountEffect(o),
           Retries(o) \in Nat, failed[o] \in Nat
    PROVE  Accounted(o)'
<1>1. PICK H, W : H = HooksOwing(o) /\ W = WorkersOwing(o)
  OBVIOUS
<1>2. PICK H1, W1 : H1 = HooksOwing(o)' /\ W1 = WorkersOwing(o)'
  OBVIOUS
<1>3. /\ IsFiniteSet(H) /\ IsFiniteSet(W)
      /\ Cardinality(H) \in Nat /\ Cardinality(W) \in Nat
      /\ Retries(o) + Cardinality(H) + Cardinality(W) <= failed[o]
  BY <1>1, FS_CardinalityType DEF Accounted
<1>4. SUFFICES /\ IsFiniteSet(H1) /\ IsFiniteSet(W1)
               /\ Retries(o)' + Cardinality(H1) + Cardinality(W1) <= failed'[o]
  BY <1>2 DEF Accounted
<1>5. CASE SameCount(o) /\ NoMoreOwed(o)
  <2>1. H1 \subseteq H /\ W1 \subseteq W
    BY <1>1, <1>2, <1>5 DEF NoMoreOwed
  <2>2. /\ IsFiniteSet(H1) /\ IsFiniteSet(W1)
        /\ Cardinality(H1) \in Nat /\ Cardinality(W1) \in Nat
        /\ Cardinality(H1) <= Cardinality(H) /\ Cardinality(W1) <= Cardinality(W)
    BY <1>3, <2>1, NoLarger
  <2> QED BY <1>3, <1>5, <2>2 DEF SameCount
<1>6. CASE HookFailed(o)
  <2>1. PICK h : H1 \subseteq H \cup {h} /\ W1 \subseteq W
    BY <1>1, <1>2, <1>6 DEF HookFailed
  <2>2. IsFiniteSet(W1) /\ Cardinality(W1) \in Nat /\ Cardinality(W1) <= Cardinality(W)
    BY <1>3, <2>1, NoLarger
  <2>3. IsFiniteSet(H1) /\ Cardinality(H1) \in Nat /\ Cardinality(H1) <= Cardinality(H) + 1
    BY <1>3, <2>1, OneLarger
  <2> QED BY <1>3, <1>6, <2>2, <2>3 DEF HookFailed
<1>7. CASE WorkerFailed(o)
  <2>1. PICK r : W1 \subseteq W \cup {r} /\ H1 \subseteq H
    BY <1>1, <1>2, <1>7 DEF WorkerFailed
  <2>2. IsFiniteSet(H1) /\ Cardinality(H1) \in Nat /\ Cardinality(H1) <= Cardinality(H)
    BY <1>3, <2>1, NoLarger
  <2>3. IsFiniteSet(W1) /\ Cardinality(W1) \in Nat /\ Cardinality(W1) <= Cardinality(W) + 1
    BY <1>3, <2>1, OneLarger
  <2> QED BY <1>3, <1>7, <2>2, <2>3 DEF WorkerFailed
<1>8. CASE HookCounted(o)
  <2>1. PICK h \in H : H1 \subseteq H \ {h} /\ W1 \subseteq W
    BY <1>1, <1>2, <1>8 DEF HookCounted
  <2>2. IsFiniteSet(W1) /\ Cardinality(W1) \in Nat /\ Cardinality(W1) <= Cardinality(W)
    BY <1>3, <2>1, NoLarger
  <2>3. IsFiniteSet(H1) /\ Cardinality(H1) \in Nat /\ Cardinality(H1) + 1 <= Cardinality(H)
    BY <1>3, <2>1, OneSmaller
  <2> QED BY <1>3, <1>8, <2>2, <2>3 DEF HookCounted
<1>9. CASE WorkerCounted(o)
  <2>1. PICK r \in W : W1 \subseteq W \ {r} /\ H1 \subseteq H
    BY <1>1, <1>2, <1>9 DEF WorkerCounted
  <2>2. IsFiniteSet(H1) /\ Cardinality(H1) \in Nat /\ Cardinality(H1) <= Cardinality(H)
    BY <1>3, <2>1, NoLarger
  <2>3. IsFiniteSet(W1) /\ Cardinality(W1) \in Nat /\ Cardinality(W1) + 1 <= Cardinality(W)
    BY <1>3, <2>1, OneSmaller
  <2> QED BY <1>3, <1>9, <2>2, <2>3 DEF WorkerCounted
<1> QED BY <1>5, <1>6, <1>7, <1>8, <1>9 DEF AccountEffect

-----------------------------------------------------------------------------
(***************************************************************************)
(* What the statements do to the counters.                                 *)
(***************************************************************************)

CountsSame == \A x \in Orders : Retries(x)' = Retries(x)

LEMMA UpdateCounts ==
    ASSUME RowsTypeOK, NEW o \in Orders, NEW STATE cond, NEW STATE row,
           Present(o) /\ cond => row.status # "absent" /\ row.retries = rows[o].retries,
           UpdateWhere(o, cond, row)
    PROVE  CountsSame
<1>1. CASE Present(o) /\ cond
  <2>1. \A x \in Orders : rows'[x] = IF x = o THEN row ELSE rows[x]
    BY <1>1 DEF UpdateWhere, RowsTypeOK
  <2> QED BY <1>1, <2>1 DEF CountsSame, Retries, Present
<1>2. CASE ~(Present(o) /\ cond)
  BY <1>2 DEF UpdateWhere, rowVars, CountsSame, Retries, Present
<1> QED BY <1>1, <1>2

\* All but one of the UPDATE statements leave the counters alone.
LEMMA StatementsDoNotCount ==
    ASSUME RowsTypeOK, NEW o \in Orders, NEW STATE t, NEW STATE trade, NEW STATE url,
           \/ UpdatePaymentGatewayResult(o, trade, url)
           \/ MarkPaymentPaid(t, o, trade)
           \/ MarkCallbackSuccess(t, o)
           \/ MarkCallbackFailed(t, o)
    PROVE  CountsSame
<1>0. Present(o) => rows[o] \in Payment /\ rows[o].status # "absent"
  BY PresentRow DEF Present
<1>1. CASE UpdatePaymentGatewayResult(o, trade, url)
  <2> DEFINE row == [rows[o] EXCEPT !.trade = trade, !.url = url]
  <2>1. Present(o) => row.status # "absent" /\ row.retries = rows[o].retries
    BY <1>0 DEF Payment
  <2> QED BY <1>1, <2>1, UpdateCounts DEF UpdatePaymentGatewayResult
<1>2. CASE MarkPaymentPaid(t, o, trade)
  <2> DEFINE row == [rows[o] EXCEPT !.status = "paid", !.trade = trade]
  <2>1. Present(o) => row.status # "absent" /\ row.retries = rows[o].retries
    BY <1>0 DEF Payment
  <2> QED BY <1>2, <2>1, UpdateCounts DEF MarkPaymentPaid
<1>3. CASE MarkCallbackSuccess(t, o)
  <2> DEFINE row == [rows[o] EXCEPT !.callback = "success"]
  <2>1. Present(o) => row.status # "absent" /\ row.retries = rows[o].retries
    BY <1>0 DEF Payment
  <2> QED BY <1>3, <2>1, UpdateCounts DEF MarkCallbackSuccess
<1>4. CASE MarkCallbackFailed(t, o)
  <2> DEFINE row == [rows[o] EXCEPT !.callback = "failed"]
  <2>1. Present(o) => row.status # "absent" /\ row.retries = rows[o].retries
    BY <1>0 DEF Payment
  <2> QED BY <1>4, <2>1, UpdateCounts DEF MarkCallbackFailed
<1> QED BY <1>1, <1>2, <1>3, <1>4

\* IncrCallbackRetries counts one retry of one row, or none.
LEMMA IncrementCounts ==
    ASSUME RowsTypeOK, NEW o \in Orders, NEW STATE t, IncrCallbackRetries(t, o)
    PROVE  /\ Retries(o)' \in {Retries(o), Retries(o) + 1}
           /\ \A x \in Orders \ {o} : Retries(x)' = Retries(x)
<1> DEFINE row == [rows[o] EXCEPT !.retries = @ + 1]
<1>1. Present(o) => row.status # "absent" /\ row.retries = rows[o].retries + 1
  BY PresentRow DEF Payment, Present
<1>2. UpdateWhere(o, rows[o].tenant = t, row)
  BY DEF IncrCallbackRetries
<1> HIDE DEF row
<1>3. CASE Present(o) /\ rows[o].tenant = t
  <2>1. \A x \in Orders : rows'[x] = IF x = o THEN row ELSE rows[x]
    BY <1>2, <1>3 DEF UpdateWhere, RowsTypeOK
  <2> QED BY <1>1, <1>3, <2>1 DEF Retries, Present
<1>4. CASE ~(Present(o) /\ rows[o].tenant = t)
  BY <1>2, <1>4 DEF UpdateWhere, rowVars, Retries, Present
<1> QED BY <1>3, <1>4

LEMMA InsertCounts ==
    ASSUME RowsTypeOK, NEW o \in Orders, NEW STATE t, NEW STATE c, NEW STATE a,
           ~Present(o), InsertRow(o, t, c, a)
    PROVE  CountsSame
<1>1. \A x \in Orders \ {o} : rows'[x] = rows[x]
  BY DEF InsertRow, RowsTypeOK
<1>2. rows'[o].retries = 0
  BY DEF InsertRow, RowsTypeOK
<1> QED BY <1>1, <1>2 DEF CountsSame, Retries, Present

-----------------------------------------------------------------------------
(***************************************************************************)
(* What one step does to the account of every order.                       *)
(***************************************************************************)

LEMMA NothingOwed ==
    ASSUME CountsSame, UNCHANGED <<failed, hook, worker>>
    PROVE  \A o \in Orders : AccountEffect(o)
  BY DEF CountsSame, AccountEffect, SameCount, NoMoreOwed, HooksOwing, WorkersOwing

LEMMA ClientAccount ==
    ASSUME TypeOK, NEW q \in Requests, Client(q)
    PROVE  \A o \in Orders : AccountEffect(o)
<1> DEFINE p == request[q]
<1>1. RowsTypeOK /\ RequestTypeOK
  BY DEF TypeOK, StoreTypeOK, RowsTypeOK
<1>2. UNCHANGED <<failed, hook, worker>>
  BY DEF Client, BeginRequest, CreatePaymentStep, Authenticate, InsertOrGetPayment,
         FetchExisting, CallGateway, SaveGatewayResult, endpointVars
<1>3. CASE UNCHANGED rowVars
  BY <1>2, <1>3, NothingOwed DEF CountsSame, rowVars, Retries, Present
<1>4. CASE /\ InsertOrGetPayment(q) /\ ~Present(p.order)
           /\ InsertRow(p.order, p.tenant, p.channel, p.amount)
  <2>1. p.order \in Orders
    BY <1>1, <1>4, RequestMoves DEF InsertOrGetPayment, Request
  <2> HIDE DEF p
  <2> QED BY <1>1, <1>2, <1>4, <2>1, InsertCounts, NothingOwed
<1>5. CASE /\ SaveGatewayResult(q)
           /\ UpdatePaymentGatewayResult(p.order,
                IF p.channel = "stripe" THEN "session" ELSE "", "link")
  <2>1. p.order \in Orders
    BY <1>1, <1>5, RequestMoves DEF SaveGatewayResult, Request
  <2> HIDE DEF p
  <2> QED BY <1>1, <1>2, <1>5, <2>1, StatementsDoNotCount, NothingOwed
<1> QED
  BY <1>3, <1>4, <1>5
     DEF Client, BeginRequest, CreatePaymentStep, Authenticate, InsertOrGetPayment,
         FetchExisting, CallGateway, SaveGatewayResult, StatementFails

\* A step of the webhook h after which it owes nothing, and counts nothing.
LEMMA HookOwesNothing ==
    ASSUME NEW h \in Handlers, CountsSame, UNCHANGED <<failed, worker>>,
           \A g \in Handlers \ {h} : hook'[g] = hook[g], hook'[h].pc # "retry"
    PROVE  \A o \in Orders : AccountEffect(o)
  BY DEF CountsSame, AccountEffect, SameCount, NoMoreOwed, HooksOwing, WorkersOwing

LEMMA WebhookAccount ==
    ASSUME TypeOK, NEW h \in Handlers, Webhook(h)
    PROVE  \A o \in Orders : AccountEffect(o)
<1>0. PICK o : o = OrderIn(h) /\ o = OrderOf(hook[h].about)
  BY DEF OrderIn
<1>1. /\ RowsTypeOK /\ NotifyTypeOK
      /\ \A x \in Orders : Retries(x) \in Nat /\ failed[x] \in Nat
  BY PresentRow
     DEF TypeOK, StoreTypeOK, RowsTypeOK, OutsideTypeOK, Retries, Payment
<1>2. UNCHANGED worker /\ \A g \in Handlers \ {h} : hook'[g] = hook[g]
  BY <1>1 DEF Webhook, NotifyStep, AnswerSent, Lookup, MarkPaid, ResolveTenant, Deliver,
              Record, HookGoTo, Return, NotifyTypeOK
<1>3. UNCHANGED rowVars => CountsSame
  BY DEF CountsSame, rowVars, Retries, Present
<1>4. CASE AnswerSent(h)
  BY <1>2, <1>3, <1>4, NothingOwed DEF AnswerSent, endpointVars
<1>5. ASSUME hook[h].pc # "idle"
      PROVE  /\ o \in Orders
             /\ \A ok : Return(h, ok) => hook'[h].pc = "idle"
             /\ \A pc : HookGoTo(h, pc) => hook'[h].pc = pc /\ OrderOf(hook'[h].about) = o
  BY <1>0, <1>1, <1>5, HookOrder, HookGoes
<1>6. CASE Lookup(h)
  <2>1. (\E ok : Return(h, ok)) \/ (\E pc \in {"paid", "tenant"} : HookGoTo(h, pc))
    BY <1>6 DEF Lookup
  <2>2. hook'[h].pc # "retry"
    BY <1>5, <1>6, <2>1 DEF Lookup
  <2> QED BY <1>2, <1>3, <1>6, <2>2, HookOwesNothing DEF Lookup, endpointVars
<1>7. CASE MarkPaid(h)
  <2>1. hook'[h].pc # "retry"
    <3>1. (\E ok : Return(h, ok)) \/ HookGoTo(h, "tenant")
      BY <1>7 DEF MarkPaid
    <3> QED BY <1>5, <1>7, <3>1 DEF MarkPaid
  <2>2. CountsSame
    <3>1. o \in Orders
      BY <1>5, <1>7 DEF MarkPaid
    <3> QED BY <1>0, <1>1, <1>3, <1>7, <3>1, StatementsDoNotCount DEF MarkPaid, StatementFails
  <2> QED BY <1>2, <1>7, <2>1, <2>2, HookOwesNothing DEF MarkPaid, endpointVars
<1>8. CASE ResolveTenant(h)
  <2>1. hook'[h].pc # "retry"
    <3>1. hook[h] \in Hook
      BY <1>1, <1>8, HookMoves DEF ResolveTenant
    <3>2. CASE (\E ok : Return(h, ok)) \/ HookGoTo(h, "fail")
      BY <1>5, <1>8, <3>2 DEF ResolveTenant
    <3>3. CASE \E target : hook' = [hook EXCEPT ![h].pc = "send", ![h].target = target]
      BY <1>1, <3>1, <3>3 DEF Hook, NotifyTypeOK
    <3> QED BY <1>8, <3>2, <3>3 DEF ResolveTenant
  <2> QED BY <1>2, <1>3, <1>8, <2>1, HookOwesNothing DEF ResolveTenant, endpointVars
<1>9. CASE Deliver(h)
  <2>1. CountsSame /\ o \in Orders
    BY <1>3, <1>5, <1>9 DEF Deliver
  <2>2. CASE SendAccepted(o, hook[h].target) /\ HookGoTo(h, "success")
    <3>1. hook'[h].pc # "retry" /\ UNCHANGED failed
      BY <1>5, <1>9, <2>2 DEF Deliver, SendAccepted
    <3> QED BY <1>2, <2>1, <3>1, HookOwesNothing
  <2>3. CASE SendFails(o, hook[h].target) /\ HookGoTo(h, "retry")
    <3>1. \A x \in Orders : failed'[x] = IF x = o THEN failed[x] + 1 ELSE failed[x]
      BY <2>1, <2>3 DEF SendFails, TypeOK, OutsideTypeOK
    <3>2. OrderOf(hook'[h].about) = o
      BY <1>5, <1>9, <2>3 DEF Deliver
    <3>3. HookFailed(o)
      <4>1. HooksOwing(o)' \subseteq HooksOwing(o) \cup {h}
        BY <1>0, <1>2 DEF HooksOwing
      <4>2. WorkersOwing(o)' \subseteq WorkersOwing(o)
        BY <1>2 DEF WorkersOwing
      <4> QED BY <2>1, <3>1, <4>1, <4>2 DEF HookFailed, CountsSame
    <3>4. \A x \in Orders \ {o} : SameCount(x) /\ NoMoreOwed(x)
      BY <1>0, <1>2, <2>1, <3>1, <3>2
         DEF SameCount, NoMoreOwed, CountsSame, HooksOwing, WorkersOwing
    <3> QED BY <3>3, <3>4 DEF AccountEffect
  <2> QED BY <1>0, <1>9, <2>2, <2>3 DEF Deliver
<1>10. CASE Record(h)
  <2>1. hook'[h].pc # "retry" /\ UNCHANGED failed /\ o \in Orders
    BY <1>5, <1>10 DEF Record, endpointVars
  <2>2. CASE CountsSame
    BY <1>2, <2>1, <2>2, HookOwesNothing
  <2>3. CASE hook[h].pc = "retry" /\ IncrCallbackRetries(rows[o].tenant, o)
    <3>1. /\ Retries(o)' \in {Retries(o), Retries(o) + 1}
          /\ \A x \in Orders \ {o} : Retries(x)' = Retries(x)
      <4>1. RowsTypeOK /\ o \in Orders /\ IncrCallbackRetries(rows[o].tenant, o)
        BY <1>1, <2>1, <2>3
      <4> QED BY <4>1, IncrementCounts
    <3>2. CASE Retries(o)' = Retries(o)
      <4>1. CountsSame
        BY <3>1, <3>2 DEF CountsSame
      <4> QED BY <2>2, <4>1
    <3>3. CASE Retries(o)' = Retries(o) + 1
      <4>1. HookCounted(o)
        <5>1. h \in HooksOwing(o) /\ HooksOwing(o)' \subseteq HooksOwing(o) \ {h}
          BY <1>0, <1>2, <2>1, <2>3 DEF HooksOwing
        <5>2. WorkersOwing(o)' \subseteq WorkersOwing(o)
          BY <1>2 DEF WorkersOwing
        <5> QED BY <2>1, <3>3, <5>1, <5>2 DEF HookCounted
      <4>2. \A x \in Orders \ {o} : SameCount(x) /\ NoMoreOwed(x)
        BY <1>2, <2>1, <3>1 DEF SameCount, NoMoreOwed, HooksOwing, WorkersOwing
      <4> QED BY <4>1, <4>2 DEF AccountEffect
    <3> QED BY <3>1, <3>2, <3>3
  <2>4. \/ UNCHANGED rowVars
        \/ MarkCallbackSuccess(rows[o].tenant, o)
        \/ MarkCallbackFailed(rows[o].tenant, o)
        \/ hook[h].pc = "retry" /\ IncrCallbackRetries(rows[o].tenant, o)
    BY <1>0, <1>10 DEF Record, StatementFails
  <2>5. MarkCallbackSuccess(rows[o].tenant, o) \/ MarkCallbackFailed(rows[o].tenant, o)
          => CountsSame
    BY <1>1, <2>1, StatementsDoNotCount
  <2> QED BY <1>3, <2>2, <2>3, <2>4, <2>5
<1> QED BY <1>4, <1>6, <1>7, <1>8, <1>9, <1>10 DEF Webhook, NotifyStep

\* A step of the worker r after which it owes nothing, and counts nothing.
LEMMA WorkerOwesNothing ==
    ASSUME NEW r \in Replicas, CountsSame, UNCHANGED <<failed, hook>>,
           \A s \in Replicas \ {r} : worker'[s] = worker[s], worker'[r].pc # "retry"
    PROVE  \A o \in Orders : AccountEffect(o)
  BY DEF CountsSame, AccountEffect, SameCount, NoMoreOwed, HooksOwing, WorkersOwing

LEMMA WorkerAccount ==
    ASSUME TypeOK, NEW r \in Replicas, Worker(r)
    PROVE  \A o \in Orders : AccountEffect(o)
<1>0. PICK o, t : o = worker[r].now.order /\ t = worker[r].now.tenant
  OBVIOUS
<1>1. /\ RowsTypeOK /\ CompensateTypeOK
      /\ \A x \in Orders : Retries(x) \in Nat /\ failed[x] \in Nat
  BY PresentRow
     DEF TypeOK, StoreTypeOK, RowsTypeOK, OutsideTypeOK, Retries, Payment
<1>2. UNCHANGED hook /\ \A s \in Replicas \ {r} : worker'[s] = worker[s]
  BY <1>1 DEF Worker, CompensateStep, BeginPass, EndPass, Skip, Attempt, DeliverAgain,
              RecordAgain, WorkerGoTo, CompensateTypeOK
<1>3. UNCHANGED rowVars => CountsSame
  BY DEF CountsSame, rowVars, Retries, Present
<1>4. ASSUME NEW work, worker' = [worker EXCEPT ![r] = work], work.pc # "retry",
             UNCHANGED failed, CountsSame
      PROVE  \A x \in Orders : AccountEffect(x)
  <2>1. worker'[r].pc # "retry"
    BY <1>1, <1>4 DEF CompensateTypeOK
  <2> QED BY <1>2, <1>4, <2>1, WorkerOwesNothing
<1>5. \A batch : Pass(batch).pc # "retry"
  BY DEF Pass
<1>6. CASE BeginPass(r)
  <2>1. CASE UNCHANGED worker
    BY <1>2, <1>3, <1>6, <2>1, NothingOwed DEF BeginPass, endpointVars
  <2>2. CASE \E batch : worker' = [worker EXCEPT ![r] = Pass(batch)]
    BY <1>3, <1>4, <1>5, <1>6, <2>2 DEF BeginPass, endpointVars
  <2> QED BY <1>6, <2>1, <2>2 DEF BeginPass
<1>7. CASE EndPass(r)
  <2>1. NoWork.pc # "retry"
    BY DEF NoWork
  <2> HIDE DEF NoWork
  <2> QED BY <1>3, <1>4, <1>7, <2>1 DEF EndPass, endpointVars
<1>8. CASE Skip(r)
  BY <1>3, <1>4, <1>5, <1>8 DEF Skip, endpointVars
<1>9. CASE Attempt(r)
  <2>1. PICK work : worker' = [worker EXCEPT ![r] = work] /\ work.pc # "retry"
    <3>1. ASSUME NEW p \in worker[r].batch, NEW pc \in {"fail", "send"}, NEW target
          PROVE  [pc |-> pc, batch |-> worker[r].batch \ {p},
                  now |-> p, target |-> target].pc # "retry"
      OBVIOUS
    <3> QED BY <1>5, <1>9, <3>1 DEF Attempt
  <2>2. CountsSame /\ UNCHANGED failed
    BY <1>3, <1>9 DEF Attempt, endpointVars
  <2> QED BY <1>4, <2>1, <2>2
<1>10. CASE DeliverAgain(r)
  <2>1. /\ o \in Orders
        /\ worker[r] \in [pc : Attempts, batch : SUBSET Snapshot, now : Snapshot,
                          target : Callbacks \cup {"none"}]
    BY <1>0, <1>1, <1>10, WorkMoves DEF DeliverAgain, Work, Snapshot
  <2>2. \A pc : WorkerGoTo(r, pc) => worker'[r].pc = pc /\ worker'[r].now.order = o
    BY <1>0, <1>1, <2>1 DEF WorkerGoTo, CompensateTypeOK
  <2>3. CountsSame
    BY <1>3, <1>10 DEF DeliverAgain
  <2>4. CASE SendAccepted(o, worker[r].target) /\ WorkerGoTo(r, "success")
    <3>1. worker'[r].pc # "retry" /\ UNCHANGED failed
      BY <2>2, <2>4 DEF SendAccepted
    <3> QED BY <1>2, <2>3, <3>1, WorkerOwesNothing
  <2>5. CASE SendFails(o, worker[r].target) /\ WorkerGoTo(r, "retry")
    <3>1. \A x \in Orders : failed'[x] = IF x = o THEN failed[x] + 1 ELSE failed[x]
      BY <2>1, <2>5 DEF SendFails, TypeOK, OutsideTypeOK
    <3>2. worker'[r].now.order = o
      BY <2>2, <2>5
    <3>3. WorkerFailed(o)
      <4>1. WorkersOwing(o)' \subseteq WorkersOwing(o) \cup {r}
        BY <1>0, <1>2 DEF WorkersOwing
      <4>2. HooksOwing(o)' \subseteq HooksOwing(o)
        BY <1>2 DEF HooksOwing
      <4> QED BY <2>1, <2>3, <3>1, <4>1, <4>2 DEF WorkerFailed, CountsSame
    <3>4. \A x \in Orders \ {o} : SameCount(x) /\ NoMoreOwed(x)
      BY <1>0, <1>2, <2>1, <2>3, <3>1, <3>2
         DEF SameCount, NoMoreOwed, CountsSame, HooksOwing, WorkersOwing
    <3> QED BY <3>3, <3>4 DEF AccountEffect
  <2> QED BY <1>0, <1>10, <2>4, <2>5 DEF DeliverAgain
<1>11. CASE RecordAgain(r)
  <2>1. worker'[r].pc # "retry" /\ UNCHANGED failed /\ o \in Orders
    BY <1>0, <1>1, <1>5, <1>11, WorkMoves
       DEF RecordAgain, CompensateTypeOK, Attempts, Snapshot, endpointVars
  <2>2. CASE CountsSame
    BY <1>2, <2>1, <2>2, WorkerOwesNothing
  <2>3. CASE worker[r].pc = "retry" /\ IncrCallbackRetries(t, o)
    <3>1. /\ Retries(o)' \in {Retries(o), Retries(o) + 1}
          /\ \A x \in Orders \ {o} : Retries(x)' = Retries(x)
      BY <1>1, <2>1, <2>3, IncrementCounts
    <3>2. CASE Retries(o)' = Retries(o)
      <4>1. CountsSame
        BY <3>1, <3>2 DEF CountsSame
      <4> QED BY <2>2, <4>1
    <3>3. CASE Retries(o)' = Retries(o) + 1
      <4>1. WorkerCounted(o)
        <5>1. r \in WorkersOwing(o) /\ WorkersOwing(o)' \subseteq WorkersOwing(o) \ {r}
          BY <1>0, <1>2, <2>1, <2>3 DEF WorkersOwing
        <5>2. HooksOwing(o)' \subseteq HooksOwing(o)
          BY <1>2 DEF HooksOwing
        <5> QED BY <2>1, <3>3, <5>1, <5>2 DEF WorkerCounted
      <4>2. \A x \in Orders \ {o} : SameCount(x) /\ NoMoreOwed(x)
        BY <1>2, <2>1, <3>1 DEF SameCount, NoMoreOwed, HooksOwing, WorkersOwing
      <4> QED BY <4>1, <4>2 DEF AccountEffect
    <3> QED BY <3>1, <3>2, <3>3
  <2>4. \/ UNCHANGED rowVars
        \/ MarkCallbackSuccess(t, o)
        \/ MarkCallbackFailed(t, o)
        \/ worker[r].pc = "retry" /\ IncrCallbackRetries(t, o)
    BY <1>0, <1>11 DEF RecordAgain, StatementFails
  <2>5. MarkCallbackSuccess(t, o) \/ MarkCallbackFailed(t, o) => CountsSame
    BY <1>1, <2>1, StatementsDoNotCount
  <2> QED BY <1>3, <2>2, <2>3, <2>4, <2>5
<1> QED BY <1>6, <1>7, <1>8, <1>9, <1>10, <1>11 DEF Worker, CompensateStep

LEMMA CrashAccount ==
    ASSUME TypeOK, NEW r \in Replicas, Crash(r)
    PROVE  \A o \in Orders : AccountEffect(o)
<1>1. \A h \in Handlers : hook'[h] = hook[h] \/ hook'[h].pc # "retry"
  BY DEF Crash, NoHook
<1>2. \A s \in Replicas : worker'[s] = worker[s] \/ worker'[s].pc # "retry"
  BY DEF Crash, NoWork, TypeOK, CompensateTypeOK
<1>3. UNCHANGED <<rows, failed>>
  BY DEF Crash, rowVars, endpointVars
<1> QED
  BY <1>1, <1>2, <1>3
     DEF AccountEffect, SameCount, NoMoreOwed, Retries, Present, HooksOwing, WorkersOwing

LEMMA StepAccount ==
    ASSUME TypeOK, [Next]_vars
    PROVE  \A o \in Orders : AccountEffect(o)
<1>1. UNCHANGED rowVars => CountsSame
  BY DEF CountsSame, rowVars, Retries, Present
<1>2. ASSUME NEW c \in captures, NEW h \in Handlers, Receive(h, c), UNCHANGED worker
      PROVE  \A o \in Orders : AccountEffect(o)
  <2>1. hook'[h].pc # "retry" /\ \A g \in Handlers \ {h} : hook'[g] = hook[g]
    BY <1>2 DEF Receive, TypeOK, NotifyTypeOK
  <2> QED BY <1>1, <1>2, <2>1, HookOwesNothing DEF Receive, endpointVars
<1>3. ASSUME NEW k \in checkouts, NEW a \in Amounts, Payer(k, a)
      PROVE  \A o \in Orders : AccountEffect(o)
  BY <1>1, <1>3, NothingOwed DEF Payer, endpointVars
<1>4. ASSUME NEW t \in Tenants, Admin(t)
      PROVE  \A o \in Orders : AccountEffect(o)
  BY <1>1, <1>4, NothingOwed DEF Admin, endpointVars
<1>5. CASE UNCHANGED vars
  BY <1>1, <1>5, NothingOwed DEF vars, endpointVars
<1> QED
  BY <1>2, <1>3, <1>4, <1>5, ClientAccount, WebhookAccount, WorkerAccount, CrashAccount
     DEF Next, Notification

\* The accounts are balanced at the start and after every step.
LEMMA CountedInductive ==
    /\ Init => Counted
    /\ TypeOK /\ Counted /\ [Next]_vars => Counted'
<1>1. ASSUME Init
      PROVE  Counted
  <2> SUFFICES ASSUME NEW o \in Orders
               PROVE  Accounted(o)
    BY DEF Counted
  <2>1. HooksOwing(o) = {}
    BY <1>1 DEF HooksOwing, Init, NotifyInit, NoHook
  <2>2. WorkersOwing(o) = {}
    BY <1>1 DEF WorkersOwing, Init, CompensateInit, NoWork
  <2>3. Retries(o) = 0
    BY <1>1 DEF Retries, Present, Init, BacklogRow, NoRow
  <2>4. failed[o] = 0
    BY <1>1 DEF Init
  <2> QED BY <2>1, <2>2, <2>3, <2>4, FS_EmptySet DEF Accounted
<1>2. ASSUME TypeOK, Counted, [Next]_vars
      PROVE  Counted'
  <2> SUFFICES ASSUME NEW o \in Orders
               PROVE  Accounted(o)'
    BY DEF Counted
  <2>1. Retries(o) \in Nat /\ failed[o] \in Nat
    BY <1>2, PresentRow
       DEF TypeOK, StoreTypeOK, RowsTypeOK, OutsideTypeOK, Retries, Payment
  <2> QED BY <1>2, <2>1, StepAccount, AccountKept DEF Counted
<1> QED BY <1>1, <1>2

(***************************************************************************)
(* A retry is counted only for a send that failed: a tenant lookup that    *)
(* fails, a crash or a snapshot that two workers share never costs a       *)
(* payment one of its attempts.                                            *)
(***************************************************************************)
THEOREM RetriesAreEarned == Safety => []RetriesAreFailedSends
<1>1. TypeOK /\ Counted => RetriesAreFailedSends
  <2> SUFFICES ASSUME TypeOK, Counted, NEW o \in Orders, Present(o)
               PROVE  rows[o].retries <= failed[o]
    BY DEF RetriesAreFailedSends
  <2>1. Accounted(o)
    BY DEF Counted
  <2>2. Cardinality(HooksOwing(o)) \in Nat /\ Cardinality(WorkersOwing(o)) \in Nat
    BY <2>1, FS_CardinalityType DEF Accounted
  <2>3. rows[o].retries \in Nat /\ failed[o] \in Nat
    BY PresentRow DEF TypeOK, StoreTypeOK, RowsTypeOK, OutsideTypeOK, Payment
  <2> QED BY <2>1, <2>2, <2>3 DEF Accounted, Retries
<1> QED BY <1>1, CountedInductive, TypeCorrect, PTL DEF Safety

-----------------------------------------------------------------------------
(***************************************************************************)
(* What the workers have to do.                                            *)
(***************************************************************************)

\* A row waits for a worker only if it did from the start, and a worker has no row
\* in hand that has used up its retries.
OnlyTheBacklogWaits ==
    /\ \A o \in Orders : Present(o) /\ rows[o].callback = "pending" => o \in Backlog
    /\ \A r \in Replicas : \A p \in Taken(worker[r]) :
         p.order \in Backlog /\ p.retries < MaxRetries

LEMMA PendingStaysBacklog ==
    ASSUME RowEffect,
           \A o \in Orders : Present(o) /\ rows[o].callback = "pending" => o \in Backlog,
           NEW o \in Orders, rows'[o].status # "absent", rows'[o].callback = "pending"
    PROVE  o \in Backlog
<1>1. Present(o) => rows[o].callback # "pending" \/ o \in Backlog
  OBVIOUS
<1>2. \/ rows'[o] = rows[o]
      \/ Inserted(o)
      \/ Linked(o)
      \/ PaidUp(o)
      \/ Attempted(o)
  BY DEF RowEffect
<1>3. CASE rows'[o] = rows[o]
  BY <1>1, <1>3 DEF Present
<1>4. CASE Linked(o) \/ PaidUp(o) \/ Attempted(o)
  BY <1>1, <1>4 DEF Linked, PaidUp, Attempted, Present
<1> QED BY <1>2, <1>3, <1>4 DEF Inserted

LEMMA BacklogInductive ==
    /\ Init => OnlyTheBacklogWaits
    /\ IInv /\ OnlyTheBacklogWaits /\ [Next]_vars => OnlyTheBacklogWaits'
<1>1. ASSUME Init
      PROVE  OnlyTheBacklogWaits
  <2>1. \A o \in Orders : Present(o) => o \in Backlog
    BY <1>1 DEF Init, Present, NoRow
  <2>2. \A r \in Replicas : Taken(worker[r]) = {}
    BY <1>1 DEF Init, CompensateInit, NoWork, Taken
  <2> QED BY <2>1, <2>2 DEF OnlyTheBacklogWaits
<1>2. ASSUME IInv, OnlyTheBacklogWaits, [Next]_vars
      PROVE  OnlyTheBacklogWaits'
  <2>1. RowEffect
    BY <1>2, StepEffect DEF IInv
  <2>2. \A o \in Orders : Present(o) /\ rows[o].callback = "pending" => o \in Backlog
    BY <1>2 DEF OnlyTheBacklogWaits
  <2>3. \A o \in Orders :
          rows'[o].status # "absent" /\ rows'[o].callback = "pending" => o \in Backlog
    BY <2>1, <2>2, PendingStaysBacklog
  <2>4. ASSUME NEW r \in Replicas, NEW p \in Taken(worker'[r])
        PROVE  p.order \in Backlog /\ p.retries < MaxRetries
    <3>1. CASE p \in Taken(worker[r])
      BY <1>2, <3>1 DEF OnlyTheBacklogWaits
    <3>2. CASE Listed(p)
      BY <2>2, <3>2 DEF Listed, Present
    <3> QED BY <1>2, <2>4, <3>1, <3>2, TakenStep DEF IInv, TakenEffect
  <2> QED BY <2>3, <2>4 DEF OnlyTheBacklogWaits, Present
<1> QED BY <1>1, <1>2

\* No statement makes a callback pending, so that nothing is added to the backlog.
LEMMA WorkersHaveOnlyTheBacklog == Safety => []OnlyTheBacklogWaits
  BY AlwaysIInv, BacklogInductive, PTL DEF Safety

(***************************************************************************)
(* On a database without a backlog the worker does nothing at all: no row  *)
(* ever waits for it, and it never takes one up (compensate.go).           *)
(***************************************************************************)
THEOREM WorkersHaveNothingToDo ==
    ASSUME Backlog = {}
    PROVE  Safety => [](/\ AwaitingCallback(MaxRetries) = {}
                        /\ \A r \in Replicas : Taken(worker[r]) = {})
<1>1. OnlyTheBacklogWaits => /\ AwaitingCallback(MaxRetries) = {}
                           /\ \A r \in Replicas : Taken(worker[r]) = {}
  BY DEF OnlyTheBacklogWaits, AwaitingCallback, Present
<1> QED BY <1>1, WorkersHaveOnlyTheBacklog, PTL

-----------------------------------------------------------------------------
(***************************************************************************)
(* When a payment is given up: a webhook or a worker that has found its    *)
(* owner inactive is the only one that does it.                            *)
(***************************************************************************)

OwnersActive == \A o \in Orders : Present(o) => tenants[rows[o].tenant].active

NobodyGivesUp ==
    /\ \A o \in Orders : ~GivenUp(o)
    /\ \A h \in Handlers : hook[h].pc # "fail"
    /\ \A r \in Replicas : worker[r].pc # "fail"

LEMMA HookGoesOn ==
    ASSUME TypeOK, OnRecord, OwnersActive, NEW h \in Handlers, Webhook(h),
           hook[h].pc # "fail"
    PROVE  hook'[h].pc # "fail"
<1>1. NotifyTypeOK
  BY DEF TypeOK
<1>2. CASE AnswerSent(h)
  BY <1>2 DEF AnswerSent
<1>3. ASSUME hook[h].pc # "idle", hook[h].pc # "tenant", NotifyStep(h)
      PROVE  \/ \E ok : Return(h, ok)
             \/ \E pc \in {"paid", "tenant", "success", "retry"} : HookGoTo(h, pc)
  BY <1>3 DEF NotifyStep, Lookup, MarkPaid, ResolveTenant, Deliver, Record
<1>4. CASE ResolveTenant(h)
  <2>1. hook[h] \in Hook /\ OrderIn(h) \in Orders
    BY <1>1, <1>4, HookMoves, HookOrder DEF ResolveTenant
  <2>2. Present(OrderIn(h))
    BY <1>4 DEF ResolveTenant, OnRecord, HooksOnRecord, PhaseTwo, OrderIn
  <2>3. tenants[rows[OrderIn(h)].tenant].active
    BY <2>1, <2>2 DEF OwnersActive
  <2>4. \/ \E ok : Return(h, ok)
        \/ \E target : hook' = [hook EXCEPT ![h].pc = "send", ![h].target = target]
    BY <1>4, <2>3 DEF ResolveTenant
  <2>5. ASSUME NEW target, hook' = [hook EXCEPT ![h].pc = "send", ![h].target = target]
        PROVE  hook'[h].pc = "send"
    BY <1>1, <2>1, <2>5 DEF NotifyTypeOK, Hook
  <2>6. \A ok : Return(h, ok) => hook'[h].pc = "idle"
    BY <1>1, <1>4, HookGoes DEF ResolveTenant
  <2> QED BY <2>4, <2>5, <2>6
<1>5. CASE NotifyStep(h) /\ hook[h].pc # "tenant"
  <2>1. hook[h].pc # "idle"
    BY <1>5 DEF NotifyStep, Lookup, MarkPaid, ResolveTenant, Deliver, Record
  <2>2. /\ \A pc : HookGoTo(h, pc) => hook'[h].pc = pc
        /\ \A ok : Return(h, ok) => hook'[h].pc = "idle"
    BY <1>1, <2>1, HookGoes
  <2> QED BY <1>3, <1>5, <2>1, <2>2
<1>6. NotifyStep(h) /\ hook[h].pc = "tenant" => ResolveTenant(h)
  BY DEF NotifyStep, Lookup, MarkPaid, ResolveTenant, Deliver, Record
<1> QED BY <1>2, <1>4, <1>5, <1>6 DEF Webhook

LEMMA HooksGoOn ==
    ASSUME TypeOK, OnRecord, OwnersActive, [Next]_vars, NEW h \in Handlers,
           hook[h].pc # "fail"
    PROVE  hook'[h].pc # "fail"
<1>1. CASE hook'[h] = hook[h]
  BY <1>1
<1>2. ASSUME NEW g \in Handlers, Webhook(g)
      PROVE  hook'[h].pc # "fail"
  <2>1. CASE g = h
    BY <1>2, <2>1, HookGoesOn
  <2>2. CASE g # h
    <3>1. hook'[h] = hook[h]
      BY <1>2, <2>2
         DEF TypeOK, NotifyTypeOK, Webhook, NotifyStep, AnswerSent, Lookup, MarkPaid,
             ResolveTenant, Deliver, Record, HookGoTo, Return
    <3> QED BY <1>1, <3>1
  <2> QED BY <2>1, <2>2
<1>3. ASSUME NEW c \in captures, NEW g \in Handlers, Receive(g, c)
      PROVE  hook'[h].pc # "fail"
  <2>1. hook'[h] = hook[h] \/ hook'[h] = [pc |-> "lookup", about |-> c, target |-> "none"]
    BY <1>3 DEF Receive, TypeOK, NotifyTypeOK
  <2> QED BY <2>1
<1>4. ASSUME NEW r \in Replicas, Crash(r)
      PROVE  hook'[h].pc # "fail"
  BY <1>4 DEF Crash, NoHook
<1> QED
  BY <1>1, <1>2, <1>3, <1>4 DEF Next, Client, Notification, Worker, Payer, Admin, vars

LEMMA WorkerGoesOn ==
    ASSUME TypeOK, OnRecord, OwnersActive, OnlyTheBacklogWaits, NEW r \in Replicas, Worker(r),
           worker[r].pc # "fail"
    PROVE  worker'[r].pc # "fail"
<1> DEFINE w == worker[r]
<1>1. CompensateTypeOK
  BY DEF TypeOK
<1>2. ASSUME NEW batch, worker' = [worker EXCEPT ![r] = Pass(batch)]
      PROVE  worker'[r].pc = "pass"
  BY <1>1, <1>2 DEF CompensateTypeOK, Pass
<1>3. CASE BeginPass(r) \/ Skip(r) \/ RecordAgain(r)
  <2>1. UNCHANGED worker \/ \E batch : worker' = [worker EXCEPT ![r] = Pass(batch)]
    BY <1>3 DEF BeginPass, Skip, RecordAgain
  <2> QED BY <1>2, <2>1
<1>4. CASE EndPass(r)
  BY <1>1, <1>4 DEF EndPass, CompensateTypeOK, NoWork
<1>5. CASE Attempt(r)
  <2>1. w.pc = "pass"
    BY <1>5 DEF Attempt
  <2>2. ASSUME NEW p \in w.batch
        PROVE  p.retries < MaxRetries /\ tenants[p.tenant].active
    <3>1. p \in Taken(w) /\ p \in Snapshot
      BY <1>1, <2>1, <2>2, WorkMoves DEF Taken
    <3>2. SnapshotIsRight(p)
      BY <2>1, <2>2 DEF OnRecord, WorkOnRecord
    <3>3. Present(p.order) /\ p.order \in Orders
      BY <3>1, <3>2 DEF SnapshotIsRight, Present, Snapshot
    <3>4. tenants[p.tenant].active
      BY <3>2, <3>3 DEF OwnersActive, SnapshotIsRight
    <3> QED BY <3>1, <3>4 DEF OnlyTheBacklogWaits
  <2>3. \A p \in w.batch : p.retries \in Nat
    BY <1>1, <2>1, WorkMoves DEF Snapshot
  <2>4. \/ \E batch : worker' = [worker EXCEPT ![r] = Pass(batch)]
        \/ \E batch, now, target :
              worker' = [worker EXCEPT ![r] = [pc |-> "send", batch |-> batch,
                                               now |-> now, target |-> target]]
    <3>1. PICK p \in w.batch :
            \/ worker' = [worker EXCEPT ![r] = Pass(w.batch \ {p})]
            \/ p.retries >= MaxRetries \/ ~tenants[p.tenant].active
            \/ worker' = [worker EXCEPT ![r] = [pc |-> "send", batch |-> w.batch \ {p},
                                                now |-> p,
                                                target |-> tenants[p.tenant].callback]]
      BY <1>5 DEF Attempt
    <3>2. ~(p.retries >= MaxRetries)
      BY <2>2, <2>3, CompensateAssumption
    <3>3. tenants[p.tenant].active
      BY <2>2
    <3> QED BY <3>1, <3>2, <3>3
  <2>5. ASSUME NEW batch, NEW now, NEW target,
               worker' = [worker EXCEPT ![r] = [pc |-> "send", batch |-> batch,
                                                now |-> now, target |-> target]]
        PROVE  worker'[r].pc = "send"
    BY <1>1, <2>5 DEF CompensateTypeOK
  <2> QED BY <1>2, <2>4, <2>5
<1>6. CASE DeliverAgain(r)
  <2>1. w \in [pc : Attempts, batch : SUBSET Snapshot, now : Snapshot,
               target : Callbacks \cup {"none"}]
    BY <1>1, <1>6, WorkMoves DEF DeliverAgain, Work
  <2>2. PICK pc \in {"success", "retry"} : WorkerGoTo(r, pc)
    BY <1>6 DEF DeliverAgain
  <2>3. worker'[r].pc = pc
    BY <1>1, <2>1, <2>2 DEF WorkerGoTo, CompensateTypeOK
  <2> QED BY <2>3
<1> QED BY <1>3, <1>4, <1>5, <1>6 DEF Worker, CompensateStep

LEMMA WorkersGoOn ==
    ASSUME TypeOK, OnRecord, OwnersActive, OnlyTheBacklogWaits, [Next]_vars,
           NEW r \in Replicas, worker[r].pc # "fail"
    PROVE  worker'[r].pc # "fail"
<1>1. CASE worker'[r] = worker[r]
  BY <1>1
<1>2. ASSUME NEW s \in Replicas, Worker(s)
      PROVE  worker'[r].pc # "fail"
  <2>1. CASE s = r
    BY <1>2, <2>1, WorkerGoesOn
  <2>2. CASE s # r
    <3>1. worker'[r] = worker[r]
      BY <1>2, <2>2
         DEF TypeOK, CompensateTypeOK, Worker, CompensateStep, BeginPass, EndPass, Skip,
             Attempt, DeliverAgain, RecordAgain, WorkerGoTo
    <3> QED BY <1>1, <3>1
  <2> QED BY <2>1, <2>2
<1>3. ASSUME NEW s \in Replicas, Crash(s)
      PROVE  worker'[r].pc # "fail"
  <2>1. worker'[r] = worker[r] \/ worker'[r] = NoWork
    BY <1>3 DEF Crash, TypeOK, CompensateTypeOK
  <2> QED BY <1>1, <2>1 DEF NoWork
<1> QED
  BY <1>1, <1>2, <1>3 DEF Next, Client, Webhook, Notification, Payer, Admin, vars

LEMMA NobodyGivesUpKept ==
    ASSUME TypeOK, OnRecord, OwnersActive, OnlyTheBacklogWaits, NobodyGivesUp, [Next]_vars
    PROVE  NobodyGivesUp'
<1>1. ASSUME NEW o \in Orders, rows'[o].status # "absent", rows'[o].callback = "failed"
      PROVE  FALSE
  <2>1. ~GivingUp(o) /\ ~(Present(o) /\ rows[o].callback = "failed")
    BY DEF NobodyGivesUp, GivingUp, GivenUp
  <2>2. \/ rows'[o] = rows[o]
        \/ Inserted(o)
        \/ Linked(o)
        \/ PaidUp(o)
        \/ Attempted(o)
    BY StepEffect DEF RowEffect
  <2>3. CASE rows'[o] = rows[o]
    BY <1>1, <2>1, <2>3 DEF Present
  <2>4. CASE Linked(o) \/ PaidUp(o) \/ Attempted(o)
    BY <1>1, <2>1, <2>4 DEF Linked, PaidUp, Attempted, Present
  <2> QED BY <1>1, <2>2, <2>3, <2>4 DEF Inserted
<1>2. \A h \in Handlers : hook'[h].pc # "fail"
  BY HooksGoOn DEF NobodyGivesUp
<1>3. \A r \in Replicas : worker'[r].pc # "fail"
  BY WorkersGoOn DEF NobodyGivesUp
<1> QED BY <1>1, <1>2, <1>3 DEF NobodyGivesUp, GivenUp, Present

(***************************************************************************)
(* The only thing that makes the server give a payment up is an owner who  *)
(* is inactive (stripe.go:146-155, compensate.go:93-100): as long as the   *)
(* owners are active no callback ends as 'failed', however many sends      *)
(* fail and however many retries are used up.  The owner of a payment is   *)
(* never missing (OwnerExists), so that this is no third reason.           *)
(***************************************************************************)
THEOREM OnlyInactiveIsGivenUp ==
    Safety /\ []OwnersActive => [](\A o \in Orders : ~GivenUp(o))
<1>1. Init => NobodyGivesUp
  <2>1. ASSUME Init, NEW o \in Orders
        PROVE  ~GivenUp(o)
    <3>1. rows[o].callback = "pending" \/ ~Present(o)
      BY <2>1 DEF Init, BacklogRow, NoRow, Present
    <3> QED BY <3>1 DEF GivenUp
  <2>2. ASSUME Init
        PROVE  /\ \A h \in Handlers : hook[h].pc # "fail"
               /\ \A r \in Replicas : worker[r].pc # "fail"
    <3>1. NotifyInit /\ CompensateInit
      BY <2>2 DEF Init
    <3> QED BY <3>1 DEF NotifyInit, CompensateInit, NoHook, NoWork
  <2> QED BY <2>1, <2>2 DEF NobodyGivesUp
<1>2. IInv /\ OnlyTheBacklogWaits /\ OwnersActive /\ NobodyGivesUp /\ [Next]_vars
        => NobodyGivesUp'
  BY NobodyGivesUpKept DEF IInv
<1>3. NobodyGivesUp => \A o \in Orders : ~GivenUp(o)
  BY DEF NobodyGivesUp
<1> QED
  BY <1>1, <1>2, <1>3, AlwaysIInv, WorkersHaveOnlyTheBacklog, PTL DEF Safety

-----------------------------------------------------------------------------
(***************************************************************************)
(* The server implements PaymentLedger.  The lemmas of the first group     *)
(* turn what a step does to the tables into an action of the ledger; those *)
(* of the second show that a step changes at most one row, and which of    *)
(* the actions it is then (by RowEffect and RowsKept).                     *)
(***************************************************************************)

\* What the ledger says of the order o.
EntryOf(o) ==
    IF Present(o)
    THEN [state |-> IF rows[o].status = "paid" THEN "settled" ELSE "open",
          tenant |-> rows[o].tenant, channel |-> rows[o].channel,
          amount |-> rows[o].amount]
    ELSE [state |-> "none"]

\* A step of which the ledger sees nothing, and one that changes o at most.
SameEntries == \A o \in Orders : EntryOf(o)' = EntryOf(o)

OnlyEntry(o) ==
    /\ o \in Orders
    /\ \A x \in Orders \ {o} : EntryOf(x)' = EntryOf(x)

Book == [o \in Orders |-> EntryOf(o)]

\* What the ledger knows of the captures, and the order to which they are booked.
MoneyOf(c) == [order |-> c.order, channel |-> c.channel, amount |-> c.amount]

Money == {MoneyOf(c) : c \in captures}

Account == [o \in Orders |-> UuidFromCompact(OutTradeNo(o))]

\* Each action of the ledger, in terms of the tables.
LEMMA LedgerStutters ==
    ASSUME SameEntries, UNCHANGED <<captures, received>>
    PROVE  UNCHANGED Ledger!vars
  BY DEF Ledger!vars, SameEntries, EntryOf

LEMMA LedgerEnters ==
    ASSUME NEW o \in Orders, NEW t \in Tenants, NEW c \in Channels, NEW a \in Amounts,
           ~Present(o), OnlyEntry(o), UNCHANGED <<captures, received>>,
           EntryOf(o)' = [state |-> "open", tenant |-> t, channel |-> c, amount |-> a]
    PROVE  Ledger!Next
<1> DEFINE e == [state |-> "open", tenant |-> t, channel |-> c, amount |-> a]
<1>1. Book[o] = [state |-> "none"]
  BY DEF Book, EntryOf
<1>2. Book' = [Book EXCEPT ![o] = e]
  BY DEF Book, OnlyEntry
<1>3. UNCHANGED <<Money, received>>
  BY DEF Money, MoneyOf
<1>4. \E t1 \in Tenants, c1 \in Channels, a1 \in Amounts :
        Book' = [Book EXCEPT ![o] = [state |-> "open", tenant |-> t1,
                                     channel |-> c1, amount |-> a1]]
  BY <1>2
<1>5. Ledger!Enter(o)
  BY <1>1, <1>3, <1>4 DEF Ledger!Enter, Ledger!NoEntry, Book, EntryOf, Money, MoneyOf
<1> QED BY <1>5 DEF Ledger!Next

LEMMA LedgerSettles ==
    ASSUME TypeOK, NEW o \in Orders, rows[o].status = "pending",
           NEW c \in captures, Pays(c, o),
           OnlyEntry(o), UNCHANGED <<captures, received>>,
           EntryOf(o)' = [EntryOf(o) EXCEPT !.state = "settled"]
    PROVE  Ledger!Next
<1>1. Present(o)
  BY DEF Present
<1> DEFINE m == MoneyOf(c)
<1>2. c.order \in Orders /\ Account[c.order] = o
  BY CaptureShape DEF TypeOK, OutsideTypeOK, Account, Pays, OrderOf
<1>3. m \in Money
  BY DEF Money
<1>4. EntryOf(o).state = "open"
  BY <1>1 DEF EntryOf
<1>5. Account[m.order] = o /\ m.amount = EntryOf(o).amount
  BY <1>1, <1>2 DEF EntryOf, Pays, MoneyOf
<1>6. m.channel \in {"stripe"} => m.channel = EntryOf(o).channel
  BY <1>1 DEF EntryOf, Pays, MoneyOf
<1>7. Ledger!Covers(m, o)
  BY <1>5, <1>6 DEF Ledger!Covers, Account, EntryOf
<1>8. \E x \in Money : Ledger!Covers(x, o)
  BY <1>3, <1>7
<1>9. Book[o].state = "open" /\ Book' = [Book EXCEPT ![o].state = "settled"]
  BY <1>4 DEF Book, OnlyEntry
<1>10. UNCHANGED <<Money, received>>
  BY DEF Money, MoneyOf
<1>11. Ledger!Settle(o)
  BY <1>8, <1>9, <1>10 DEF Ledger!Settle, Money, MoneyOf, Book, EntryOf
<1> QED BY <1>11 DEF Ledger!Next

LEMMA LedgerReceives ==
    ASSUME NEW o \in Orders, NEW a \in Amounts, NEW no, Present(o), SameEntries,
           \A c \in captures : c.order # o,
           captures' = captures \cup {[order |-> o, no |-> no, channel |-> rows[o].channel,
                                       amount |-> a]},
           UNCHANGED received
    PROVE  Ledger!Next
<1> DEFINE c1 == [order |-> o, no |-> no, channel |-> rows[o].channel, amount |-> a]
<1>1. \A m \in Money : m.order # o
  BY DEF Money, MoneyOf
<1>2. Money' = Money \cup {[order |-> o, channel |-> rows[o].channel, amount |-> a]}
  <2>1. MoneyOf(c1) = [order |-> o, channel |-> rows[o].channel, amount |-> a]
    BY DEF MoneyOf
  <2>2. Money' = {MoneyOf(c) : c \in captures \cup {c1}}
    BY DEF Money, MoneyOf
  <2>3. {MoneyOf(c) : c \in captures \cup {c1}} = Money \cup {MoneyOf(c1)}
    <3> HIDE DEF c1
    <3> QED BY DEF Money
  <2> QED BY <2>1, <2>2, <2>3
<1>3. Ledger!Receive(o)
  BY <1>1, <1>2 DEF Ledger!Receive, Ledger!NoEntry, EntryOf, SameEntries, Money, MoneyOf
<1> QED BY <1>3 DEF Ledger!Next

LEMMA LedgerTells ==
    ASSUME NEW o \in Orders, rows[o].status = "paid", SameEntries,
           received' = received \cup {o}, UNCHANGED captures
    PROVE  Ledger!Next
<1>1. Ledger!Tell(o)
  BY DEF Ledger!Tell, EntryOf, SameEntries, Present
<1> QED BY <1>1 DEF Ledger!Next

\* What the ledger allows in one step.
LedgerStep == Ledger!Next \/ UNCHANGED Ledger!vars

\* No row but that of o changes.
OneRow(o) == \A x \in Orders \ {o} : rows'[x] = rows[x]

\* The UPDATE statements name the row by its order_id, which is unique.
LEMMA StatementsOneRow ==
    ASSUME RowsTypeOK, NEW o \in Orders, NEW STATE t, NEW STATE trade, NEW STATE url,
           \/ UpdatePaymentGatewayResult(o, trade, url)
           \/ MarkPaymentPaid(t, o, trade)
           \/ MarkCallbackSuccess(t, o)
           \/ IncrCallbackRetries(t, o)
           \/ MarkCallbackFailed(t, o)
           \/ UNCHANGED rowVars
    PROVE  OneRow(o)
<1>1. ASSUME NEW STATE cond, NEW STATE row, UpdateWhere(o, cond, row)
      PROVE  OneRow(o)
  BY <1>1 DEF UpdateWhere, RowsTypeOK, rowVars, OneRow
<1> QED
  BY <1>1 DEF UpdatePaymentGatewayResult, MarkPaymentPaid, MarkCallbackSuccess,
              IncrCallbackRetries, MarkCallbackFailed, OneRow, rowVars

\* A step that changes the table changes one row, and neither captures nor tells.
RowStep ==
    /\ UNCHANGED <<captures, received>>
    /\ \E o \in Orders : OneRow(o)

LEMMA ClientRows ==
    ASSUME TypeOK, NEW q \in Requests, Client(q)
    PROVE  UNCHANGED <<captures, received>> /\ (UNCHANGED rows \/ RowStep)
<1> DEFINE p == request[q]
<1>1. RowsTypeOK
  BY DEF TypeOK, StoreTypeOK, RowsTypeOK
<1>2. UNCHANGED <<captures, received>>
  BY DEF Client, BeginRequest, CreatePaymentStep, Authenticate, InsertOrGetPayment,
         FetchExisting, CallGateway, SaveGatewayResult, gatewayVars, endpointVars
<1>3. p.pc \in {"insert", "save"} => p.order \in Orders
  BY RequestMoves DEF TypeOK, Request
<1>4. CASE p.pc = "insert" /\ InsertRow(p.order, p.tenant, p.channel, p.amount)
  BY <1>1, <1>2, <1>3, <1>4 DEF InsertRow, RowsTypeOK, RowStep, OneRow
<1>5. CASE /\ p.pc = "save"
           /\ UpdatePaymentGatewayResult(p.order,
                IF p.channel = "stripe" THEN "session" ELSE "", "link")
  BY <1>1, <1>2, <1>3, <1>5, StatementsOneRow DEF RowStep
<1> QED
  BY <1>2, <1>4, <1>5
     DEF Client, BeginRequest, CreatePaymentStep, Authenticate, InsertOrGetPayment,
         FetchExisting, CallGateway, SaveGatewayResult, StatementFails, rowVars

LEMMA MarkPaidRows ==
    ASSUME TypeOK, NEW h \in Handlers, MarkPaid(h)
    PROVE  UNCHANGED rows \/ RowStep
<1> DEFINE c == hook[h].about
<1>1. RowsTypeOK /\ OrderOf(c) \in Orders
  BY HookOrder DEF TypeOK, StoreTypeOK, RowsTypeOK, MarkPaid
<1>2. UNCHANGED <<captures, received>>
  BY DEF MarkPaid, Return, gatewayVars, endpointVars
<1>3. \/ UNCHANGED rowVars
      \/ MarkPaymentPaid(rows[OrderOf(c)].tenant, OrderOf(c),
           IF c.channel = "stripe" THEN "session" ELSE "transaction")
  BY DEF MarkPaid, StatementFails
<1> QED BY <1>1, <1>2, <1>3, StatementsOneRow DEF RowStep

LEMMA RecordRows ==
    ASSUME TypeOK, NEW h \in Handlers, Record(h)
    PROVE  UNCHANGED rows \/ RowStep
<1> DEFINE o == OrderIn(h)
<1>1. RowsTypeOK /\ o \in Orders
  BY HookOrder DEF TypeOK, StoreTypeOK, RowsTypeOK, Record
<1>2. UNCHANGED <<captures, received>>
  BY DEF Record, Return, endpointVars
<1>3. \/ UNCHANGED rowVars
      \/ MarkCallbackSuccess(rows[o].tenant, o)
      \/ IncrCallbackRetries(rows[o].tenant, o)
      \/ MarkCallbackFailed(rows[o].tenant, o)
  BY DEF Record, StatementFails
<1> QED BY <1>1, <1>2, <1>3, StatementsOneRow DEF RowStep

LEMMA RecordAgainRows ==
    ASSUME TypeOK, NEW r \in Replicas, RecordAgain(r)
    PROVE  UNCHANGED rows \/ RowStep
<1> DEFINE o == worker[r].now.order
           t == worker[r].now.tenant
<1>1. RowsTypeOK /\ o \in Orders
  BY WorkMoves DEF TypeOK, StoreTypeOK, RowsTypeOK, RecordAgain, Attempts, Snapshot
<1>2. UNCHANGED <<captures, received>>
  BY DEF RecordAgain, gatewayVars, endpointVars
<1>3. \/ UNCHANGED rowVars
      \/ MarkCallbackSuccess(t, o)
      \/ IncrCallbackRetries(t, o)
      \/ MarkCallbackFailed(t, o)
  BY DEF RecordAgain, StatementFails
<1> QED BY <1>1, <1>2, <1>3, StatementsOneRow DEF RowStep

\* A step that changes one row enters or settles its order, or changes nothing
\* that the ledger sees.
LEMMA RowLedgerStep ==
    ASSUME TypeOK, TypeOK', RowsKept, RowEffect, RowStep
    PROVE  LedgerStep
<1>1. PICK o \in Orders : OneRow(o)
  BY DEF RowStep
<1>2. \A x \in Orders \ {o} : EntryOf(x)' = EntryOf(x)
  BY <1>1 DEF OneRow, EntryOf, Present
<1>3. UNCHANGED <<captures, received>>
  BY DEF RowStep
<1>4. RowsTypeOK /\ RowsTypeOK'
  BY DEF TypeOK, StoreTypeOK, RowsTypeOK
<1>5. OnlyEntry(o)
  BY <1>2 DEF OnlyEntry
<1>6. EntryOf(o)' = EntryOf(o) => LedgerStep
  BY <1>2, <1>3, LedgerStutters DEF SameEntries, LedgerStep
<1>7. Present(o) => /\ Present(o)'
                    /\ rows'[o].tenant = rows[o].tenant
                    /\ rows'[o].channel = rows[o].channel
                    /\ rows'[o].amount = rows[o].amount
                    /\ rows[o].status = "paid" => rows'[o].status = "paid"
  BY RecordKept DEF Kept, Present
<1>8. CASE rows'[o] = rows[o]
  BY <1>6, <1>8 DEF EntryOf, Present
<1>9. CASE Inserted(o)
  <2>1. /\ rows'[o].tenant \in Tenants /\ rows'[o].channel \in Channels
        /\ rows'[o].amount \in Amounts
    <3>1. Present(o)'
      BY <1>9 DEF Inserted, Present
    <3>2. rows'[o] \in Payment
      BY <1>4, <3>1 DEF RowsTypeOK, NoRow, Present
    <3> QED BY <3>2 DEF Payment
  <2>2. EntryOf(o)' = [state |-> "open", tenant |-> rows'[o].tenant,
                       channel |-> rows'[o].channel, amount |-> rows'[o].amount]
    BY <1>9 DEF Inserted, EntryOf, Present
  <2> QED BY <1>3, <1>5, <1>9, <2>1, <2>2, LedgerEnters DEF Inserted, LedgerStep
<1>10. CASE Linked(o)
  BY <1>6, <1>7, <1>10 DEF Linked, EntryOf, Present
<1>11. CASE PaidUp(o)
  <2>1. Present(o)
    BY <1>11 DEF PaidUp, Present
  <2>2. EntryOf(o)' = [EntryOf(o) EXCEPT !.state = "settled"]
    BY <1>7, <1>11, <2>1 DEF PaidUp, EntryOf, Present
  <2> QED BY <1>3, <1>5, <1>11, <2>2, LedgerSettles DEF PaidUp, LedgerStep
<1>12. CASE Attempted(o)
  BY <1>6, <1>7, <1>12 DEF Attempted, EntryOf, Present
<1> QED BY <1>8, <1>9, <1>10, <1>11, <1>12 DEF RowEffect

\* What Send posts, it posts for a row that is paid.
LEMMA SendTells ==
    ASSUME NEW o \in Orders, rows[o].status = "paid", NEW STATE target,
           UNCHANGED <<rows, captures>>, SendAccepted(o, target) \/ SendFails(o, target)
    PROVE  LedgerStep
<1>1. SameEntries
  BY DEF SameEntries, EntryOf, Present
<1>2. received' = received \/ received' = received \cup {o}
  BY DEF SendAccepted, SendFails
<1> QED BY <1>1, <1>2, LedgerTells, LedgerStutters DEF LedgerStep

\* Only one gateway has a checkout of an order, so it captures once.
LEMMA PayerReceives ==
    ASSUME TypeOK, OnRecord, NEW k \in checkouts, NEW a \in Amounts, Payer(k, a)
    PROVE  LedgerStep
<1>1. k.order \in Orders
  BY DEF TypeOK, OutsideTypeOK, Checkout
<1>2. Present(k.order) /\ rows[k.order].channel = k.channel
  BY DEF OnRecord, GatewayOnRecord
<1>3. \A c \in captures : c.order # k.order
  BY <1>2 DEF OnRecord, GatewayOnRecord, Payer, Pay
<1>4. SameEntries /\ UNCHANGED received
  BY DEF SameEntries, EntryOf, Present, Payer, rowVars, endpointVars
<1>5. captures' = captures \cup
        {[order |-> k.order, no |-> k.no, channel |-> rows[k.order].channel, amount |-> a]}
  BY <1>2 DEF Payer, Pay
<1> QED BY <1>1, <1>2, <1>3, <1>4, <1>5, LedgerReceives DEF LedgerStep

\* Every step of the server is one of the ledger, or one it does not see.
LEMMA StepIsLedgerStep ==
    ASSUME IInv, [Next]_vars
    PROVE  LedgerStep
<1>0. TypeOK /\ OnRecord /\ TypeOK' /\ RowsKept /\ RowEffect
  BY StepKeeps, StepEffect DEF IInv, OnRecord
<1>1. CASE UNCHANGED <<rows, captures, received>>
  BY <1>1, LedgerStutters DEF LedgerStep, SameEntries, EntryOf, Present
<1>2. CASE RowStep
  BY <1>0, <1>2, RowLedgerStep
<1>3. ASSUME NEW q \in Requests, Client(q)
      PROVE  LedgerStep
  BY <1>0, <1>1, <1>2, <1>3, ClientRows
<1>4. ASSUME NEW h \in Handlers, Webhook(h)
      PROVE  LedgerStep
  <2>1. CASE MarkPaid(h)
    BY <1>0, <1>1, <1>2, <2>1, MarkPaidRows
       DEF MarkPaid, Return, gatewayVars, endpointVars
  <2>2. CASE Record(h)
    BY <1>0, <1>1, <1>2, <2>2, RecordRows DEF Record, Return, endpointVars
  <2>3. CASE Deliver(h)
    <3>1. OrderIn(h) \in Orders
      BY <1>0, <2>3, HookOrder DEF Deliver, TypeOK
    <3>2. rows[OrderIn(h)].status = "paid"
      BY <1>0, <2>3 DEF Deliver, OnRecord, HooksOnRecord, PhaseTwo, OrderIn
    <3> QED BY <2>3, <3>1, <3>2, SendTells DEF Deliver, rowVars, gatewayVars
  <2>4. CASE Lookup(h) \/ ResolveTenant(h) \/ AnswerSent(h)
    BY <1>1, <2>4
       DEF Lookup, ResolveTenant, AnswerSent, Return, rowVars, gatewayVars, endpointVars
  <2> QED BY <1>4, <2>1, <2>2, <2>3, <2>4 DEF Webhook, NotifyStep
<1>5. ASSUME NEW r \in Replicas, Worker(r)
      PROVE  LedgerStep
  <2>1. CASE RecordAgain(r)
    BY <1>0, <1>1, <1>2, <2>1, RecordAgainRows DEF RecordAgain, gatewayVars, endpointVars
  <2>2. CASE DeliverAgain(r)
    <3>1. worker[r].now.order \in Orders
      BY <1>0, <2>2, WorkMoves DEF DeliverAgain, Attempts, Snapshot, TypeOK
    <3>2. rows[worker[r].now.order].status = "paid"
      BY <1>0, <2>2 DEF DeliverAgain, OnRecord, WorkOnRecord, SnapshotIsRight, Attempts
    <3> QED BY <2>2, <3>1, <3>2, SendTells DEF DeliverAgain, rowVars, gatewayVars
  <2>3. CASE BeginPass(r) \/ EndPass(r) \/ Skip(r) \/ Attempt(r)
    BY <1>1, <2>3
       DEF BeginPass, EndPass, Skip, Attempt, rowVars, gatewayVars, endpointVars
  <2> QED BY <1>5, <2>1, <2>2, <2>3 DEF Worker, CompensateStep
<1>6. ASSUME NEW k \in checkouts, NEW a \in Amounts, Payer(k, a)
      PROVE  LedgerStep
  BY <1>0, <1>6, PayerReceives
<1> QED
  BY <1>1, <1>3, <1>4, <1>5, <1>6
     DEF Next, Notification, Receive, Crash, Admin, vars, rowVars, gatewayVars, endpointVars

\* The backlog is what the ledger starts with.
LEMMA InitIsLedgerInit == Init => Ledger!Init
<1> SUFFICES ASSUME Init PROVE Ledger!Init
  OBVIOUS
<1>1. RowsTypeOK
  BY InitTyped DEF TypeOK, StoreTypeOK, RowsTypeOK
<1>2. \A o \in Orders : IF o \in Backlog THEN rows[o].status = "paid" ELSE ~Present(o)
  BY DEF Init, BacklogRow, NoRow, Present
<1>3. \A o \in Orders : EntryOf(o).state = IF o \in Backlog THEN "settled" ELSE "none"
  BY <1>2 DEF EntryOf, Present
<1>4. \A o \in Orders : EntryOf(o) \in Ledger!Entry \cup {Ledger!NoEntry}
  <2> SUFFICES ASSUME NEW o \in Orders, Present(o)
               PROVE  EntryOf(o) \in Ledger!Entry
    BY DEF EntryOf, Ledger!NoEntry
  <2>1. rows[o].tenant \in Tenants /\ rows[o].channel \in Channels /\ rows[o].amount \in Amounts
    BY <1>1, PresentRow DEF Payment
  <2> QED BY <2>1 DEF EntryOf, Ledger!Entry
<1>5. \A o \in Backlog : /\ o \in Orders /\ Present(o)
                        /\ EntryOf(o).channel = rows[o].channel
                        /\ EntryOf(o).amount = rows[o].amount
  BY <1>2, PayserverAssumption DEF EntryOf, Present
<1>6. Money = {[order |-> o, channel |-> EntryOf(o).channel, amount |-> EntryOf(o).amount] :
                 o \in Backlog}
  <2>1. \A o \in Backlog :
          MoneyOf(CaptureOf(o)) =
            [order |-> o, channel |-> EntryOf(o).channel, amount |-> EntryOf(o).amount]
    BY <1>5 DEF CaptureOf, MoneyOf
  <2>2. Money = {MoneyOf(CaptureOf(o)) : o \in Backlog}
    BY DEF Init, Money
  <2> QED BY <2>1, <2>2
<1>7. received = {}
  BY DEF Init
<1> QED
  BY <1>3, <1>4, <1>5, <1>6, <1>7 DEF Ledger!Init, Ledger!Proceeds, EntryOf, Money, MoneyOf

(***************************************************************************)
(* The server implements the ledger: whatever interleaves, fails or        *)
(* crashes, each step enters an order, receives its money at its gateway,  *)
(* settles it with exactly that money, tells its tenant once it is         *)
(* settled, or is one that the ledger does not see.                        *)
(***************************************************************************)
THEOREM ServerIsALedger == Safety => ImplementsLedgerSafety
<1>1. Init => Ledger!Init
  BY InitIsLedgerInit
<1>2. IInv /\ [Next]_vars => [Ledger!Next]_(Ledger!vars)
  BY StepIsLedgerStep DEF LedgerStep
<1> QED
  BY <1>1, <1>2, AlwaysIInv, PTL DEF Safety, ImplementsLedgerSafety, Ledger!Safety

=============================================================================
