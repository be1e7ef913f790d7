----------------------------- MODULE Compensate -----------------------------
(***************************************************************************)
(* The compensation worker of internal/compensate.  Every replica of the   *)
(* server runs one.  A pass of processPending takes a snapshot of a batch  *)
(* of rows and then works through it, one action per call of the store or  *)
(* of the endpoint; meanwhile the rows, and the tenants, may change.       *)
(*                                                                         *)
(* Time is not modelled: whether the back-off of a row has elapsed         *)
(* (shouldRetry) is left open.                                             *)
(***************************************************************************)
EXTENDS Outside

CONSTANTS
    Replicas,    \* replicas of the server, each with one worker
    MaxRetries,  \* attempts after which a row is no longer listed
    BatchSize    \* rows listed by one pass

ASSUME CompensateAssumption ==
    /\ MaxRetries \in Nat \ {0}
    /\ BatchSize \in Nat \ {0}

VARIABLE worker  \* worker[r]: the goroutine of the worker of replica r

\* The payment rows of a batch, as far as the pass looks at them.
Snapshot == [order : Orders, tenant : Tenants, retries : Nat]

SnapshotOf(o) == [order |-> o, tenant |-> rows[o].tenant, retries |-> rows[o].retries]

NoWork == [pc |-> "idle"]

\* From "send" on, order is the row in hand and target its tenant's callback.
Attempts == {"send", "success", "retry", "fail"}

Work == [pc : {"pass"}, batch : SUBSET Snapshot]
          \cup [pc : Attempts, batch : SUBSET Snapshot, now : Snapshot,
                target : Callbacks \cup {"none"}]

CompensateTypeOK == worker \in [Replicas -> Work \cup {NoWork}]

CompensateInit == worker = [r \in Replicas |-> NoWork]

\* The rows that a worker has still to do.
Taken(w) ==
    IF w.pc = "idle" THEN {}
    ELSE w.batch \cup (IF w.pc \in Attempts THEN {w.now} ELSE {})

Pass(batch) == [pc |-> "pass", batch |-> batch]

\* A tick: a pass begins with the rows the query returns, if it succeeds.
BeginPass(r) ==
    /\ worker[r].pc = "idle"
    /\ \/ /\ Calm
          /\ \E B \in ListPendingCallbacks(BatchSize, MaxRetries) :
                /\ B # {}
                /\ worker' = [worker EXCEPT ![r] = Pass({SnapshotOf(o) : o \in B})]
       \/ Upset /\ UNCHANGED worker
    /\ UNCHANGED <<rowVars, tenants, gatewayVars, endpointVars>>

EndPass(r) ==
    /\ worker[r].pc = "pass" /\ worker[r].batch = {}
    /\ worker' = [worker EXCEPT ![r] = NoWork]
    /\ UNCHANGED <<rowVars, tenants, gatewayVars, endpointVars, upsets>>

\* The back-off of a row of the batch has not elapsed.
Skip(r) ==
    /\ worker[r].pc = "pass"
    /\ \E p \in worker[r].batch :
         worker' = [worker EXCEPT ![r] = Pass(worker[r].batch \ {p})]
    /\ UNCHANGED <<rowVars, tenants, gatewayVars, endpointVars, upsets>>

\* A row of an inactive tenant is passed over instead of marked failed.
Attempt_SkipsInactive(r) ==
    /\ worker[r].pc = "pass"
    /\ \E p \in worker[r].batch :
         LET t == tenants[p.tenant]
             rest == worker[r].batch \ {p}
         IN  \/ ~t.active /\ worker' = [worker EXCEPT ![r] = Pass(rest)]
             \/ t.active /\ worker' = [worker EXCEPT ![r] =
                                          [pc |-> "send", batch |-> rest, now |-> p,
                                           target |-> t.callback]]
    /\ Calm
    /\ UNCHANGED <<rowVars, tenants, gatewayVars, endpointVars>>

(***************************************************************************)
(* The tenant of a row that is due is looked up.  If that fails the row is *)
(* left for the next pass.  The query never returns a row that has used up *)
(* its retries, so the branch for such a row is never taken.               *)
(***************************************************************************)
Attempt(r) ==
    LET rest(p) == worker[r].batch \ {p}
        Begin(p, pc, target) ==
            worker' = [worker EXCEPT ![r] = [pc |-> pc, batch |-> rest(p),
                                             now |-> p, target |-> target]]
    IN  /\ worker[r].pc = "pass"
        /\ \E p \in worker[r].batch :
             LET t == tenants[p.tenant]
                 exhausted == p.retries >= MaxRetries
             IN  \/ /\ ~exhausted /\ Upset
                    /\ worker' = [worker EXCEPT ![r] = Pass(rest(p))]
                 \/ /\ exhausted \/ ~t.active
                    /\ Calm /\ Begin(p, "fail", "none")
                 \/ /\ ~exhausted /\ t.active
                    /\ Calm /\ Begin(p, "send", t.callback)
        /\ UNCHANGED <<rowVars, tenants, gatewayVars, endpointVars>>

WorkerGoTo(r, pc) == worker' = [worker EXCEPT ![r].pc = pc]

\* The error Send returns is not looked at.
DeliverAgain_AnyOutcome(r) ==
    /\ worker[r].pc = "send"
    /\ \/ SendAccepted(worker[r].now.order, worker[r].target)
       \/ SendFails(worker[r].now.order, worker[r].target)
    /\ WorkerGoTo(r, "success")
    /\ UNCHANGED <<rowVars, tenants, gatewayVars>>

DeliverAgain(r) ==
    /\ worker[r].pc = "send"
    /\ \/ SendAccepted(worker[r].now.order, worker[r].target) /\ WorkerGoTo(r, "success")
       \/ SendFails(worker[r].now.order, worker[r].target) /\ WorkerGoTo(r, "retry")
    /\ UNCHANGED <<rowVars, tenants, gatewayVars>>

\* The statement that records the outcome; its error is ignored.
RecordAgain(r) ==
    LET o == worker[r].now.order
        t == worker[r].now.tenant
        Statement == \/ worker[r].pc = "success" /\ MarkCallbackSuccess(t, o)
                     \/ worker[r].pc = "retry" /\ IncrCallbackRetries(t, o)
                     \/ worker[r].pc = "fail" /\ MarkCallbackFailed(t, o)
    IN  /\ worker[r].pc \in {"success", "retry", "fail"}
        /\ (Statement /\ Calm) \/ StatementFails(Statement)
        /\ worker' = [worker EXCEPT ![r] = Pass(worker[r].batch)]
        /\ UNCHANGED <<tenants, gatewayVars, endpointVars>>

CompensateStep(r) ==
    \/ BeginPass(r)
    \/ EndPass(r)
    \/ Skip(r)
    \/ Attempt(r)
    \/ DeliverAgain(r)
    \/ RecordAgain(r)

=============================================================================
