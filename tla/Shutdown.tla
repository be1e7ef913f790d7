------------------------------ MODULE Shutdown ------------------------------
(***************************************************************************)
(* How a replica comes up and stops (cmd/payserver/main.go), from the      *)
(* start of the compensation worker: the signal goroutine, the main        *)
(* goroutine, the worker and the requests in progress share one connection *)
(* pool.  What a request or a worker loses when the process ends under it  *)
(* is the business of Payserver, where it is Crash; here the question is   *)
(* what can still be in progress at that time.                             *)
(*                                                                         *)
(* The store never gives a statement a deadline, and pgxpool.Close waits   *)
(* for the connections in use.                                             *)
(***************************************************************************)
EXTENDS Naturals

CONSTANTS
    Requests,    \* HTTP requests, webhooks included
    BatchSize    \* rows that a pass of the worker lists at most

ASSUME ShutdownAssumption == BatchSize \in Nat

VARIABLES
    signal,      \* the goroutine that waits for SIGTERM, "unset" until it does
    cancelled,   \* the context of the worker is cancelled
    worker,      \* the goroutine of the compensation worker, and rows left of its pass
    server,      \* the main goroutine; "fatal" when the process ended without returning
    timedOut,    \* Shutdown gave up waiting for the requests
    request      \* request[q]: the goroutine that serves q

vars == <<signal, cancelled, worker, server, timedOut, request>>

\* Where a goroutine waits for the answer to a statement it holds a connection.
AtStatement == {"listing", "lookup", "recording"}

TypeOK ==
    /\ signal \in {"unset", "waiting", "stopping", "draining", "over"}
    /\ cancelled \in BOOLEAN
    /\ worker \in [pc : {"waiting", "row", "sending", "done"} \cup AtStatement,
                   left : 0..BatchSize]
    /\ server \in {"booting", "starting", "serving", "closing", "exited", "fatal"}
    /\ timedOut \in BOOLEAN
    /\ request \in [Requests -> {"new", "running", "statement", "done"}]

\* compWorker.Start has just returned.
Init ==
    /\ signal = "unset" /\ cancelled = FALSE
    /\ worker = [pc |-> "waiting", left |-> 0]
    /\ server = "booting" /\ timedOut = FALSE
    /\ request = [q \in Requests |-> "new"]

Alive == server \notin {"exited", "fatal"}
PoolOpen == server \notin {"closing", "exited"}
\* srv.Shutdown has been called: the listener is closed, or never opened.
InShutdown == signal \in {"draining", "over"}
InProgress(q) == request[q] \in {"running", "statement"}

-----------------------------------------------------------------------------
(***************************************************************************)
(* The requests.  A statement on a closed pool fails at once, and the      *)
(* handler goes on with its error.                                         *)
(***************************************************************************)
RequestGoes(q, from, to) ==
    /\ Alive
    /\ request[q] = from
    /\ request' = [request EXCEPT ![q] = to]
    /\ UNCHANGED <<signal, cancelled, worker, server, timedOut>>

Arrive(q) == server = "serving" /\ ~InShutdown /\ RequestGoes(q, "new", "running")
BeginStatement(q) == PoolOpen /\ RequestGoes(q, "running", "statement")
EndStatement(q) == RequestGoes(q, "statement", "running")
Finish(q) == RequestGoes(q, "running", "done")

(***************************************************************************)
(* The worker: run and processPending.  When the context is cancelled a    *)
(* send ends with an error, a pass ends before its next row, and between   *)
(* two passes the select may still prefer a tick.                          *)
(***************************************************************************)
WorkerGoes(from, to, left) ==
    /\ Alive
    /\ worker.pc = from
    /\ worker' = [pc |-> to, left |-> left]
    /\ UNCHANGED <<signal, cancelled, server, timedOut, request>>

Tick == WorkerGoes("waiting", "listing", 0)

\* The list query has no LIMIT.
Listed_Unbounded == WorkerGoes("listing", "row", BatchSize + 1)

Listed == \E n \in 0..BatchSize : WorkerGoes("listing", "row", n)
NextRow ==
    /\ ~cancelled /\ worker.left > 0
    /\ \E pc \in {"row", "lookup"} : WorkerGoes("row", pc, worker.left - 1)
LookedUp == \E pc \in {"row", "sending", "recording"} : WorkerGoes("lookup", pc, worker.left)
Sent == WorkerGoes("sending", "recording", worker.left)
Recorded == WorkerGoes("recording", "row", worker.left)
EndPass == (cancelled \/ worker.left = 0) /\ WorkerGoes("row", "waiting", 0)
Leave == cancelled /\ WorkerGoes("waiting", "done", 0)

WorkerStep == Tick \/ Listed \/ NextRow \/ LookedUp \/ Sent \/ Recorded \/ EndPass \/ Leave

(***************************************************************************)
(* The signal goroutine: compWorker.Stop cancels and waits, srv.Shutdown   *)
(* closes the listener and waits for the requests or for its 15 seconds.   *)
(***************************************************************************)
SignalGoes(from, to) == Alive /\ signal = from /\ signal' = to

\* The goroutine runs once it is started, and asks to be told of signals.
Listen ==
    /\ server # "booting" /\ SignalGoes("unset", "waiting")
    /\ UNCHANGED <<cancelled, worker, server, timedOut, request>>

\* Stop does not cancel the context.
Sigterm_NoCancel ==
    /\ SignalGoes("waiting", "stopping")
    /\ UNCHANGED <<cancelled, worker, server, timedOut, request>>

Sigterm ==
    /\ SignalGoes("waiting", "stopping") /\ cancelled' = TRUE
    /\ UNCHANGED <<worker, server, timedOut, request>>

\* The worker is told to stop, and not waited for.
StopReturns_Hasty ==
    /\ SignalGoes("stopping", "draining")
    /\ UNCHANGED <<cancelled, worker, server, timedOut, request>>

StopReturns ==
    /\ worker.pc = "done" /\ SignalGoes("stopping", "draining")
    /\ UNCHANGED <<cancelled, worker, server, timedOut, request>>

ShutdownReturns ==
    /\ SignalGoes("draining", "over")
    /\ \/ (\A q \in Requests : ~InProgress(q)) /\ UNCHANGED timedOut
       \/ (\E q \in Requests : InProgress(q)) /\ timedOut' = TRUE
    /\ UNCHANGED <<cancelled, worker, server, request>>

(***************************************************************************)
(* The main goroutine.  log.Fatalf ends the process where it stands:       *)
(* nothing that is deferred runs, nobody is waited for.                    *)
(***************************************************************************)
MainGoes(to) ==
    server' = to /\ UNCHANGED <<signal, cancelled, worker, timedOut, request>>

\* The router and the server are built, and the signal goroutine started.
BootGoesOn == server = "booting" /\ MainGoes("starting")

\* The OIDC provider does not answer, or the admin pages are missing.
BootFails == server = "booting" /\ MainGoes("fatal")

\* A signal that nobody asked to be told of kills the process.
KilledEarly == Alive /\ signal = "unset" /\ MainGoes("fatal")

\* The listener is opened.
Serve == server = "starting" /\ ~InShutdown /\ MainGoes("serving")

\* The port is taken, or the listener breaks.
ServeFails ==
    /\ server = "starting" \/ (server = "serving" /\ ~InShutdown)
    /\ MainGoes("fatal")

\* ErrServerClosed is taken for an error.
ServeReturns_Fatal == server \in {"starting", "serving"} /\ InShutdown /\ MainGoes("fatal")

\* ListenAndServe returns as soon as Shutdown is called; then the deferred Close
\* of the store, and the process is over.
ServeReturns == server \in {"starting", "serving"} /\ InShutdown /\ MainGoes("closing")

PoolCloses ==
    /\ server = "closing"
    /\ worker.pc \notin AtStatement
    /\ \A q \in Requests : request[q] # "statement"
    /\ MainGoes("exited")

RequestStep(q) == BeginStatement(q) \/ EndStatement(q) \/ Finish(q)

Next ==
    \/ \E q \in Requests : Arrive(q) \/ RequestStep(q)
    \/ WorkerStep
    \/ Listen
    \/ Sigterm
    \/ StopReturns
    \/ ShutdownReturns
    \/ BootGoesOn
    \/ BootFails
    \/ KilledEarly
    \/ Serve
    \/ ServeFails
    \/ ServeReturns
    \/ PoolCloses

(***************************************************************************)
(* Fairness.  Goroutines run, and statements and sends end.  A select with *)
(* a tick and a cancelled context both ready picks one of them at random,  *)
(* so not the tick for ever.                                               *)
(***************************************************************************)
Fairness ==
    /\ WF_vars(WorkerStep) /\ SF_vars(Leave)
    /\ \A q \in Requests : WF_vars(EndStatement(q)) /\ WF_vars(RequestStep(q))
    /\ WF_vars(StopReturns) /\ WF_vars(ShutdownReturns)
    /\ WF_vars(ServeReturns) /\ WF_vars(PoolCloses)

Spec == Init /\ [][Next]_vars /\ Fairness

-----------------------------------------------------------------------------
\* What makes NoStatementCut inductive: the order in which a replica comes up
\* and stops.
StopOrder ==
    /\ ~PoolOpen => InShutdown
    /\ InShutdown => worker.pc = "done"
    /\ server \in {"booting", "starting"} => \A q \in Requests : request[q] = "new"

\* "Stopping the worker first guarantees no in-flight pgx UPDATE races against
\* pool-close" (main.go:270-272): by the time the pool is closed the worker
\* has left, and it never meets a closed pool.
WorkerBeforePool == ~PoolOpen => worker.pc = "done"

\* A replica that has stopped its worker ends under no statement, however it
\* ends: neither by the return of main nor by a log.Fatalf that comes in between.
\* (Before that, a log.Fatalf and an early signal do end it under statements.)
NoStatementCut ==
    ~Alive /\ InShutdown =>
        /\ worker.pc \notin AtStatement
        /\ \A q \in Requests : request[q] # "statement"

\* A signal is obeyed: the worker leaves although it may be in the middle of a
\* pass, and the process ends, even if the signal came before it was listening.
SignalObeyed == signal = "stopping" ~> ~Alive

\* "Then drain HTTP requests so in-flight gateway callbacks complete"
\* (main.go:312-313): unless the 15 seconds are over, no request is in progress
\* when the process exits.
RequestsDrained ==
    server = "exited" /\ ~timedOut => \A q \in Requests : ~InProgress(q)

=============================================================================
