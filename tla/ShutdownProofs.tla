--------------------------- MODULE ShutdownProofs ---------------------------
(***************************************************************************)
(* The order in which a replica stops, for every number of requests and    *)
(* every batch size.                                                       *)
(***************************************************************************)
EXTENDS Shutdown, TLAPS

IInv == TypeOK /\ StopOrder /\ NoStatementCut

LEMMA WorkerKeeps ==
    ASSUME IInv, WorkerStep
    PROVE  IInv'
<1> USE ShutdownAssumption DEF IInv
<1>1. worker.left \in 0..BatchSize /\ Alive
  BY DEF TypeOK, WorkerStep, Tick, Listed, NextRow, LookedUp, Sent, Recorded, EndPass, Leave,
         WorkerGoes
<1>2. PICK pc \in {"waiting", "row", "sending", "done"} \cup AtStatement :
        \E n \in 0..BatchSize : worker' = [pc |-> pc, left |-> n]
  <2>1. 0 \in 0..BatchSize /\ (worker.left > 0 => worker.left - 1 \in 0..BatchSize)
    BY <1>1
  <2> QED
    BY <1>1, <2>1
       DEF WorkerStep, Tick, Listed, NextRow, LookedUp, Sent, Recorded, EndPass, Leave,
           WorkerGoes, AtStatement
<1>3. UNCHANGED <<signal, cancelled, server, timedOut, request>>
  BY DEF WorkerStep, Tick, Listed, NextRow, LookedUp, Sent, Recorded, EndPass, Leave, WorkerGoes
<1>4. worker.pc # "done"
  BY DEF WorkerStep, Tick, Listed, NextRow, LookedUp, Sent, Recorded, EndPass, Leave, WorkerGoes
<1>5. TypeOK'
  <2>1. worker' \in [pc : {"waiting", "row", "sending", "done"} \cup AtStatement,
                     left : 0..BatchSize]
    <3>1. PICK n \in 0..BatchSize : worker' = [pc |-> pc, left |-> n]
      BY <1>2
    <3> HIDE DEF IInv
    <3> QED BY <3>1
  <2> QED BY <1>3, <2>1 DEF TypeOK
<1>6. StopOrder'
  BY <1>3, <1>4 DEF StopOrder, InShutdown, PoolOpen
<1>7. NoStatementCut'
  BY <1>1, <1>3 DEF NoStatementCut, Alive
<1> QED BY <1>5, <1>6, <1>7

\* IInv is inductive.
LEMMA Inductive ==
    /\ Init => IInv
    /\ IInv /\ [Next]_vars => IInv'
<1> USE DEF IInv
<1>1. ASSUME Init
      PROVE  IInv
  <2>1. 0 \in 0..BatchSize
    BY ShutdownAssumption
  <2>2. worker \in [pc : {"waiting", "row", "sending", "done"} \cup AtStatement,
                   left : 0..BatchSize]
    BY <1>1, <2>1 DEF Init
  <2> QED BY <1>1, <2>2 DEF Init, TypeOK, StopOrder, NoStatementCut, InShutdown, PoolOpen, Alive
<1>2. ASSUME IInv, [Next]_vars
      PROVE  IInv'
  <2> USE <1>2
  <2>1. CASE UNCHANGED vars
    BY <2>1 DEF vars, TypeOK, StopOrder, NoStatementCut, InShutdown, PoolOpen, Alive
  <2>2. ASSUME NEW q \in Requests, Arrive(q) \/ RequestStep(q)
        PROVE  IInv'
    BY <2>2
       DEF Arrive, RequestStep, BeginStatement, EndStatement, Finish, RequestGoes, TypeOK, StopOrder, NoStatementCut,
           InShutdown, PoolOpen, Alive
  <2>3. CASE WorkerStep
    BY <2>3, WorkerKeeps
  <2>4. CASE Listen \/ Sigterm \/ StopReturns \/ ShutdownReturns
    BY <2>4 DEF Listen, Sigterm, StopReturns, ShutdownReturns, SignalGoes, TypeOK, StopOrder, NoStatementCut,
           InShutdown, PoolOpen, Alive
  <2>5. CASE BootGoesOn
    BY <2>5 DEF BootGoesOn, MainGoes, TypeOK, StopOrder, NoStatementCut,
           InShutdown, PoolOpen, Alive
  <2>6. CASE BootFails \/ KilledEarly \/ ServeFails
    <3>1. server \in {"booting", "starting"} \/ ~InShutdown
      BY <2>6 DEF BootFails, KilledEarly, ServeFails, InShutdown
    <3>2. Alive /\ PoolOpen' /\ MainGoes("fatal") /\ (InShutdown' <=> InShutdown)
      BY <2>6 DEF BootFails, KilledEarly, ServeFails, MainGoes, TypeOK, StopOrder, NoStatementCut,
           InShutdown, PoolOpen, Alive
    <3>3. StopOrder'
      BY <3>2 DEF MainGoes, StopOrder
    <3>4. NoStatementCut'
      BY <3>1, <3>2 DEF MainGoes, StopOrder, NoStatementCut, AtStatement
    <3> QED BY <3>2, <3>3, <3>4 DEF MainGoes, TypeOK
  <2>7. CASE Serve
    BY <2>7 DEF Serve, MainGoes, TypeOK, StopOrder, NoStatementCut,
           InShutdown, PoolOpen, Alive
  <2>8. CASE ServeReturns
    BY <2>8 DEF ServeReturns, MainGoes, TypeOK, StopOrder, NoStatementCut,
           InShutdown, PoolOpen, Alive
  <2>9. CASE PoolCloses
    BY <2>9 DEF PoolCloses, MainGoes, TypeOK, StopOrder, NoStatementCut,
           InShutdown, PoolOpen, Alive
  <2> QED BY <2>1, <2>2, <2>3, <2>4, <2>5, <2>6, <2>7, <2>8, <2>9 DEF Next
<1> QED BY <1>1, <1>2

(***************************************************************************)
(* Every variable of the shutdown keeps its type.                          *)
(***************************************************************************)
THEOREM ShutdownTypeCorrect == Spec => []TypeOK
<1>1. IInv => TypeOK
  BY DEF IInv
<1> QED BY <1>1, Inductive, PTL DEF Spec

(***************************************************************************)
(* The compensation worker has left before the pool is closed, whatever it *)
(* and the requests were doing when the signal came, and whether or not    *)
(* the replica was up by then.                                             *)
(***************************************************************************)
THEOREM WorkerLeavesFirst == Spec => []WorkerBeforePool
<1>1. IInv => WorkerBeforePool
  BY DEF IInv, TypeOK, StopOrder, WorkerBeforePool, PoolOpen
<1> QED BY <1>1, Inductive, PTL DEF Spec

(***************************************************************************)
(* However a replica ends once it has stopped its worker, by a log.Fatalf  *)
(* of the main goroutine or by its return, no statement is under way.      *)
(***************************************************************************)
THEOREM StatementsComplete == Spec => []NoStatementCut
<1>1. IInv => NoStatementCut
  BY DEF IInv
<1> QED BY <1>1, Inductive, PTL DEF Spec

=============================================================================
