SPECIFICATION Spec
CONSTANTS
    q1 = q1
    q2 = q2
    Requests = {q1, q2}
    BatchSize = 2
INVARIANTS
    TypeOK
    WorkerBeforePool
    NoStatementCut
PROPERTIES
    SignalObeyed
CHECK_DEADLOCK FALSE
