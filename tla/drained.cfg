SPECIFICATION Spec
CONSTANTS
    q1 = q1
    q2 = q2
    Requests = {q1, q2}
    BatchSize = 1
INVARIANTS
    RequestsDrained
CHECK_DEADLOCK FALSE
