SPECIFICATION Spec
CONSTANTS
    t1 = t1
    t2 = t2
    q1 = q1
    q2 = q2
    h1 = h1
    h2 = h2
    r1 = r1
    r2 = r2
    Texts = {"long", "short", "brief"}
    LongTexts = {"long"}
    Orders <- OldAndNew
    Tenants = {t1}
    Channels = {"alipay"}
    Amounts = {1}
    Callbacks = {"endpoint", "bad"}
    Requests = {q1}
    MaxUpsets = 1
    Handlers = {h1}
    Replicas = {r1}
    MaxRetries = 1
    BatchSize = 1
    HostOf <- OneHost
    Backlog <- OldOrders
INVARIANTS
    SuccessIsEarned
    RetriesAreFailedSends
PROPERTIES
    BacklogDrains
    ImplementsLedger
CHECK_DEADLOCK FALSE
