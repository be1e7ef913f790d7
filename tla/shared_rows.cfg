SPECIFICATION Safety
CONSTANTS
    t1 = t1
    t2 = t2
    q1 = q1
    q2 = q2
    h1 = h1
    h2 = h2
    r1 = r1
    r2 = r2
    Texts = {"long", "short"}
    LongTexts = {"long"}
    Orders <- OneOrder
    Tenants = {t1}
    Channels = {"stripe"}
    Amounts = {1}
    Callbacks = {"endpoint"}
    Requests = {}
    MaxUpsets = 0
    Handlers = {}
    Replicas = {r1, r2}
    MaxRetries = 2
    BatchSize = 1
    HostOf <- TwoHosts
    Backlog <- OneOrder
INVARIANTS
    RowsNotShared
CHECK_DEADLOCK FALSE
