SPECIFICATION Safety
CONSTANTS
    t1 = t1
    t2 = t2
    q1 = q1
    q2 = q2
    h1 = h1
    h2 = h2
    r1 = r1
    r2 = r2
    Texts = {"long", "short"}
    LongTexts = {"long"}
    Orders <- SharedNumber
    Tenants = {t1, t2}
    Channels = {"stripe"}
    Amounts = {1}
    Callbacks = {"endpoint"}
    Requests = {q1, q2}
    MaxUpsets = 0
    Handlers = {h1}
    Replicas = {r1}
    MaxRetries = 2
    BatchSize = 1
    HostOf <- OneHost
    Backlog = {}
INVARIANTS
    TenantsKeptApart
CHECK_DEADLOCK FALSE
