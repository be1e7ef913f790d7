SPECIFICATION Safety
CONSTANTS
    t1 = t1
    t2 = t2
    q1 = q1
    q2 = q2
    h1 = h1
    h2 = h2
    r1 = r1
    r2 = r2
    Texts = {"long", "short"}
    LongTexts = {"long"}
    Orders <- SharedNumber
    Tenants = {t1, t2}
    Channels = {"stripe", "alipay"}
    Amounts = {1, 2}
    Callbacks = {"endpoint"}
    Requests = {q1, q2}
    MaxUpsets = 1
    Handlers = {h1, h2}
    Replicas = {r1}
    MaxRetries = 2
    BatchSize = 1
    HostOf <- OneHost
    Backlog = {}
INVARIANTS
    TypeOK
    OneCheckoutPerOrder
    PaidIsCaptured
    AckedIsPaid
    CallbacksOnlyForPaid
    AnswersAreOwn
    LinkHandedOutIsKept
    OwnerExists
    OnRecord
PROPERTIES
    RecordIsStable
    ImplementsLedgerSafety
CHECK_DEADLOCK FALSE
SYMMETRY Alike
VIEW WithoutOlder
