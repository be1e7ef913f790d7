SPECIFICATION Spec
CONSTANTS
    r1 = r1
    r2 = r2
    r3 = r3
    r4 = r4
    s1 = s1
    s2 = s2
    Replicas = {r1, r2, r3, r4}
    Orders = {"o1", "o2"}
    Secrets = {s1, s2}
    Unset = Unset
    Quoted = Quoted
    None = None
    MaxFaults = 1
    Bootstrap <- MCBootstrap
INVARIANTS
    TypeOK
    AtomicMigrations
    ServesMigrated
    RowsAccounted
PROPERTIES
    EveryoneServes
CHECK_DEADLOCK FALSE
