SPECIFICATION Spec
CONSTANTS
    c1 = c1
    c2 = c2
    c3 = c3
    a1 = a1
    x = x
    y = y
    n1 = n1
    n2 = n2
    First = First
    None = None
    Calls = {c1, c2, c3}
    Attempts = {a1}
    Ids = {x, y}
    Names = {n1, n2}
    Standing <- MCStanding
    Paying = {y}
    Bodies <- MCBodies
    MaxUpsets = 1
INVARIANTS
    TypeOK
    AckedWritesStay
    ShownIsFresh
    SecretIsKnown
    RevokedIsRefused
CHECK_DEADLOCK FALSE
SYMMETRY Alike
