SPECIFICATION Spec
CONSTANTS
    b1 = b1
    b2 = b2
    c1 = c1
    c2 = c2
    anna = anna
    imposter = imposter
    ea = ea
    eb = eb
    s1 = s1
    s2 = s2
    Browsers = {b1, b2}
    Callbacks = {c1}
    Accounts = {anna, imposter}
    Emails = {ea, eb}
    NoEmail = NoEmail
    EmailOf <- MCEmailOf
    Verified = {anna}
    Configs <- MCConfigs
    Secrets = {s1, s2}
    None = None
    TTL = 1
    MaxLogins = 2
    MaxTime = 2
SYMMETRY Alike
INVARIANTS
    TypeOK
    OwnLogin
    EligibleLately
    SessionsExpire
