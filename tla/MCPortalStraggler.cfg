\* One sign-in and one administrator.
CONSTANTS
    Workers = {w1}
    Accounts = {a1}
    SessionIds = {s1}
    Tokens = {t1, t2}
    None = None
    IdleTimeout = 1
    AbsoluteLifetime = 2
    MaxTime = 1
SPECIFICATION PortalSpec
INVARIANTS
    DisabledMeansRevoked
