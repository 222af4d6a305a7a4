\* Two requests, an administrator, and two sessions for one account or two.
CONSTANTS
    Workers = {w1, w2}
    Accounts = {a1, a2}
    SessionIds = {s1, s2}
    Tokens = {t1, t2, t3, t4}
    None = None
    IdleTimeout = 1
    AbsoluteLifetime = 2
    MaxTime = 2
SYMMETRY Symmetry
SPECIFICATION PortalSpec
INVARIANTS
    PortalTypeOK
    AnonymousStaysPrivate
PROPERTIES
    DisabledSettles
    UsesSessions
