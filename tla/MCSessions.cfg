\* Two requests that may log in on one session as two accounts, over a lifetime
\* longer than the idle timeout.
CONSTANTS
    Workers = {w1, w2}
    Accounts = {a1, a2}
    SessionIds = {s1}
    Tokens = {t1, t2, t3}
    None = None
    IdleTimeout = 2
    AbsoluteLifetime = 3
    MaxTime = 4
SYMMETRY Symmetry
SPECIFICATION Spec
INVARIANTS
    TypeOK
    SessionClock
    OneLoginPerSession
    IInv
PROPERTIES
    RevokedIsFinal
    TokenDenotesOneLogin
    ResolvedIsCurrent
