\* Two requests compete for ports, which run out.  No symmetry: Answered is a
\* liveness property.
CONSTANTS
    Workers = {w1, w2}
    Accounts = {a1, a2}
    Chains = {main, mini}
    PoolIds = {p1, p2, p3}
    None = None
    StartPort = 1
    MaxPort = 2
SPECIFICATION FairSpec
INVARIANTS
    PoolsTypeOK
    RefusalsAreTrue
PROPERTIES
    IsRegistry
    Answered
