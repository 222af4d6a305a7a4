\* A planned failover while the administrator works.
CONSTANTS
    Nodes = {bama, wintermute}
    FirstHot = bama
    Writes = {x1}
    None = None
    MaxTries = 1
    MaxCrashes = 0
SPECIFICATION Spec
INVARIANTS
    PromotedIsCaughtUp
