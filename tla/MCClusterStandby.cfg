\* A demotion that adopts the position of its primary.
CONSTANTS
    Nodes = {bama, wintermute}
    FirstHot = bama
    Writes = {x1}
    None = None
    MaxTries = 1
    MaxCrashes = 0
SPECIFICATION Spec
INVARIANTS
    StandbyIsComplete
