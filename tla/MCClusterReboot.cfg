\* The cold node restarts.
CONSTANTS
    Nodes = {bama, wintermute}
    FirstHot = bama
    Writes = {x1}
    None = None
    MaxTries = 1
    MaxCrashes = 1
SPECIFICATION Spec
INVARIANTS
    ColdIsReadOnly
