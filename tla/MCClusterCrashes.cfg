\* Two writes; commands that may die anywhere; machines that go down and come back.
CONSTANTS
    Nodes = {bama, wintermute}
    FirstHot = bama
    Writes = {x1, x2}
    None = None
    MaxTries = 1
    MaxCrashes = 2
SYMMETRY Symmetry
CONSTRAINT StillIntact
SPECIFICATION Spec
INVARIANTS
    TypeOK
    OneWriter
    ReplicaIsReadOnly
    Accounted
    IInv
