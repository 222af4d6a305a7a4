\* One write and one crash; every command ends.
CONSTANTS
    Nodes = {bama, wintermute}
    FirstHot = bama
    Writes = {x1}
    None = None
    MaxTries = 2
    MaxCrashes = 1
SPECIFICATION FairSpec
PROPERTIES
    ScriptEnds
