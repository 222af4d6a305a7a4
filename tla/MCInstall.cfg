\* Two passwords, both roles; any number of installations, resets and restarts.
CONSTANTS
    Passwords = {p1, p2}
    None = None
SYMMETRY Symmetry
SPECIFICATION Spec
INVARIANTS
    InstallTypeOK
    PortalHasItsDatabase
    CaddyIsTheNodes
    InstalledServes
    ResetIsClean
