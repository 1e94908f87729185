SPECIFICATION FairSpec
CONSTANTS
    c1 = c1
    c2 = c2
    None = None
    Callers <- TwoCallers
    Refs = {a, b}
    Planes = {p1, p2}
    CanPause = {a, b}
    CanSeek = {a, b}
    Operations <- NoReplay
    GuardModes = {"full", "idle"}
    MaxGeneration = 2
INVARIANTS
    NoOrphanPlane
PROPERTIES
    CallsReturn
