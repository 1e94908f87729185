SPECIFICATION Spec
CONSTANTS
    c1 = c1
    c2 = c2
    None = None
    Callers <- TwoCallers
    Refs = {a}
    Planes = {p1, p2, p3}
    CanPause = {a}
    CanSeek = {a}
    Operations <- StopAndSeek
    GuardModes = {"full", "idle"}
    MaxGeneration = 1
SYMMETRY Symmetry
INVARIANTS
    IdleIsSilent
