SPECIFICATION Spec
CONSTANTS
    c1 = c1
    c2 = c2
    None = None
    Callers <- TwoCallers
    Refs = {a, b}
    Planes = {p1, p2, p3}
    CanPause = {a, b}
    CanSeek = {a, b}
    Operations <- DriverAndStarter
    GuardModes = {"full", "idle"}
    MaxGeneration = 3
SYMMETRY Symmetry
INVARIANTS
    IdleIffNoSession
PROPERTIES
    OneOwnerInOrder
