SPECIFICATION MCSpec
CONSTANTS
    Interlaced = TRUE
    ForcedFullInterval = 3
    BackoffAfterLosses = 2
    BackoffFields = 1
    ResyncMinTicks = 2
    AckCap = 2
    MaxFrame = 6
    Configured <- Codecs
    Cores = {"groovy", "nlc"}
    Attempts = 3
    KeepaliveIdle = 4
    IdleLimit = 10
    Losses = 3
    Window = 2
    Tabs = {a, b}
    Geometries = {wide, tall}
    Blank = Blank
    MaxStarts = 2
    MaxTouches = 2
SYMMETRY Symmetry
INVARIANTS
    BoundedDamage
    OnlyLossMisleads
    EchoGapHeals
    HandshakeIsGenuine
    ReceiverKeepsUp
    DeadPatternIsNoticed
    PatternShowsDraft
PROPERTIES
    ActivityIsHonoured
CHECK_DEADLOCK FALSE
