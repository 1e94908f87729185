SPECIFICATION MCSpec
CONSTANTS
    Hashes = {"h1", "h2"}
    TorrentLimits <- MCTorrentLimits
    EventLimits <- MCEventLimits
    Inputs = {"line", "phono"}
    AuxLimits <- MCAuxLimits
    Width = 3
    Height = 2
    Nears = {0, 1, 3}
    Packs = {"tiled", "rice"}
    Top = 255
    Colours <- MCColours
    TileLen = 2
    WidthBits = 4
    RiceLimit = 20
    RiceUBits = 12
    WordBits = 64
    Carried <- RoundTrip
INVARIANTS
    LeasesInOrder
    AuxInOrder
    EventsInOrder
    PictureSurvives
PROPERTIES
    SubscribersLearn
CHECK_DEADLOCK FALSE
