SPECIFICATION FairSpec
CONSTANTS
    Tabs = {"a", "b"}
    Geometries = {"wide"}
    Blank = "blank"
    MaxStarts = 2
    MaxTouches = 3
CHECK_DEADLOCK FALSE
PROPERTIES
    AbandonedPatternEnds
