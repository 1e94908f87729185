SPECIFICATION Spec
CONSTANTS
    a = a
    b = b
    Clients <- TwoTabs
    Operations <- ToneAndDrawer
    Drawer = {"codec", "port"}
    MaxStores = 2
INVARIANTS
    SavedOnceAndForAll
    PlaneMatchesSaved
PROPERTIES
    StoredIsKept
