SPECIFICATION Spec
CONSTANTS
    Controllers = 2
    PlexItems = 2
    PlexLimits <- MCPlexLimits
    JfMaxSessions = 6
    JfLimits <- MCJfLimits
    DlnaLimits <- MCDlnaLimits
INVARIANTS TypeOK RememberedIsPlaying CachesInOrder
PROPERTIES StaleLeavesNothing WhatFollowsComes
CHECK_DEADLOCK FALSE
