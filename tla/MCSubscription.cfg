CONSTANTS
    RootSets <- MCRootSets
    ChunkSize = 2
    MaxSnapshot = 4
    Capacity = 2
    MaxGeneration = 3
    MaxTimeouts = 2
SPECIFICATION FairSpec
INVARIANTS TypeOK UpdatesAreWhole NeverMixed
PROPERTY CatchesUp
\* A connection ends, and a subscriber may have nothing to wait for.
CHECK_DEADLOCK FALSE
