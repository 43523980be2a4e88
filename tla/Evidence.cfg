SPECIFICATION Spec
CONSTANTS
    NItems = 2
    NTurns <- Pairs
    Scores <- Levels
    Threshold = 1
    TurnConfigs <- ByTurn
    SplitConfigs <- ByEntry
    PoolCap = 2
    KeepTopN = 2
    MinOverlap = 1
    Overlaps = {0, 1}
    None = None
CHECK_DEADLOCK FALSE
INVARIANTS CitedOnce SlotsWellSpent RerankedAreShown
PROPERTY NarrowingOnlyDrops
