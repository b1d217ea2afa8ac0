SPECIFICATION FairSpec
CONSTANTS
    Node <- DiamondNode
    Pos <- DiamondPos
    Track <- DiamondTrack
    Dist <- DiamondDist
    Cell <- DiamondCell
    RadioRange = 5090
    AirTime <- OneTick
    Lossy = FALSE
    SendInterval = 12
    StartTimes <- DiamondStart
    StopTime <- DiamondStop
    ResetTime = 0
    SimTime = 24
    TTL = 2
    Delays <- AllTicks
    Draws <- Always
    AoiThreshold = 73
    AoiRange = 5090
    Absent = Absent
INVARIANTS
    WithinHopLimit
    NothingCountedTwice
PROPERTIES
    FloodReaches
CHECK_DEADLOCK FALSE
