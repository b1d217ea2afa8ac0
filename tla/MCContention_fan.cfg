SPECIFICATION FairSpec
CONSTANTS
    Node <- FanNode
    Pos <- FanPos
    Track <- FanTrack
    Dist <- FanDist
    Cell <- FanCell
    RadioRange = 5090
    AirTime <- OneTick
    Lossy = FALSE
    SendInterval = 120
    StartTimes <- FanStart
    StopTime <- FanStop
    ResetTime = 0
    SimTime = 210
    MaxDistance = 5090
    Jitter = 10
INVARIANTS
    RelaysYield
PROPERTIES
    FloodReaches
CHECK_DEADLOCK FALSE
