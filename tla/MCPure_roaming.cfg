SPECIFICATION Spec
CONSTANTS
    Node <- RoamingNode
    Pos <- RoamingPos
    Track <- RoamingTrack
    Dist <- RoamingDist
    Cell <- RoamingCell
    RadioRange = 5090
    AirTime <- OneTick
    Lossy = FALSE
    SendInterval = 12
    StartTimes <- RoamingStart
    StopTime <- RoamingStop
    ResetTime = 26
    SimTime = 32
    TTL = 3
    Delays <- Sampled
    Draws <- Sometimes
    AoiThreshold = 73
    AoiRange = 5090
    Absent = Absent
INVARIANTS
    TypeOK
    StatisticsAddUp
PROPERTIES
    DiscoversNodes
CHECK_DEADLOCK FALSE
