SPECIFICATION Spec
CONSTANTS
    Node <- RoamingNode
    Pos <- RoamingPos
    Track <- RoamingTrack
    Dist <- RoamingDist
    Cell <- RoamingCell
    RadioRange = 5090
    AirTime <- OneTick
    Lossy = TRUE
    SendInterval = 120
    StartTimes <- RoamingStart
    StopTime <- RoamingStop
    ResetTime = 0
    SimTime = 280
    MaxDistance = 5090
    Jitter = 10
INVARIANTS
    TypeOK
    ForwardsOnce
PROPERTIES
    DiscoversNodes
CHECK_DEADLOCK FALSE
