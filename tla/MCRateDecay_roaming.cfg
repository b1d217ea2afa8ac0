SPECIFICATION Spec
CONSTANTS
    Node <- RoamingNode
    Pos <- RoamingPos
    Track <- RoamingTrack
    Dist <- RoamingDist
    Cell <- RoamingCell
    RadioRange = 5090
    AirTime <- OneTick
    Lossy = FALSE
    SendInterval = 120
    StartTimes <- RoamingStart
    StopTime <- RoamingStop
    ResetTime = 300
    SimTime = 410
    MaxDistance = 5090
    Jitter = 10
    Growth <- Decay1
    AoiThreshold = 735
    AoiRange = 5090
    Absent = Absent
    NoPacket = NoPacket
INVARIANTS
    TypeOK
    RateDecays
    HopsBounded
PROPERTIES
    DiscoversNodes
CHECK_DEADLOCK FALSE
