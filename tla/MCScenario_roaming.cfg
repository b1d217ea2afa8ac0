SPECIFICATION ScenarioSpec
CONSTANTS
    Node <- RoamingNode
    Pos <- RoamingPos
    Track <- RoamingTrack
    Dist <- RoamingDist
    Cell <- RoamingCell
    RadioRange = 5090
    AirTime <- OneTick
    Lossy = FALSE
    SendInterval = 120
    StartTimes <- RoamingStart
    StopTime <- RoamingStop
    ResetTime = 260
    SimTime = 740
    GroundStations <- RoamingGround
    NodesPerContainer = 1
    Threshold = 1500
    MaxDistance = 5090
    Jitter = 10
    Growth <- Decay2
    AoiThreshold = 735
    AoiRange = 5090
    ControlBurst = 2
    Absent = Absent
    NoPacket = NoPacket
    Reporter = 0
    Sink = 2
INVARIANTS
    NeverInThePast
    NeverCountsItself
    SamplesWithinReceptions
    ControlNumbering
    DeliveryRatioAtMostOne
PROPERTIES
    DiscoversNodes
CHECK_DEADLOCK FALSE
