SPECIFICATION FairSpec
CONSTANTS
    Node <- CorridorNode
    Pos <- CorridorPos
    Track <- CorridorTrack
    Dist <- CorridorDist
    Cell <- CorridorCell
    RadioRange = 5090
    AirTime <- OneTick
    Lossy = FALSE
    SendInterval = 120
    StartTimes <- CorridorStart
    StopTime <- CorridorStop
    ResetTime = 200
    SimTime = 251
    GroundStations <- CorridorGround
    NodesPerContainer = 1
    Threshold = 1500
    MaxDistance = 5090
    Jitter = 10
    Growth <- Decay2
    AoiThreshold = 735
    AoiRange = 5090
    ControlBurst = 8
    Absent = Absent
    NoPacket = NoPacket
INVARIANTS
    TypeOK
    ReleaseOnce
    CopiesAgree
    GroundStationsSilent
    SuppressionNested
PROPERTIES
    ControlDelivered
CHECK_DEADLOCK FALSE
