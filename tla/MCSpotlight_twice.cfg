SPECIFICATION Spec
CONSTANTS
    Node <- ForkNode
    Pos <- ForkPos
    Track <- ForkTrack
    Dist <- ForkDist
    Cell <- ForkCell
    RadioRange = 5090
    AirTime <- OneTick
    Lossy = FALSE
    SendInterval = 120
    StartTimes <- ForkStart
    StopTime <- ForkStop
    ResetTime = 200
    SimTime = 380
    GroundStations <- NoGround
    NodesPerContainer = 1
    Threshold = 1500
    MaxDistance = 5090
    Jitter = 10
    Growth <- Decay1
    AoiThreshold = 735
    AoiRange = 5090
    ControlBurst = 8
    Absent = Absent
    NoPacket = NoPacket
PROPERTIES
    TwiceSeenNotForwarded
CHECK_DEADLOCK FALSE
