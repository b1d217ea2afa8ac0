SPECIFICATION Spec
CONSTANTS
    Node <- UpdatesNode
    Pos <- UpdatesPos
    Track <- UpdatesTrack
    Dist <- UpdatesDist
    Cell <- UpdatesCell
    RadioRange = 5090
    AirTime <- OneTick
    Lossy = TRUE
    SendInterval = 120
    StartTimes <- UpdatesStart
    StopTime <- UpdatesStop
    ResetTime = 200
    SimTime = 248
    GroundStations <- NoGround
    NodesPerContainer = 1
    Threshold = 1500
    MaxDistance = 5090
    Jitter = 10
    Growth <- Decay2
    AoiThreshold = 735
    AoiRange = 5090
    ControlBurst = 8
    Absent = Absent
    NoPacket = NoPacket
INVARIANTS
    BufferReady
    RelaySpacing
CHECK_DEADLOCK FALSE
