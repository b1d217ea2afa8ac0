SPECIFICATION Spec
CONSTANTS
    Node <- BeyondNode
    Pos <- BeyondPos
    Track <- BeyondTrack
    Dist <- BeyondDist
    Cell <- BeyondCell
    RadioRange = 5090
    AirTime <- OneTick
    Lossy = FALSE
    SendInterval = 120
    StartTimes <- BeyondStart
    StopTime <- BeyondStop
    ResetTime = 200
    SimTime = 380
    GroundStations <- BeyondGround
    NodesPerContainer = 1
    Threshold = 1500
    MaxDistance = 5090
    Jitter = 10
    Growth <- Decay1
    AoiThreshold = 735
    AoiRange = 5090
    ControlBurst = 8
    Absent = Absent
    NoPacket = NoPacket
INVARIANTS
    ForwardOneTime
CHECK_DEADLOCK FALSE
