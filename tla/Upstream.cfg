SPECIFICATION UpstreamSpec
CONSTANTS
    u1 = u1
    u2 = u2
    Origin = Origin
    Upstream <- TwoUpstreams
    Levels <- OneLevel
    Penalty = 1
    MinGain = 1
    Cooldown = 1
    Window = 3
    MaxSwitch = 2
    Receiver = {"decoder", "ws", "flv"}
    Tags <- TwoTags
    MaxPayload = 1
    MaxSent = 4
    MaxSealed = 1
CHECK_DEADLOCK FALSE
SYMMETRY Symmetry
INVARIANTS
    ScoreSwitchesAreRationed
    ChunkingIsInvisible
    FramesArriveAsSent
    NothingIsLeftBehind
    CipherKeepsStep
PROPERTIES
    ImplementsChoice
