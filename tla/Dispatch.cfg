SPECIFICATION DispatchSpec
CONSTANTS
    n1 = n1
    n2 = n2
    n3 = n3
    c1 = c1
    r1 = r1
    r2 = r2
    NoNode = NoNode
    Node <- ThreeNodes
    Client <- OneClient
    Request <- TwoRequests
    TTL = 1
    PickCount = 1
    BackupCount = 1
    EjectPercent = 50
    s1 = s1
    ticker = ticker
    manual = manual
    h1 = h1
    NoMode = NoMode
    Stream <- OneStream
    Rotator <- BothRotators
    Ticker = ticker
    ModeHandler <- OneHandler
    Mode <- Modes
    DefaultMode = "ultra"
    MaxVer = 4
INVARIANTS
    BindingMatchesPick
    EjectionCapped
PROPERTIES
    StickyAnswerIsCurrent
    OverStaysOver
    RetiredStaysRetired
    KeyIsRotated
