SPECIFICATION CascadeSpec
CONSTANTS
    h1 = h1
    w1 = w1
    Viewer <- TwoViewers
    WsViewer <- OneWs
    Kind <- PictureKinds
    MaxTags = 4
    RingSize = 2
    GopCount = 1
    MaxFrames = 2
    MaxClients = 1
    HasBackup = FALSE
    r1 = r1
    r2 = r2
    e1 = e1
    Origin = Origin
    Node <- ThreeNodes
    RoleChoices <- FixedRoles
    MaxOffers = 3
CHECK_DEADLOCK FALSE
INVARIANTS
    TypeOK
    SentInOrder
    StartupIsWhole
    LossIsExplained
    CountIsExact
    Layered
    OffersAreSafe
PROPERTIES
    ClosedWsIsReleased
