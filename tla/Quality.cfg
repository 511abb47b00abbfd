SPECIFICATION QualitySpec
CONSTANTS
    v1 = v1
    q1 = q1
    q2 = q2
    Session <- OneSession
    Report <- TwoReports
    SessionTimeout = 1
    StallTime = 2
    StableTime = 3
    Hour = 4
    n1 = n1
    Node <- OneNode
    Threshold = 2
    BaseTime = 1
    MaxTime = 2
    Full = 3
    Floor = 1
    NewWeight = 2
    SuccessStep = 3
    CleanupStep = 2
    Limit = 3
    Window = 2
    Cooldown = 2
    MaxReports = 2
INVARIANTS
    OneClock
    WeightSettles
PROPERTIES
    DowngradeNeedsSustainedStall
    UpgradeNeedsStability
    HourOldIsUltra
    SilentSessionRemoved
    CoolingIsEarned
    EnoughComplaintsCool
    EjectionIsEarned
    PenaltiesEnd
