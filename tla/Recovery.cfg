SPECIFICATION Spec
CONSTANTS
    v1 = v1
    q1 = q1
    q2 = q2
    Session <- OneSession
    Report <- TwoReports
    SessionTimeout = 1
    StallTime = 2
    StableTime = 3
    Hour = 4
PROPERTIES
    RecoveryIsGradual
