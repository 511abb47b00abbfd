SPECIFICATION LinkSpec
CONSTANTS
    n1 = n1
    nothing = nothing
    Node <- MCNode
    Config <- MCConfig
    Nothing <- nothing
    HealthyAge = 1
    Timeouts <- MCTimeouts
    DefaultTimeout = 2
    MaxAge = 3
PROPERTY
    NewNodesAwaitApproval
