SPECIFICATION MeshSpec
CONSTANTS
    r1 = r1
    r2 = r2
    e1 = e1
    Origin = Origin
    Node <- TwoNodes
    RoleChoices <- AnyRoles
    MaxOffers = 3
INVARIANT NoLoop
