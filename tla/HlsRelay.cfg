SPECIFICATION Spec
CONSTANTS
    v1 = v1
    v2 = v2
    Viewer <- TwoViewers
    Window = 2
    MaxHead = 4
    MaxSegments = 2
    MaxFetched = 2
    Forgotten = 1
    RingSize = 2
    MaxFrames = 5
    MaxClients = 1
SYMMETRY ViewerSymmetry
CHECK_DEADLOCK FALSE
INVARIANTS
    TypeOK
    LatestIsServed
    PlaylistNeverBackwards
    NoGapBeforeCut
    SegmentsAccounted
