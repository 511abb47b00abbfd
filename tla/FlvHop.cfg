SPECIFICATION WireSpec
CONSTANTS
    Receiver = {"flv"}
    Tags <- TwoTags
    MaxPayload = 1
    MaxSent = 2
    MaxSealed = 0
CHECK_DEADLOCK FALSE
INVARIANT TagsArriveAsSent
