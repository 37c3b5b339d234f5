SPECIFICATION Spec
CONSTANTS
    ping = ping
    stats = stats
    Msgs <- MCMsgs
    Size <- MCSize
    MaxLine = 1
    MaxResp = 2
    CtlLine = 1
    CtlResp = 2
    AckCap = 1
    MaxSessions = 2
    MaxSeq = 2
    MaxSealed = 3
    MaxWire = 1
INVARIANT TypeOK
INVARIANT PrefixDelivered
INVARIANT NothingRefused
PROPERTY IsStreams
CHECK_DEADLOCK FALSE
