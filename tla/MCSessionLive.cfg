SPECIFICATION FairSpec
CONSTANTS
    c1 = c1
    c2 = c2
    f1 = f1
    f2 = f2
    logpump = logpump
    producer = producer
    Srv = Srv
    None = None
    Conns <- MCConns
    Fds <- MCOneFd
    Senders <- MCSenders
    Pump <- MCPump
    MaxAttempts = 2
    MaxFrames = 2
PROPERTY SlotReleased
PROPERTY SendersReturn
CHECK_DEADLOCK FALSE
