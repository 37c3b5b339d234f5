SPECIFICATION Spec
CONSTANTS
    c1 = c1
    c2 = c2
    f1 = f1
    f2 = f2
    logpump = logpump
    producer = producer
    Srv = Srv
    None = None
    Conns <- MCConns
    Fds <- MCFds
    Senders <- MCSenders
    Pump <- MCPump
    MaxAttempts = 2
    MaxFrames = 4
SYMMETRY MCSymmetry
INVARIANT TypeOK
INVARIANT InOrder
INVARIANT NonceOnce
INVARIANT AuthedCoherent
INVARIANT FdNeverStale
INVARIANT NoKeyOutlivesSession
CHECK_DEADLOCK FALSE
