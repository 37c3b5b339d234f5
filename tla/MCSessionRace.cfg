SPECIFICATION Spec
CONSTANTS
    c1 = c1
    c2 = c2
    f1 = f1
    f2 = f2
    logpump = logpump
    producer = producer
    Srv = Srv
    None = None
    Conns <- MCConns
    Fds <- MCFds
    Senders <- MCOneSender
    Pump <- MCNoPump
    MaxAttempts = 2
    MaxFrames = 3
INVARIANT StreamWellFormed
CHECK_DEADLOCK FALSE
