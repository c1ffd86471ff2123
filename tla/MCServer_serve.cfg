SPECIFICATION FairSpec
CONSTANTS
    Workers = {w1}
    Conns = {c1}
    Fds = {1, 2, 3}
    NoWorker = NoWorker
    NoConn = NoConn
    NoFd = NoFd
    ListenFd = ListenFd
    MaxEvents = 2
    SlowClients = {c1}
    MaxSends = 3
PROPERTIES InputConsumed ClosedClientsReaped RepliesRelayed
