SPECIFICATION FairSpec
CONSTANTS
    Workers = {w1, w2}
    Conns = {c1, c2}
    Fds = {1, 2, 3}
    NoWorker = NoWorker
    NoConn = NoConn
    NoFd = NoFd
    ListenFd = ListenFd
    MaxEvents = 2
    SlowClients = {}
    MaxSends = 0
PROPERTIES AcceptsAllQueued
