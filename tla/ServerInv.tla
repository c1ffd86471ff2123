----------------------------- MODULE ServerInv ------------------------------
(***************************************************************************)
(* The inductive invariant of Server.tla: why the workers, which share a   *)
(* descriptor table and never check who owns a number, do not get in each  *)
(* other's way.                                                            *)
(***************************************************************************)
EXTENDS Server

\* A descriptor that is not free belongs to some connection.
SockInv ==
    \A f \in Fds : sock[f].kind = "free" <=> sock[f].who = NoConn

\* accept_lock is held by the worker that is in accept_connections.
LockInv ==
    \A w \in Workers : pc[w] \in {"accept", "emplace"} => accept_lock = w

\* Identifiers are handed out in increasing order and never twice.
IdInv ==
    /\ \A w \in Workers :
         /\ \A f \in Fds : established[w][f] <= max_client_id
         /\ \A r \in rclients[w] : r.id <= max_client_id /\ r.id # 0
         /\ pc[w] = "emplace" => newId[w] = max_client_id + 1
    /\ ClientIdsUnique

\* The table and the epoll object of a worker agree, except between close and
\* erase; what the epoll object watches is an open client connection, and no
\* other worker watches it.
WatchInv ==
    /\ \A w \in Workers : \A f \in Fds :
         f \in watch[w] <=>
            (established[w][f] # 0 /\ ~(pc[w] = "erase" /\ cur[w] = f))
    /\ \A w \in Workers : \A f \in watch[w] : sock[f].kind = "client"
    /\ \A v, w \in Workers : \A f \in Fds :
         (f \in watch[v] /\ f \in watch[w]) => v = w

\* Which connection is where.
LifeInv ==
    /\ \A f \in Fds : sock[f].kind = "client" => life[sock[f].who] = "open"
    /\ \A f, g \in Fds :
         (sock[f].kind = "client" /\ sock[g] = sock[f]) => f = g
    /\ \A w \in Workers : \A c \in backlog[w] : life[c] = "queued"
    /\ \A v, w \in Workers : \A c \in Conns :
         (c \in backlog[v] /\ c \in backlog[w]) => v = w

\* A freshly accepted descriptor is nobody's yet.
EmplaceInv ==
    \A w \in Workers : pc[w] = "emplace" =>
        /\ cur[w] \in Fds
        /\ sock[cur[w]].kind = "client"
        /\ \A v \in Workers : cur[w] \notin watch[v]

\* No client socket is forgotten.
ClientsOwned ==
    \A f \in Fds : sock[f].kind = "client" =>
        \E w \in Workers : f \in watch[w] \/ (pc[w] = "emplace" /\ cur[w] = f)

\* What a worker remembers about events is about descriptors it watches, and
\* the one it is handling is in none of its lists.
Handling == {"connect", "forward", "answer", "close"}

EventInv ==
    \A w \in Workers :
        /\ ready[w] \subseteq watch[w]
        /\ batch[w] \ {ListenFd} \subseteq watch[w]
        /\ doomed[w] \subseteq watch[w]
        /\ pc[w] \in Handling => cur[w] \in watch[w]
        /\ pc[w] = "erase" => cur[w] \in Fds /\ established[w][cur[w]] # 0
        /\ pc[w] \in Handling \cup {"erase"} =>
             cur[w] \notin batch[w] /\ cur[w] \notin doomed[w]

\* Which list is in use where.
PhaseInv ==
    \A w \in Workers :
        /\ pc[w] \in {"wait", "timer", "relay", "ping", "sweep"} => batch[w] = {}
        /\ ret[w] = "sweep" => pc[w] \in {"close", "erase"} /\ batch[w] = {}
        /\ doomed[w] # {} => pc[w] = "sweep" \/ ret[w] = "sweep"
        /\ todo[w] # {} => pc[w] = "relay"

\* A ReverseClient is the only owner of its upstream socket, and no upstream
\* socket is without owner.
UpstreamInv ==
    /\ \A w \in Workers : \A r \in rclients[w] :
         /\ r.connected => r.client_fd # NoFd
         /\ r.client_fd # NoFd => sock[r.client_fd].kind = "upstream"
    /\ \A v, w \in Workers : \A r \in rclients[v], q \in rclients[w] :
         (r.client_fd = q.client_fd /\ r.client_fd # NoFd) => (v = w /\ r = q)
    /\ \A w \in Workers : \A r, q \in rclients[w] : r.id = q.id => r = q
    /\ \A f \in Fds : sock[f].kind = "upstream" =>
         \E w \in Workers : \E r \in rclients[w] : r.client_fd = f

\* The ReverseClient of a client that is still there writes to that client,
\* reads from the socket opened for it and, when the handler is not at work
\* on it, is connected.
LinkInv ==
    \A w \in Workers : \A r \in rclients[w] : \A f \in watch[w] :
        established[w][f] = r.id =>
            /\ r.reverse_fd = f
            /\ r.client_fd # NoFd => sock[r.client_fd].who = sock[f].who
            /\ ~r.connected => pc[w] \in {"connect", "close"} /\ cur[w] = f

\* module_timer visits ReverseClients of clients that are still there.
TodoInv ==
    \A w \in Workers : \A r \in todo[w] :
        /\ r \in rclients[w]
        /\ \E f \in watch[w] : established[w][f] = r.id

\* An upstream only answers what it was asked.
AskedInv ==
    /\ \A f \in Fds :
         (sock[f].kind = "upstream" /\ (up[f].owes \/ up[f].unread)) =>
            [what |-> "request", from |-> sock[f].who, to |-> sock[f]] \in wire
    /\ \A m \in wire : m.from \in Conns

IInv ==
    /\ TypeOK
    /\ SockInv /\ LockInv /\ IdInv /\ WatchInv /\ LifeInv
    /\ EmplaceInv /\ ClientsOwned /\ EventInv /\ PhaseInv
    /\ UpstreamInv /\ LinkInv /\ TodoInv /\ AskedInv
    /\ NoCrossTalk
=============================================================================
