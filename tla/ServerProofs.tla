---------------------------- MODULE ServerProofs ----------------------------
(***************************************************************************)
(* Proofs about Server.tla for every number of workers, connections and    *)
(* descriptors: the inductive invariant of ServerInv.tla, the safety       *)
(* properties that follow from it, and the refinement of Gateway.tla.      *)
(*                                                                         *)
(* One lemma per action shows that the action preserves IInv.  In each,    *)
(* the conjuncts are grouped: data (sockets, connections, ReverseClients,  *)
(* writes), tables (lock, ids, watch lists, ownership) and control (events,*)
(* phases, the link between a client and its ReverseClient).               *)
(***************************************************************************)
EXTENDS ServerInv, TLAPS

USE DEF kernel, shared, local, history, Goto

-----------------------------------------------------------------------------
(* One lemma per action                                                    *)

\* What TypeOK and SockInv say about one descriptor.
LEMMA SockFacts ==
    ASSUME TypeOK, SockInv, NEW f \in Fds
    PROVE  /\ sock[f].kind \in {"free", "client", "upstream"}
           /\ sock[f].kind = "free" <=> sock[f] = FreeSock
           /\ sock[f].kind # "free" => sock[f].who \in Conns
           /\ sock[f].kind = "client" <=> sock[f] = ClientSock(sock[f].who)
           /\ sock[f].kind = "upstream" <=> sock[f] = UpstreamSock(sock[f].who)
BY ConstantsDistinct
   DEF TypeOK, Socks, SockInv, FreeSock, ClientSock, UpstreamSock

\* A new connection is queued: it was in no queue before.
LEMMA ConnectStep ==
    ASSUME IInv, NEW c \in Conns, NEW w \in Workers, Connect(c, w)
    PROVE  IInv'
<1>1. TypeOK'
  BY ConstantsDistinct DEF IInv, TypeOK, Connect, Labels
<1>2. SockInv' /\ LifeInv' /\ UpstreamInv' /\ TodoInv' /\ AskedInv' /\ NoCrossTalk'
  BY ConstantsDistinct DEF IInv, TypeOK, Connect, SockInv, LifeInv,
        UpstreamInv, TodoInv, AskedInv, NoCrossTalk
<1>3. LockInv' /\ IdInv' /\ WatchInv' /\ EmplaceInv' /\ ClientsOwned'
  BY ConstantsDistinct DEF IInv, TypeOK, Connect, LockInv, IdInv, WatchInv,
        EmplaceInv, ClientsOwned, ClientIdsUnique
<1>4. EventInv' /\ PhaseInv' /\ LinkInv'
  BY ConstantsDistinct DEF IInv, TypeOK, Connect, EventInv, PhaseInv,
        LinkInv, Handling
<1> QED
  BY <1>1, <1>2, <1>3, <1>4 DEF IInv

\* Client bytes only put a watched descriptor on a ready list.
LEMMA ClientSendsStep ==
    ASSUME IInv, NEW c \in Conns, NEW k \in Kinds, ClientSends(c, k)
    PROVE  IInv'
<1>1. TypeOK'
  BY ConstantsDistinct DEF IInv, TypeOK, ClientSends, Labels, Edge, Kinds
<1>2. SockInv' /\ LifeInv' /\ UpstreamInv' /\ TodoInv' /\ AskedInv' /\ NoCrossTalk'
  BY ConstantsDistinct DEF IInv, TypeOK, ClientSends, SockInv, LifeInv,
        UpstreamInv, TodoInv, AskedInv, NoCrossTalk, Edge, Kinds
<1>3. LockInv' /\ IdInv' /\ WatchInv' /\ EmplaceInv' /\ ClientsOwned'
  BY ConstantsDistinct DEF IInv, TypeOK, ClientSends, LockInv, IdInv,
        WatchInv, EmplaceInv, ClientsOwned, ClientIdsUnique, Edge, Kinds
<1>4. EventInv' /\ PhaseInv' /\ LinkInv'
  BY ConstantsDistinct DEF IInv, TypeOK, ClientSends, EventInv, PhaseInv,
        LinkInv, Handling, Edge, Kinds
<1> QED
  BY <1>1, <1>2, <1>3, <1>4 DEF IInv

\* So does the end of a connection.
LEMMA ClientEndsStep ==
    ASSUME IInv, NEW c \in Conns, NEW how \in {"fin", "rst"}, ClientEnds(c, how)
    PROVE  IInv'
<1>1. TypeOK'
  BY ConstantsDistinct DEF IInv, TypeOK, ClientEnds, Labels, Edge
<1>2. SockInv' /\ LifeInv' /\ UpstreamInv' /\ TodoInv' /\ AskedInv' /\ NoCrossTalk'
  BY ConstantsDistinct DEF IInv, TypeOK, ClientEnds, SockInv, LifeInv,
        UpstreamInv, TodoInv, AskedInv, NoCrossTalk, Edge
<1>3. LockInv' /\ IdInv' /\ WatchInv' /\ EmplaceInv' /\ ClientsOwned'
  BY ConstantsDistinct DEF IInv, TypeOK, ClientEnds, LockInv, IdInv,
        WatchInv, EmplaceInv, ClientsOwned, ClientIdsUnique, Edge
<1>4. EventInv' /\ PhaseInv' /\ LinkInv'
  BY ConstantsDistinct DEF IInv, TypeOK, ClientEnds, EventInv, PhaseInv,
        LinkInv, Handling, Edge
<1> QED
  BY <1>1, <1>2, <1>3, <1>4 DEF IInv

\* An upstream that replies owed the reply, so the request is on the wire.
LEMMA UpstreamRepliesStep ==
    ASSUME IInv, NEW f \in Fds, UpstreamReplies(f)
    PROVE  IInv'
<1>1. TypeOK'
  <2>1. up[f] \in UpStates
    BY DEF IInv, TypeOK
  <2>2. [up[f] EXCEPT !.owes = FALSE, !.unread = TRUE] \in UpStates
    BY <2>1 DEF UpStates
  <2>3. up' \in [Fds -> UpStates]
    BY <2>2 DEF IInv, TypeOK, UpstreamReplies
  <2> QED
    BY <2>3 DEF IInv, TypeOK, UpstreamReplies
<1>2. SockInv' /\ LifeInv' /\ UpstreamInv' /\ TodoInv' /\ AskedInv' /\ NoCrossTalk'
  BY ConstantsDistinct DEF IInv, TypeOK, UpstreamReplies, SockInv, LifeInv,
        UpstreamInv, TodoInv, AskedInv, NoCrossTalk, UpStates
<1>3. LockInv' /\ IdInv' /\ WatchInv' /\ EmplaceInv' /\ ClientsOwned'
  BY ConstantsDistinct DEF IInv, TypeOK, UpstreamReplies, LockInv, IdInv,
        WatchInv, EmplaceInv, ClientsOwned, ClientIdsUnique, UpStates
<1>4. EventInv' /\ PhaseInv' /\ LinkInv'
  BY ConstantsDistinct DEF IInv, TypeOK, UpstreamReplies, EventInv,
        PhaseInv, LinkInv, Handling, UpStates
<1> QED
  BY <1>1, <1>2, <1>3, <1>4 DEF IInv

\* An upstream that closes changes nothing anybody relies on.
LEMMA UpstreamClosesStep ==
    ASSUME IInv, NEW f \in Fds, UpstreamCloses(f)
    PROVE  IInv'
<1>1. TypeOK'
  <2>1. up[f] \in UpStates
    BY DEF IInv, TypeOK
  <2>2. [up[f] EXCEPT !.fin = TRUE] \in UpStates
    BY <2>1 DEF UpStates
  <2>3. up' \in [Fds -> UpStates]
    BY <2>2 DEF IInv, TypeOK, UpstreamCloses
  <2> QED
    BY <2>3 DEF IInv, TypeOK, UpstreamCloses
<1>2. SockInv' /\ LifeInv' /\ UpstreamInv' /\ TodoInv' /\ AskedInv' /\ NoCrossTalk'
  BY ConstantsDistinct DEF IInv, TypeOK, UpstreamCloses, SockInv, LifeInv,
        UpstreamInv, TodoInv, AskedInv, NoCrossTalk, UpStates
<1>3. LockInv' /\ IdInv' /\ WatchInv' /\ EmplaceInv' /\ ClientsOwned'
  BY ConstantsDistinct DEF IInv, TypeOK, UpstreamCloses, LockInv, IdInv,
        WatchInv, EmplaceInv, ClientsOwned, ClientIdsUnique, UpStates
<1>4. EventInv' /\ PhaseInv' /\ LinkInv'
  BY ConstantsDistinct DEF IInv, TypeOK, UpstreamCloses, EventInv, PhaseInv,
        LinkInv, Handling, UpStates
<1> QED
  BY <1>1, <1>2, <1>3, <1>4 DEF IInv

\* The batch is taken from the ready list, which is watched.
LEMMA EpollWaitStep ==
    ASSUME IInv, NEW w \in Workers, EpollWait(w)
    PROVE  IInv'
<1>1. PICK B \in SUBSET Reportable(w) :
        /\ batch' = [batch EXCEPT ![w] = B]
        /\ ready' = [ready EXCEPT ![w] = @ \ B]
  BY DEF EpollWait
<1>2. /\ pc[w] = "wait" /\ pc' = [pc EXCEPT ![w] = "dispatch"]
      /\ UNCHANGED <<sock, life, backlog, rx, peer, sent, watch, up, shared,
                     cur, newId, ret, established, rclients, todo, doomed, history>>
  BY DEF EpollWait
<1>3. B \subseteq Fds \cup {ListenFd} /\ B \ {ListenFd} \subseteq watch[w]
  BY DEF IInv, TypeOK, EventInv, Reportable
<1>4. TypeOK'
  BY <1>1, <1>2, <1>3 DEF IInv, TypeOK, Labels
<1>5. SockInv' /\ LifeInv' /\ UpstreamInv' /\ TodoInv' /\ AskedInv' /\ NoCrossTalk'
  BY <1>2 DEF IInv, SockInv, LifeInv, UpstreamInv, TodoInv, AskedInv, NoCrossTalk
<1>6. LockInv' /\ IdInv' /\ WatchInv' /\ EmplaceInv' /\ ClientsOwned'
  BY <1>2 DEF IInv, TypeOK, LockInv, IdInv, ClientIdsUnique, WatchInv, EmplaceInv,
        ClientsOwned
<1>7. EventInv'
  BY <1>1, <1>2, <1>3 DEF IInv, TypeOK, EventInv, Handling
<1>8. PhaseInv' /\ LinkInv'
  BY <1>1, <1>2 DEF IInv, TypeOK, PhaseInv, LinkInv
<1> QED
  BY <1>4, <1>5, <1>6, <1>7, <1>8 DEF IInv

\* An epoll_wait that times out reports nothing.
LEMMA EpollTimesOutStep ==
    ASSUME IInv, NEW w \in Workers, EpollTimesOut(w)
    PROVE  IInv'
<1>1. TypeOK'
  BY ConstantsDistinct DEF IInv, TypeOK, EpollTimesOut, Labels
<1>2. SockInv' /\ LifeInv' /\ UpstreamInv' /\ TodoInv' /\ AskedInv' /\ NoCrossTalk'
  BY ConstantsDistinct DEF IInv, TypeOK, EpollTimesOut, SockInv, LifeInv,
        UpstreamInv, TodoInv, AskedInv, NoCrossTalk
<1>3. LockInv' /\ IdInv' /\ WatchInv' /\ EmplaceInv' /\ ClientsOwned'
  BY ConstantsDistinct DEF IInv, TypeOK, EpollTimesOut, LockInv, IdInv,
        WatchInv, EmplaceInv, ClientsOwned, ClientIdsUnique
<1>4. EventInv' /\ PhaseInv' /\ LinkInv'
  BY ConstantsDistinct DEF IInv, TypeOK, EpollTimesOut, EventInv, PhaseInv,
        LinkInv, Handling
<1> QED
  BY <1>1, <1>2, <1>3, <1>4 DEF IInv

\* A failed epoll_wait only skips the events.
LEMMA EpollFailsStep ==
    ASSUME IInv, NEW w \in Workers, EpollFails(w)
    PROVE  IInv'
<1>1. TypeOK'
  BY ConstantsDistinct DEF IInv, TypeOK, EpollFails, Labels
<1>2. SockInv' /\ LifeInv' /\ UpstreamInv' /\ TodoInv' /\ AskedInv' /\ NoCrossTalk'
  BY ConstantsDistinct DEF IInv, TypeOK, EpollFails, SockInv, LifeInv,
        UpstreamInv, TodoInv, AskedInv, NoCrossTalk
<1>3. LockInv' /\ IdInv' /\ WatchInv' /\ EmplaceInv' /\ ClientsOwned'
  BY ConstantsDistinct DEF IInv, TypeOK, EpollFails, LockInv, IdInv,
        WatchInv, EmplaceInv, ClientsOwned, ClientIdsUnique
<1>4. EventInv' /\ PhaseInv' /\ LinkInv'
  BY ConstantsDistinct DEF IInv, TypeOK, EpollFails, EventInv, PhaseInv,
        LinkInv, Handling
<1> QED
  BY <1>1, <1>2, <1>3, <1>4 DEF IInv

\* The listening socket is in no table.
LEMMA DispatchAcceptStep ==
    ASSUME IInv, NEW w \in Workers, DispatchAccept(w)
    PROVE  IInv'
<1>1. TypeOK'
  BY ConstantsDistinct DEF IInv, TypeOK, DispatchAccept, Labels
<1>2. SockInv' /\ LifeInv' /\ UpstreamInv' /\ TodoInv' /\ AskedInv' /\ NoCrossTalk'
  BY ConstantsDistinct DEF IInv, TypeOK, DispatchAccept, SockInv, LifeInv,
        UpstreamInv, TodoInv, AskedInv, NoCrossTalk
<1>3. LockInv' /\ IdInv' /\ WatchInv' /\ EmplaceInv' /\ ClientsOwned'
  BY ConstantsDistinct DEF IInv, TypeOK, DispatchAccept, LockInv, IdInv,
        WatchInv, EmplaceInv, ClientsOwned, ClientIdsUnique
<1>4. EventInv' /\ PhaseInv' /\ LinkInv'
  BY ConstantsDistinct DEF IInv, TypeOK, DispatchAccept, EventInv, PhaseInv,
        LinkInv, Handling
<1> QED
  BY <1>1, <1>2, <1>3, <1>4 DEF IInv

\* The batch is empty when the timers run.
LEMMA DispatchDoneStep ==
    ASSUME IInv, NEW w \in Workers, DispatchDone(w)
    PROVE  IInv'
<1>1. TypeOK'
  BY ConstantsDistinct DEF IInv, TypeOK, DispatchDone, Labels
<1>2. SockInv' /\ LifeInv' /\ UpstreamInv' /\ TodoInv' /\ AskedInv' /\ NoCrossTalk'
  BY ConstantsDistinct DEF IInv, TypeOK, DispatchDone, SockInv, LifeInv,
        UpstreamInv, TodoInv, AskedInv, NoCrossTalk
<1>3. LockInv' /\ IdInv' /\ WatchInv' /\ EmplaceInv' /\ ClientsOwned'
  BY ConstantsDistinct DEF IInv, TypeOK, DispatchDone, LockInv, IdInv,
        WatchInv, EmplaceInv, ClientsOwned, ClientIdsUnique
<1>4. EventInv' /\ PhaseInv' /\ LinkInv'
  BY ConstantsDistinct DEF IInv, TypeOK, DispatchDone, EventInv, PhaseInv,
        LinkInv, Handling
<1> QED
  BY <1>1, <1>2, <1>3, <1>4 DEF IInv

\* The mutex was free, so nobody else is accepting.
LEMMA LockAcceptStep ==
    ASSUME IInv, NEW w \in Workers, LockAccept(w)
    PROVE  IInv'
<1>1. TypeOK'
  BY ConstantsDistinct DEF IInv, TypeOK, LockAccept, Labels
<1>2. SockInv' /\ LifeInv' /\ UpstreamInv' /\ TodoInv' /\ AskedInv' /\ NoCrossTalk'
  BY ConstantsDistinct DEF IInv, TypeOK, LockAccept, SockInv, LifeInv,
        UpstreamInv, TodoInv, AskedInv, NoCrossTalk
<1>3. LockInv' /\ IdInv' /\ WatchInv' /\ EmplaceInv' /\ ClientsOwned'
  BY ConstantsDistinct DEF IInv, TypeOK, LockAccept, LockInv, IdInv,
        WatchInv, EmplaceInv, ClientsOwned, ClientIdsUnique
<1>4. EventInv' /\ PhaseInv' /\ LinkInv'
  BY ConstantsDistinct DEF IInv, TypeOK, LockAccept, EventInv, PhaseInv,
        LinkInv, Handling
<1> QED
  BY <1>1, <1>2, <1>3, <1>4 DEF IInv

\* The descriptor was free: nobody watches it and no ReverseClient holds it.
LEMMA AcceptOneStep ==
    ASSUME IInv, NEW w \in Workers, AcceptOne(w)
    PROVE  IInv'
<1>1. PICK f \in Fds, c \in backlog[w] :
        /\ sock[f] = FreeSock
        /\ sock' = [sock EXCEPT ![f] = ClientSock(c)]
        /\ life' = [life EXCEPT ![c] = "open"]
        /\ backlog' = [backlog EXCEPT ![w] = @ \ {c}]
        /\ cur' = [cur EXCEPT ![w] = f]
  BY DEF AcceptOne, Lowest
<1>2. /\ pc[w] = "accept" /\ pc' = [pc EXCEPT ![w] = "emplace"]
      /\ newId' = [newId EXCEPT ![w] = max_client_id + 1]
      /\ UNCHANGED <<rx, peer, sent, watch, ready, up, shared, batch, ret,
                     established, rclients, todo, doomed, history>>
  BY DEF AcceptOne
<1>3. /\ c \in Conns /\ c # NoConn /\ life[c] = "queued"
      /\ sock[f].kind = "free"
      /\ \A v \in Workers : f \notin watch[v]
      /\ \A v \in Workers : \A r \in rclients[v] : r.client_fd # f
  <2>1. c \in Conns /\ c # NoConn /\ life[c] = "queued"
    BY <1>1, ConstantsDistinct DEF IInv, TypeOK, LifeInv
  <2>2. sock[f].kind = "free"
    BY <1>1 DEF FreeSock
  <2>3. \A v \in Workers : f \notin watch[v]
    BY <2>2 DEF IInv, WatchInv
  <2>4. \A v \in Workers : \A r \in rclients[v] : r.client_fd # f
    BY <2>2, ConstantsDistinct DEF IInv, UpstreamInv
  <2> QED
    BY <2>1, <2>2, <2>3, <2>4
<1>4. /\ sock'[f].kind = "client" /\ sock'[f].who = c
      /\ \A g \in Fds : g # f => sock'[g] = sock[g]
      /\ \A g \in Fds : sock[g].kind = "client" => sock[g].who # c
  BY <1>1, <1>3 DEF IInv, TypeOK, ClientSock, LifeInv
<1>5. TypeOK'
  BY <1>1, <1>2, <1>3 DEF IInv, TypeOK, Labels, Socks, ClientSock
<1>6. SockInv'
  BY <1>3, <1>4 DEF IInv, SockInv
<1>7. LifeInv'
  BY <1>1, <1>3, <1>4 DEF IInv, TypeOK, LifeInv, SockInv
<1>8. LockInv' /\ IdInv' /\ PhaseInv' /\ TodoInv' /\ NoCrossTalk'
  BY <1>2 DEF IInv, TypeOK, LockInv, IdInv, ClientIdsUnique, PhaseInv, TodoInv,
        NoCrossTalk
<1>9. WatchInv' /\ EmplaceInv' /\ ClientsOwned'
  BY <1>1, <1>2, <1>3, <1>4, ConstantsDistinct
     DEF IInv, TypeOK, LockInv, WatchInv, EmplaceInv, ClientsOwned
<1>10. EventInv'
  BY <1>1, <1>2 DEF IInv, TypeOK, EventInv, Handling
<1>11. UpstreamInv'
  <2>1. \A v \in Workers : \A r \in rclients'[v] :
          /\ r.connected => r.client_fd # NoFd
          /\ r.client_fd # NoFd => sock'[r.client_fd].kind = "upstream"
    BY <1>2, <1>3, <1>4 DEF IInv, TypeOK, UpstreamInv, ReverseClients
  <2>2. \A g \in Fds : sock'[g].kind = "upstream" =>
          \E v \in Workers : \E r \in rclients'[v] : r.client_fd = g
    BY <1>2, <1>4 DEF IInv, UpstreamInv
  <2> QED
    BY <1>2, <2>1, <2>2 DEF IInv, UpstreamInv
<1>12. LinkInv'
  BY <1>1, <1>2, <1>3, <1>4 DEF IInv, TypeOK, LinkInv, WatchInv, ReverseClients
<1>13. AskedInv'
  BY <1>2, <1>3, <1>4 DEF IInv, TypeOK, AskedInv
<1> QED
  BY <1>5, <1>6, <1>7, <1>8, <1>9, <1>10, <1>11, <1>12, <1>13 DEF IInv

\* The new id is larger than every id in any table or ReverseClient.
LEMMA EmplaceStep ==
    ASSUME IInv, NEW w \in Workers, Emplace(w)
    PROVE  IInv'
<1> DEFINE f == cur[w]
<1>1. /\ f \in Fds /\ sock[f].kind = "client" /\ sock[f].who \in Conns
      /\ \A v \in Workers : f \notin watch[v]
      /\ pc[w] = "emplace" /\ accept_lock = w
      /\ established[w][f] = 0
      /\ newId[w] = max_client_id + 1
      /\ \A v \in Workers \ {w} : pc[v] \notin {"accept", "emplace"}
  BY SockFacts DEF IInv, Emplace, EmplaceInv, LockInv, IdInv, WatchInv
<1>2. /\ established' = [established EXCEPT ![w] = [@ EXCEPT ![f] = newId[w]]]
      /\ watch' = [watch EXCEPT ![w] = @ \cup {f}]
      /\ ready'[w] \subseteq ready[w] \cup {f}
      /\ ready' = [ready EXCEPT ![w] = ready'[w]]
      /\ max_client_id' = newId[w]
      /\ cur' = [cur EXCEPT ![w] = NoFd]
      /\ newId' = [newId EXCEPT ![w] = 0]
      /\ pc' = [pc EXCEPT ![w] = "accept"]
      /\ UNCHANGED <<sock, life, backlog, rx, peer, sent, up, accept_lock,
                     batch, ret, rclients, todo, doomed, history>>
  BY <1>1 DEF Emplace, IInv, TypeOK
<1>3. /\ established'[w][f] = newId[w]
      /\ \A v \in Workers, g \in Fds :
           (v # w \/ g # f) => established'[v][g] = established[v][g]
  BY <1>1, <1>2 DEF IInv, TypeOK
<1>4. TypeOK'
  <2>1. /\ established' \in [Workers -> [Fds -> Nat]]
        /\ max_client_id' \in Nat
        /\ newId' \in [Workers -> Nat]
    BY <1>1, <1>2 DEF IInv, TypeOK
  <2>2. /\ watch' \in [Workers -> SUBSET Fds]
        /\ cur' \in [Workers -> Fds \cup {NoFd}]
        /\ pc' \in [Workers -> Labels]
    BY <1>1, <1>2 DEF IInv, TypeOK, Labels
  <2>3. ready'[w] \in SUBSET Fds
    BY <1>1, <1>2 DEF IInv, TypeOK
  <2>4. ready' \in [Workers -> SUBSET Fds]
    BY <1>2, <2>3 DEF IInv, TypeOK
  <2> QED
    BY <1>2, <2>1, <2>2, <2>4 DEF IInv, TypeOK
<1>5. SockInv' /\ LifeInv' /\ UpstreamInv' /\ AskedInv' /\ NoCrossTalk'
  BY <1>2 DEF IInv, SockInv, LifeInv, UpstreamInv, AskedInv, NoCrossTalk
<1>6. LockInv' /\ PhaseInv'
  BY <1>1, <1>2 DEF IInv, TypeOK, LockInv, PhaseInv
<1>7. IdInv'
  <2>1. \A v \in Workers, g \in Fds : established[v][g] < newId[w]
    BY <1>1 DEF IInv, TypeOK, IdInv
  <2>2. \A v \in Workers : \A r \in rclients'[v] : r.id <= max_client_id' /\ r.id # 0
    BY <1>1, <1>2 DEF IInv, TypeOK, IdInv, ReverseClients
  <2>3. \A v \in Workers, g \in Fds : established'[v][g] <= max_client_id'
    BY <1>1, <1>2, <1>3, <2>1 DEF IInv, TypeOK
  <2>4. \A v \in Workers : pc'[v] # "emplace"
    BY <1>1, <1>2 DEF IInv, TypeOK
  <2>5. ClientIdsUnique'
    <3>1. SUFFICES ASSUME NEW v1 \in Workers, NEW v2 \in Workers,
                          NEW f1 \in Fds, NEW f2 \in Fds,
                          established'[v1][f1] = established'[v2][f2],
                          established'[v1][f1] # 0
                   PROVE  v1 = v2 /\ f1 = f2
      BY DEF ClientIdsUnique
    <3>2. ~(v1 = w /\ f1 = f) => established'[v1][f1] < newId[w]
      BY <1>3, <2>1
    <3>3. ~(v2 = w /\ f2 = f) => established'[v2][f2] < newId[w]
      BY <1>3, <2>1
    <3>4. newId[w] \in Nat /\ established'[w][f] = newId[w]
      BY <1>3 DEF IInv, TypeOK
    <3>5. CASE (v1 = w /\ f1 = f) \/ (v2 = w /\ f2 = f)
      BY <3>1, <3>2, <3>3, <3>4, <3>5
    <3>6. CASE ~(v1 = w /\ f1 = f) /\ ~(v2 = w /\ f2 = f)
      BY <1>3, <3>1, <3>6 DEF IInv, IdInv, ClientIdsUnique
    <3> QED
      BY <3>5, <3>6
  <2> QED
    BY <2>2, <2>3, <2>4, <2>5 DEF IdInv
<1>8. WatchInv'
  BY <1>1, <1>2, <1>3, ConstantsDistinct DEF IInv, TypeOK, WatchInv
<1>9. EmplaceInv' /\ ClientsOwned'
  <2>1. EmplaceInv'
    BY <1>1, <1>2 DEF IInv, TypeOK, EmplaceInv
  <2>2. ClientsOwned'
    BY <1>1, <1>2 DEF IInv, TypeOK, ClientsOwned
  <2> QED
    BY <2>1, <2>2
<1>10. EventInv'
  BY <1>1, <1>2, <1>3 DEF IInv, TypeOK, EventInv, Handling
<1>11. \A r \in rclients[w] : r.id # newId[w]
  BY <1>1 DEF IInv, TypeOK, IdInv, ReverseClients
<1>12. LinkInv'
  BY <1>1, <1>2, <1>3, <1>11 DEF IInv, TypeOK, LinkInv
<1>13. TodoInv'
  <2>1. SUFFICES ASSUME NEW v \in Workers, NEW r \in todo'[v]
                 PROVE  /\ r \in rclients'[v]
                        /\ \E g \in watch'[v] : established'[v][g] = r.id
    BY DEF TodoInv
  <2>2. r \in rclients[v] /\ rclients' = rclients
    BY <1>2 DEF IInv, TodoInv
  <2>3. PICK g \in watch[v] : established[v][g] = r.id
    BY <1>2 DEF IInv, TodoInv
  <2>4. g \in Fds /\ g \in watch'[v]
    BY <1>2 DEF IInv, TypeOK
  <2>5. v # w \/ g # f
    BY <1>1, <2>4 DEF IInv, WatchInv
  <2>6. established'[v][g] = r.id
    BY <1>3, <2>3, <2>4, <2>5
  <2> QED
    BY <2>2, <2>4, <2>6
<1> QED
  BY <1>4, <1>5, <1>6, <1>7, <1>8, <1>9, <1>10, <1>12, <1>13 DEF IInv

\* Leaving accept_connections frees the mutex.
LEMMA AcceptDoneStep ==
    ASSUME IInv, NEW w \in Workers, AcceptDone(w)
    PROVE  IInv'
<1>1. TypeOK'
  BY ConstantsDistinct DEF IInv, TypeOK, AcceptDone, Labels
<1>2. SockInv' /\ LifeInv' /\ UpstreamInv' /\ TodoInv' /\ AskedInv' /\ NoCrossTalk'
  BY ConstantsDistinct DEF IInv, TypeOK, AcceptDone, SockInv, LifeInv,
        UpstreamInv, TodoInv, AskedInv, NoCrossTalk
<1>3. LockInv' /\ IdInv' /\ WatchInv' /\ EmplaceInv' /\ ClientsOwned'
  BY ConstantsDistinct DEF IInv, TypeOK, AcceptDone, LockInv, IdInv,
        WatchInv, EmplaceInv, ClientsOwned, ClientIdsUnique
<1>4. EventInv' /\ PhaseInv' /\ LinkInv'
  BY ConstantsDistinct DEF IInv, TypeOK, AcceptDone, EventInv, PhaseInv,
        LinkInv, Handling
<1> QED
  BY <1>1, <1>2, <1>3, <1>4 DEF IInv

\* The descriptor to close leaves the batch.
LEMMA HandleCloseStep ==
    ASSUME IInv, NEW w \in Workers, NEW f \in Fds, HandleClose(w, f)
    PROVE  IInv'
<1>1. TypeOK'
  BY ConstantsDistinct DEF IInv, TypeOK, HandleClose, Labels, Registered
<1>2. SockInv' /\ LifeInv' /\ UpstreamInv' /\ TodoInv' /\ AskedInv' /\ NoCrossTalk'
  BY ConstantsDistinct DEF IInv, TypeOK, HandleClose, SockInv, LifeInv,
        UpstreamInv, TodoInv, AskedInv, NoCrossTalk, Registered
<1>3. LockInv' /\ IdInv' /\ WatchInv' /\ EmplaceInv' /\ ClientsOwned'
  BY ConstantsDistinct DEF IInv, TypeOK, HandleClose, LockInv, IdInv,
        WatchInv, EmplaceInv, ClientsOwned, ClientIdsUnique, Registered
<1>4. EventInv' /\ PhaseInv' /\ LinkInv'
  BY ConstantsDistinct DEF IInv, TypeOK, HandleClose, EventInv, PhaseInv,
        LinkInv, Handling, Registered
<1> QED
  BY <1>1, <1>2, <1>3, <1>4 DEF IInv

\* A request answered locally leaves the batch.
LEMMA HandleLocalStep ==
    ASSUME IInv, NEW w \in Workers, NEW f \in Fds, HandleLocal(w, f)
    PROVE  IInv'
<1>1. TypeOK'
  BY ConstantsDistinct DEF IInv, TypeOK, HandleLocal, Labels, Registered,
        Kinds
<1>2. SockInv' /\ LifeInv' /\ UpstreamInv' /\ TodoInv' /\ AskedInv' /\ NoCrossTalk'
  BY ConstantsDistinct DEF IInv, TypeOK, HandleLocal, SockInv, LifeInv,
        UpstreamInv, TodoInv, AskedInv, NoCrossTalk, Registered, Kinds
<1>3. LockInv' /\ IdInv' /\ WatchInv' /\ EmplaceInv' /\ ClientsOwned'
  BY ConstantsDistinct DEF IInv, TypeOK, HandleLocal, LockInv, IdInv,
        WatchInv, EmplaceInv, ClientsOwned, ClientIdsUnique, Registered,
        Kinds
<1>4. EventInv' /\ PhaseInv' /\ LinkInv'
  BY ConstantsDistinct DEF IInv, TypeOK, HandleLocal, EventInv, PhaseInv,
        LinkInv, Handling, Registered, Kinds
<1> QED
  BY <1>1, <1>2, <1>3, <1>4 DEF IInv

\* A new ReverseClient is linked to the client that asked.
LEMMA HandleProxyStep ==
    ASSUME IInv, NEW w \in Workers, NEW f \in Fds, HandleProxy(w, f)
    PROVE  IInv'
<1> DEFINE id == established[w][f]
           new == NewReverseClient(id, f)
<1>1. /\ pc[w] = "dispatch" /\ f \in batch[w] /\ f \in watch[w]
      /\ id \in Nat /\ id # 0 /\ id <= max_client_id /\ sock[f].who \in Conns
      /\ f \notin doomed[w] /\ todo[w] = {} /\ doomed[w] = {}
      /\ ret[w] = "dispatch"
  <2>1. pc[w] = "dispatch" /\ f \in batch[w]
    BY DEF HandleProxy
  <2>2. f \in watch[w]
    BY <2>1, ConstantsDistinct DEF IInv, EventInv
  <2>3. id \in Nat /\ id # 0 /\ id <= max_client_id
    BY <2>2 DEF IInv, TypeOK, WatchInv, IdInv
  <2>4. sock[f].who \in Conns
    BY <2>2, SockFacts DEF IInv, WatchInv
  <2>5. todo[w] = {} /\ doomed[w] = {} /\ ret[w] = "dispatch"
    BY <2>1 DEF IInv, TypeOK, PhaseInv
  <2> QED
    BY <2>1, <2>2, <2>3, <2>4, <2>5
<1>2. /\ rx' = [rx EXCEPT ![sock[f].who] = "none"]
      /\ batch' = [batch EXCEPT ![w] = @ \ {f}]
      /\ cur' = [cur EXCEPT ![w] = f]
      /\ ret' = [ret EXCEPT ![w] = "dispatch"]
      /\ pc' = [pc EXCEPT ![w] = "connect"]
      /\ UNCHANGED <<sock, life, backlog, peer, sent, watch, ready, up, shared,
                     newId, established, todo, doomed, history>>
  BY DEF HandleProxy
<1>3. \/ rclients' = rclients
      \/ /\ \A r \in rclients[w] : r.id # id
         /\ rclients' = [rclients EXCEPT ![w] = @ \cup {new}]
  BY DEF HandleProxy, IInv, TypeOK
<1>4. /\ new.id = id /\ new.reverse_fd = f /\ new.client_fd = NoFd
      /\ new.connected = FALSE /\ new \in ReverseClients
  BY <1>1 DEF NewReverseClient, ReverseClients
<1>5. /\ \A v \in Workers : \A r \in rclients'[v] :
           r \in rclients[v] \/ (v = w /\ r = new /\ \A q \in rclients[w] : q.id # id)
      /\ \A v \in Workers : rclients[v] \subseteq rclients'[v]
      /\ rclients' \in [Workers -> SUBSET ReverseClients]
  <2>1. CASE rclients' = rclients
    BY <2>1 DEF IInv, TypeOK
  <2>2. CASE /\ \A r \in rclients[w] : r.id # id
             /\ rclients' = [rclients EXCEPT ![w] = @ \cup {new}]
    BY <1>4, <2>2 DEF IInv, TypeOK
  <2> QED
    BY <1>3, <2>1, <2>2
<1>6. TypeOK'
  BY <1>1, <1>2, <1>5 DEF IInv, TypeOK, Labels, Kinds
<1>7. SockInv' /\ LifeInv' /\ AskedInv' /\ NoCrossTalk'
  BY <1>2 DEF IInv, SockInv, LifeInv, AskedInv, NoCrossTalk
<1>8. LockInv' /\ WatchInv' /\ EmplaceInv' /\ ClientsOwned'
  BY <1>1, <1>2 DEF IInv, TypeOK, LockInv, WatchInv, EmplaceInv, ClientsOwned
<1>9. EventInv' /\ PhaseInv'
  BY <1>1, <1>2 DEF IInv, TypeOK, EventInv, Handling, PhaseInv
<1>10. IdInv'
  BY <1>1, <1>2, <1>4, <1>5 DEF IInv, TypeOK, IdInv, ClientIdsUnique
<1>11. UpstreamInv'
  BY <1>2, <1>4, <1>5 DEF IInv, UpstreamInv
<1>12. LinkInv'
  <2>1. \A v \in Workers : \A r \in rclients[v] : \A g \in watch'[v] :
          established'[v][g] = r.id =>
            /\ r.reverse_fd = g
            /\ r.client_fd # NoFd => sock'[r.client_fd].who = sock'[g].who
            /\ ~r.connected => pc'[v] \in {"connect", "close"} /\ cur'[v] = g
    BY <1>1, <1>2 DEF IInv, TypeOK, LinkInv
  <2>2. \A g \in watch'[w] : established'[w][g] = new.id =>
            /\ g = f
            /\ pc'[w] = "connect" /\ cur'[w] = g
    BY <1>1, <1>2, <1>4 DEF IInv, TypeOK, IdInv, ClientIdsUnique
  <2> QED
    BY <1>4, <1>5, <2>1, <2>2 DEF LinkInv
<1>13. TodoInv'
  BY <1>2, <1>5 DEF IInv, TodoInv
<1> QED
  BY <1>6, <1>7, <1>8, <1>9, <1>10, <1>11, <1>12, <1>13 DEF IInv

\* The client that goes on to send_data is connected.
LEMMA ConnectAlreadyStep ==
    ASSUME IInv, NEW w \in Workers, ConnectAlready(w)
    PROVE  IInv'
<1>1. TypeOK'
  BY DEF IInv, TypeOK, ConnectAlready, Labels
<1>2. SockInv' /\ LifeInv' /\ UpstreamInv' /\ TodoInv' /\ AskedInv' /\ NoCrossTalk'
  BY DEF IInv, ConnectAlready, SockInv, LifeInv, UpstreamInv, TodoInv, AskedInv,
        NoCrossTalk
<1>3. LockInv' /\ IdInv' /\ WatchInv' /\ EmplaceInv' /\ ClientsOwned'
  BY DEF IInv, TypeOK, ConnectAlready, LockInv, IdInv, ClientIdsUnique, WatchInv,
        EmplaceInv, ClientsOwned
<1>4. EventInv' /\ PhaseInv'
  BY DEF IInv, TypeOK, ConnectAlready, EventInv, Handling, PhaseInv
<1>5. LinkInv'
  BY DEF IInv, TypeOK, ConnectAlready, Current, LinkInv, UpstreamInv
<1> QED
  BY <1>1, <1>2, <1>3, <1>4, <1>5 DEF IInv

\* The new upstream socket belongs to this ReverseClient alone.
LEMMA ConnectTryStep ==
    ASSUME IInv, NEW w \in Workers, NEW ok \in BOOLEAN, ConnectTry(w, ok)
    PROVE  IInv'
<1> DEFINE c == sock[cur[w]].who
<1>1. PICK r \in rclients[w], f \in Fds :
        /\ Current(w, r) /\ ~r.connected
        /\ Lowest(f, WithoutOld(r))
        /\ sock' = [WithoutOld(r) EXCEPT ![f] = UpstreamSock(c)]
        /\ up' = [up EXCEPT ![f] = UpInit]
        /\ rclients' = [rclients EXCEPT ![w] = (@ \ {r}) \cup
                {[r EXCEPT !.client_fd = f, !.connected = ok]}]
  BY DEF ConnectTry
<1> DEFINE q == [r EXCEPT !.client_fd = f, !.connected = ok]
<1>2. /\ pc[w] = "connect" /\ pc' = [pc EXCEPT ![w] = AfterConnect(ok)]
      /\ UNCHANGED <<life, backlog, rx, peer, sent, watch, ready, shared, batch,
                     cur, newId, ret, established, todo, doomed, history>>
  BY DEF ConnectTry
<1>3. /\ r \in ReverseClients /\ q \in ReverseClients
      /\ q.id = r.id /\ q.reverse_fd = r.reverse_fd
      /\ q.client_fd = f /\ q.connected = ok
      /\ f # NoFd
  <2>1. r \in ReverseClients
    BY DEF IInv, TypeOK
  <2> QED
    BY <2>1, ConstantsDistinct DEF ReverseClients
<1>4. /\ cur[w] \in watch[w] /\ cur[w] \in Fds /\ sock[cur[w]].kind = "client"
      /\ c \in Conns /\ c # NoConn
      /\ established[w][cur[w]] = r.id
  <2>1. cur[w] \in watch[w] /\ cur[w] \in Fds
    BY <1>2 DEF IInv, TypeOK, EventInv, Handling
  <2>2. sock[cur[w]].kind = "client"
    BY <2>1 DEF IInv, WatchInv
  <2> QED
    BY <1>1, <2>1, <2>2, SockFacts, ConstantsDistinct DEF Current, IInv
\* The socket that was there, if any, was an upstream socket of r only, and
\* the new one was free or is that one again.
<1>5. f = r.client_fd \/ sock[f].kind = "free"
  BY <1>1, <1>3 DEF Lowest, WithoutOld, FreeSock
<1>6. /\ sock'[f].kind = "upstream" /\ sock'[f].who = c
      /\ \A g \in Fds : (g # f /\ g # r.client_fd) => sock'[g] = sock[g]
      /\ \A g \in Fds : (g # f /\ g = r.client_fd) => sock'[g] = FreeSock
  BY <1>1 DEF WithoutOld, UpstreamSock
<1>7. /\ \A g \in Fds : sock[g].kind = "client" => sock'[g] = sock[g]
      /\ \A g \in Fds : sock'[g].kind = "client" => sock'[g] = sock[g]
  BY <1>1, <1>3, <1>5, <1>6, ConstantsDistinct DEF IInv, UpstreamInv, FreeSock
<1>8. /\ \A v \in Workers : \A s \in rclients'[v] :
           (s \in rclients[v] /\ (v = w => s # r)) \/ (v = w /\ s = q)
      /\ \A v \in Workers : \A s \in rclients[v] :
           s \in rclients'[v] \/ (v = w /\ s = r)
      /\ q \in rclients'[w]
      /\ rclients' \in [Workers -> SUBSET ReverseClients]
  BY <1>1, <1>3 DEF IInv, TypeOK
<1>9. TypeOK'
  <2>1. sock' \in [Fds -> Socks]
    BY <1>1, <1>4 DEF IInv, TypeOK, WithoutOld, Socks, FreeSock, UpstreamSock
  <2>2. up' \in [Fds -> UpStates]
    BY <1>1 DEF IInv, TypeOK, UpStates, UpInit
  <2>3. pc' \in [Workers -> Labels]
    BY <1>2 DEF IInv, TypeOK, Labels, AfterConnect
  <2> QED
    BY <1>2, <1>8, <2>1, <2>2, <2>3 DEF IInv, TypeOK
<1>10. SockInv'
  BY <1>4, <1>6 DEF IInv, SockInv, FreeSock
<1>11. LifeInv'
  BY <1>2, <1>7 DEF IInv, LifeInv
<1>12. LockInv' /\ NoCrossTalk' /\ PhaseInv'
  BY <1>2 DEF IInv, TypeOK, LockInv, NoCrossTalk, PhaseInv, AfterConnect
<1>13. IdInv'
  <2>1. \A v \in Workers : \A s \in rclients'[v] : s.id <= max_client_id' /\ s.id # 0
    BY <1>2, <1>3, <1>8 DEF IInv, IdInv
  <2> QED
    BY <1>2, <2>1 DEF IInv, TypeOK, IdInv, ClientIdsUnique, AfterConnect
<1>14. WatchInv' /\ EmplaceInv' /\ ClientsOwned'
  BY <1>2, <1>7 DEF IInv, TypeOK, WatchInv, EmplaceInv, ClientsOwned, AfterConnect
<1>15. EventInv'
  BY <1>2 DEF IInv, TypeOK, EventInv, Handling, AfterConnect
<1>16. \A v \in Workers : \A s \in rclients[v] :
         (v # w \/ s # r) => s.client_fd # f /\ (s.client_fd # NoFd => s.client_fd # r.client_fd)
  BY <1>3, <1>5 DEF IInv, UpstreamInv
<1>17. UpstreamInv'
  <2>1. ASSUME NEW v \in Workers, NEW s \in rclients'[v]
        PROVE  /\ s.connected => s.client_fd # NoFd
               /\ s.client_fd # NoFd => sock'[s.client_fd].kind = "upstream"
    <3>1. CASE v = w /\ s = q
      BY <1>3, <1>6, <3>1
    <3>2. CASE s \in rclients[v] /\ (v = w => s # r)
      <4>1. s.client_fd # NoFd => s.client_fd \in Fds
        BY <3>2 DEF IInv, TypeOK, ReverseClients
      <4>2. s.client_fd # NoFd => sock'[s.client_fd] = sock[s.client_fd]
        BY <1>6, <1>16, <3>2, <4>1
      <4> QED
        BY <3>2, <4>2 DEF IInv, UpstreamInv
    <3> QED
      BY <1>8, <3>1, <3>2
  <2>2. ASSUME NEW v \in Workers, NEW u \in Workers,
               NEW s \in rclients'[v], NEW t \in rclients'[u],
               s.client_fd = t.client_fd, s.client_fd # NoFd
        PROVE  v = u /\ s = t
    <3>1. CASE (v = w /\ s = q) /\ (u = w /\ t = q)
      BY <3>1
    <3>2. CASE (v = w /\ s = q) /\ t \in rclients[u] /\ (u = w => t # r)
      BY <1>3, <1>16, <2>2, <3>2
    <3>3. CASE s \in rclients[v] /\ (v = w => s # r) /\ (u = w /\ t = q)
      BY <1>3, <1>16, <2>2, <3>3
    <3>4. CASE s \in rclients[v] /\ t \in rclients[u]
      BY <2>2, <3>4 DEF IInv, UpstreamInv
    <3> QED
      BY <1>8, <3>1, <3>2, <3>3, <3>4
  <2>3. ASSUME NEW v \in Workers, NEW s \in rclients'[v], NEW t \in rclients'[v],
               s.id = t.id
        PROVE  s = t
    <3>1. CASE s = q /\ v = w
      BY <1>3, <1>8, <2>3, <3>1 DEF IInv, UpstreamInv
    <3>2. CASE t = q /\ v = w
      BY <1>3, <1>8, <2>3, <3>2 DEF IInv, UpstreamInv
    <3>3. CASE s \in rclients[v] /\ t \in rclients[v]
      BY <2>3, <3>3 DEF IInv, UpstreamInv
    <3> QED
      BY <1>8, <3>1, <3>2, <3>3
  <2>4. \A g \in Fds : sock'[g].kind = "upstream" =>
          \E v \in Workers : \E s \in rclients'[v] : s.client_fd = g
    <3>1. SUFFICES ASSUME NEW g \in Fds, sock'[g].kind = "upstream", g # f
                   PROVE  \E v \in Workers : \E s \in rclients'[v] : s.client_fd = g
      BY <1>3, <1>8
    <3>2. g # r.client_fd /\ sock[g].kind = "upstream"
      BY <1>6, <3>1 DEF FreeSock
    <3>3. PICK v \in Workers : \E s \in rclients[v] : s.client_fd = g
      BY <3>2 DEF IInv, UpstreamInv
    <3>4. PICK s \in rclients[v] : s.client_fd = g
      BY <3>3
    <3>5. s \in rclients'[v]
      BY <1>8, <3>2, <3>4
    <3> QED
      BY <3>4, <3>5
  <2> QED
    BY <2>1, <2>2, <2>3, <2>4 DEF UpstreamInv
<1>18. LinkInv'
  <2>1. SUFFICES ASSUME NEW v \in Workers, NEW s \in rclients'[v], NEW g \in watch[v],
                        established[v][g] = s.id
                 PROVE  /\ s.reverse_fd = g
                        /\ s.client_fd # NoFd => sock'[s.client_fd].who = sock'[g].who
                        /\ ~s.connected => pc'[v] \in {"connect", "close"} /\ cur[v] = g
    BY <1>2 DEF LinkInv
  <2>2. g \in Fds /\ sock'[g] = sock[g]
    BY <1>7 DEF IInv, TypeOK, WatchInv
  <2>3. CASE v = w /\ s = q
    <3>1. g = cur[w]
      BY <1>3, <1>4, <2>1, <2>2, <2>3 DEF IInv, TypeOK, IdInv, ClientIdsUnique
    <3>2. s.reverse_fd = g
      BY <1>3, <2>1, <2>3 DEF IInv, LinkInv
    <3>3. sock'[s.client_fd].who = sock'[g].who
      BY <1>3, <1>6, <2>2, <2>3, <3>1
    <3>4. ~s.connected => pc'[v] = "close"
      BY <1>2, <1>3, <2>3 DEF IInv, TypeOK, AfterConnect
    <3> QED
      BY <2>3, <3>1, <3>2, <3>3, <3>4
  <2>4. CASE s \in rclients[v] /\ (v = w => s # r)
    <3>1. s.client_fd # NoFd => sock'[s.client_fd] = sock[s.client_fd]
      BY <1>6, <1>16, <2>4 DEF IInv, TypeOK, ReverseClients
    <3>2. v = w => s.connected
      BY <1>4, <2>1, <2>4 DEF IInv, LinkInv, UpstreamInv
    <3>3. v # w => pc'[v] = pc[v]
      BY <1>2 DEF IInv, TypeOK
    <3> QED
      BY <2>1, <2>2, <2>4, <3>1, <3>2, <3>3 DEF IInv, LinkInv
  <2> QED
    BY <1>8, <2>3, <2>4
<1>19. TodoInv'
  BY <1>2, <1>8 DEF IInv, TodoInv, PhaseInv
<1>20. AskedInv'
  <2>1. \A g \in Fds : (sock'[g].kind = "upstream" /\ (up'[g].owes \/ up'[g].unread)) =>
          g # f /\ sock'[g] = sock[g] /\ up'[g] = up[g]
    BY <1>1, <1>6 DEF IInv, TypeOK, UpInit, FreeSock
  <2> QED
    BY <1>2, <2>1 DEF IInv, AskedInv
<1> QED
  BY <1>9, <1>10, <1>11, <1>12, <1>13, <1>14, <1>15, <1>17, <1>18, <1>19, <1>20
     DEF IInv

\* No descriptor, no change, and the client will be closed.
LEMMA ConnectNoFdStep ==
    ASSUME IInv, NEW w \in Workers, ConnectNoFd(w)
    PROVE  IInv'
<1>1. PICK r \in rclients[w] :
        /\ Current(w, r) /\ ~r.connected
        /\ \A f \in Fds : WithoutOld(r)[f] # FreeSock
        /\ sock' = WithoutOld(r)
        /\ rclients' = [rclients EXCEPT ![w] = (@ \ {r}) \cup
                {[r EXCEPT !.client_fd = NoFd]}]
  BY DEF ConnectNoFd
<1>2. /\ pc[w] = "connect" /\ pc' = [pc EXCEPT ![w] = "close"]
      /\ UNCHANGED <<life, backlog, rx, peer, sent, watch, ready, up, shared,
                     batch, cur, newId, ret, established, todo, doomed, history>>
  BY DEF ConnectNoFd
\* Had there been an old socket, closing it would have left a free descriptor.
<1>3. r.client_fd = NoFd
  BY <1>1 DEF IInv, TypeOK, ReverseClients, WithoutOld
<1>4. sock' = sock
  BY <1>1, <1>3, ConstantsDistinct DEF IInv, TypeOK, WithoutOld
<1>5. rclients' = rclients
  <2>1. [r EXCEPT !.client_fd = NoFd] = r
    BY <1>3 DEF IInv, TypeOK, ReverseClients
  <2> QED
    BY <1>1, <2>1 DEF IInv, TypeOK
<1>6. TypeOK'
  BY <1>2, <1>4, <1>5 DEF IInv, TypeOK, Labels
<1>7. SockInv' /\ LifeInv' /\ UpstreamInv' /\ TodoInv' /\ AskedInv' /\ NoCrossTalk'
  BY <1>2, <1>4, <1>5 DEF IInv, SockInv, LifeInv, UpstreamInv, TodoInv, AskedInv,
        NoCrossTalk
<1>8. LockInv' /\ IdInv' /\ WatchInv' /\ EmplaceInv' /\ ClientsOwned'
  BY <1>2, <1>4, <1>5 DEF IInv, TypeOK, LockInv, IdInv, ClientIdsUnique, WatchInv,
        EmplaceInv, ClientsOwned
<1>9. EventInv' /\ PhaseInv' /\ LinkInv'
  BY <1>2, <1>4, <1>5 DEF IInv, TypeOK, EventInv, Handling, PhaseInv, LinkInv
<1> QED
  BY <1>6, <1>7, <1>8, <1>9 DEF IInv

\* The request goes to the socket opened for its client.
LEMMA ForwardStep ==
    ASSUME IInv, NEW w \in Workers, Forward(w)
    PROVE  IInv'
<1> DEFINE c == sock[cur[w]].who
<1>1. PICK r \in rclients[w], owes \in BOOLEAN :
        /\ Current(w, r)
        /\ wire' = wire \cup {[what |-> "request", from |-> c,
                               to |-> sock[r.client_fd]]}
        /\ up' = [up EXCEPT ![r.client_fd] = [@ EXCEPT !.owes = owes]]
  BY DEF Forward
<1>2. /\ pc[w] = "forward" /\ pc' = [pc EXCEPT ![w] = "answer"]
      /\ UNCHANGED <<sock, life, backlog, rx, peer, sent, watch, ready, shared,
                     batch, cur, newId, ret, established, rclients, todo, doomed, loss>>
  BY DEF Forward
<1> DEFINE m == [what |-> "request", from |-> c, to |-> sock[r.client_fd]]
<1>3. cur[w] \in watch[w] /\ cur[w] \in Fds /\ established[w][cur[w]] = r.id
  BY <1>1, <1>2 DEF IInv, TypeOK, EventInv, Handling, Current
<1>4. r.client_fd # NoFd /\ sock[r.client_fd].who = c
  BY <1>2, <1>3 DEF IInv, LinkInv, UpstreamInv
<1>5. r.client_fd \in Fds /\ sock[r.client_fd] = UpstreamSock(c) /\ c \in Conns
  <2>1. r.client_fd \in Fds /\ sock[r.client_fd].kind = "upstream"
    BY <1>4 DEF IInv, TypeOK, ReverseClients, UpstreamInv
  <2> QED
    BY <1>4, <2>1, SockFacts DEF IInv
<1>6. m \in Writes /\ m.what = "request" /\ m.from = c /\ m.to = UpstreamSock(c)
  BY <1>5 DEF IInv, TypeOK, Writes
<1>7. TypeOK'
  <2>1. up' \in [Fds -> UpStates]
    <3>1. up[r.client_fd] \in UpStates
      BY <1>5 DEF IInv, TypeOK
    <3>2. [up[r.client_fd] EXCEPT !.owes = owes] \in UpStates
      BY <3>1 DEF UpStates
    <3> QED
      BY <1>1, <3>2 DEF IInv, TypeOK
  <2>2. wire' \subseteq Writes
    BY <1>1, <1>6 DEF IInv, TypeOK
  <2> QED
    BY <1>2, <2>1, <2>2 DEF IInv, TypeOK, Labels
<1>8. NoCrossTalk'
  BY <1>1, <1>6 DEF IInv, NoCrossTalk
<1>9. AskedInv'
  <2>1. m \in wire' /\ wire \subseteq wire'
    BY <1>1
  <2>2. \A f \in Fds : f # r.client_fd => up'[f] = up[f]
    BY <1>1 DEF IInv, TypeOK
  <2>3. \A x \in wire' : x.from \in Conns
    BY <1>1, <1>5, <1>6 DEF IInv, AskedInv
  <2> QED
    BY <1>2, <1>4, <2>1, <2>2, <2>3 DEF IInv, AskedInv
<1>10. SockInv' /\ LifeInv' /\ UpstreamInv' /\ TodoInv'
  BY <1>2 DEF IInv, SockInv, LifeInv, UpstreamInv, TodoInv
<1>11. LockInv' /\ IdInv' /\ WatchInv' /\ EmplaceInv' /\ ClientsOwned'
  BY <1>2 DEF IInv, TypeOK, LockInv, IdInv, ClientIdsUnique, WatchInv, EmplaceInv,
        ClientsOwned
<1>12. EventInv' /\ PhaseInv' /\ LinkInv'
  BY <1>2 DEF IInv, TypeOK, EventInv, Handling, PhaseInv, LinkInv
<1> QED
  BY <1>7, <1>8, <1>9, <1>10, <1>11, <1>12 DEF IInv

\* A failed send closes the client.
LEMMA ForwardFailsStep ==
    ASSUME IInv, NEW w \in Workers, ForwardFails(w)
    PROVE  IInv'
<1>1. TypeOK'
  BY ConstantsDistinct DEF IInv, TypeOK, ForwardFails, Labels, Current
<1>2. SockInv' /\ LifeInv' /\ UpstreamInv' /\ TodoInv' /\ AskedInv' /\ NoCrossTalk'
  BY ConstantsDistinct DEF IInv, TypeOK, ForwardFails, SockInv, LifeInv,
        UpstreamInv, TodoInv, AskedInv, NoCrossTalk, Current
<1>3. LockInv' /\ IdInv' /\ WatchInv' /\ EmplaceInv' /\ ClientsOwned'
  BY ConstantsDistinct DEF IInv, TypeOK, ForwardFails, LockInv, IdInv,
        WatchInv, EmplaceInv, ClientsOwned, ClientIdsUnique, Current
<1>4. EventInv' /\ PhaseInv' /\ LinkInv'
  BY ConstantsDistinct DEF IInv, TypeOK, ForwardFails, EventInv, PhaseInv,
        LinkInv, Handling, Current
<1> QED
  BY <1>1, <1>2, <1>3, <1>4 DEF IInv

\* What reverse_proxy() changes: a reply is written only when one was waiting,
\* and more is left waiting only when some was.
LEMMA RelayEffect ==
    ASSUME NEW r, NEW got, NEW by \in {"handler", "timer"}, Relay(r, got, by)
    PROVE  /\ \/ wire' = wire
              \/ /\ up[r.client_fd].unread
                 /\ wire' = wire \cup {[what |-> "reply", from |-> sock[r.client_fd].who,
                                        to |-> sock[r.reverse_fd]]}
           /\ \E left \in BOOLEAN :
                /\ left => up[r.client_fd].unread
                /\ up' = [up EXCEPT ![r.client_fd] = [@ EXCEPT !.unread = left]]
           /\ \E l \in Losses \cup {loss[sock[r.client_fd].who]} :
                loss' = [loss EXCEPT ![sock[r.client_fd].who] = l]
<1> DEFINE m == [what |-> "reply", from |-> sock[r.client_fd].who,
                 to |-> sock[r.reverse_fd]]
           waiting == up[r.client_fd].unread
<1>1. got \in Outcomes(r)
  BY DEF Relay
<1>2. got # "nothing" => waiting
  BY <1>1 DEF Outcomes
<1>3. PICK left \in BOOLEAN, wrote \in BOOLEAN :
        /\ left => got = "fails"
        /\ CASE got = "nothing" -> ~wrote
             [] got = "fails" -> wrote => SendOk(r.reverse_fd)
             [] OTHER -> wrote
        /\ up' = [up EXCEPT ![r.client_fd] = [@ EXCEPT !.unread = left]]
        /\ wire' = wire \cup {x \in {m} : wrote}
  BY DEF Relay
<1>4. wrote => waiting
  BY <1>2, <1>3
<1>5. left => waiting
  BY <1>2, <1>3
<1>6. wire' = wire \/ (waiting /\ wire' = wire \cup {m})
  <2>1. CASE wrote
    BY <1>3, <1>4, <2>1
  <2>2. CASE ~wrote
    BY <1>3, <2>2
  <2> QED
    BY <2>1, <2>2
<1>7. \E l \in Losses \cup {loss[sock[r.client_fd].who]} :
        loss' = [loss EXCEPT ![sock[r.client_fd].who] = l]
  <2> DEFINE l == IF got = "short" THEN "short"
                  ELSE IF got = "fails" /\ SendOk(r.reverse_fd) THEN by
                  ELSE loss[sock[r.client_fd].who]
  <2>1. l \in Losses \cup {loss[sock[r.client_fd].who]}
    BY DEF Losses
  <2>2. loss' = [loss EXCEPT ![sock[r.client_fd].who] = l]
    BY DEF Relay
  <2> HIDE DEF l
  <2> QED
    BY <2>1, <2>2
<1> QED
  BY <1>3, <1>5, <1>6, <1>7

\* reverse_proxy(), called for a ReverseClient whose client is still there,
\* writes the reply to the client the upstream socket was opened for.
LEMMA RelaySafe ==
    ASSUME IInv, NEW w \in Workers, NEW r \in rclients[w], NEW f \in watch[w],
           established[w][f] = r.id, r.connected,
           NEW got, NEW by \in {"handler", "timer"}, Relay(r, got, by), UNCHANGED sock
    PROVE  /\ loss' \in [Conns -> Losses]
           /\ up' \in [Fds -> UpStates]
           /\ wire' \subseteq Writes
           /\ AskedInv'
           /\ NoCrossTalk'
<1> DEFINE c == sock[f].who
           m == [what |-> "reply", from |-> sock[r.client_fd].who,
                 to |-> sock[r.reverse_fd]]
<1>1. f \in Fds /\ sock[f] = ClientSock(c) /\ c \in Conns
  BY SockFacts DEF IInv, TypeOK, WatchInv
<1>2. /\ r.client_fd \in Fds /\ r.reverse_fd = f
      /\ sock[r.client_fd].who = c
  BY DEF IInv, TypeOK, ReverseClients, UpstreamInv, LinkInv
<1>3. m \in Writes /\ m.what = "reply" /\ m.from = c /\ m.to = ClientSock(c)
  BY <1>1, <1>2 DEF IInv, TypeOK, Writes
<1>4. wire' = wire \/ wire' = wire \cup {m}
  BY RelayEffect, Zenon
<1>5. PICK left \in BOOLEAN :
        /\ left => up[r.client_fd].unread
        /\ up' = [up EXCEPT ![r.client_fd] = [@ EXCEPT !.unread = left]]
  BY RelayEffect, Zenon
<1>10. loss' \in [Conns -> Losses]
  <2>1. PICK l \in Losses \cup {loss[sock[r.client_fd].who]} :
          loss' = [loss EXCEPT ![sock[r.client_fd].who] = l]
    BY RelayEffect
  <2> QED
    BY <1>1, <1>2, <2>1 DEF IInv, TypeOK
<1>6. up' \in [Fds -> UpStates]
  <2>1. up[r.client_fd] \in UpStates
    BY <1>2 DEF IInv, TypeOK
  <2>2. [up[r.client_fd] EXCEPT !.unread = left] \in UpStates
    BY <2>1 DEF UpStates
  <2> QED
    BY <1>2, <1>5, <2>2 DEF IInv, TypeOK
<1>7. wire' \subseteq Writes /\ NoCrossTalk' /\ \A x \in wire' : x.from \in Conns
  BY <1>1, <1>3, <1>4 DEF IInv, TypeOK, NoCrossTalk, AskedInv
<1>8. \A g \in Fds : (up'[g].owes \/ up'[g].unread) => (up[g].owes \/ up[g].unread)
  BY <1>2, <1>5 DEF IInv, TypeOK, UpStates
<1>9. AskedInv'
  BY <1>4, <1>7, <1>8 DEF IInv, AskedInv
<1> QED
  BY <1>6, <1>7, <1>9, <1>10

\* The handler relays for the client it is handling.
LEMMA AnswerStep ==
    ASSUME IInv, NEW w \in Workers, Answer(w)
    PROVE  IInv'
<1>1. PICK r \in rclients[w] : \E got \in Outcomes(r) :
        /\ Current(w, r)
        /\ Relay(r, got, "handler")
        /\ IF RelayCloses(r, got)
              THEN Goto(w, "close") /\ UNCHANGED cur
              ELSE Goto(w, "dispatch") /\ cur' = [cur EXCEPT ![w] = NoFd]
  BY DEF Answer
<1>2. /\ pc[w] = "answer"
      /\ UNCHANGED <<sock, life, backlog, rx, peer, sent, watch, ready, shared,
                     batch, newId, ret, established, rclients, todo, doomed>>
  BY DEF Answer
<1>3. cur[w] \in watch[w] /\ cur[w] \in Fds /\ established[w][cur[w]] = r.id
  BY <1>1, <1>2 DEF IInv, TypeOK, EventInv, Handling, Current
<1>4. r.connected
  BY <1>2, <1>3 DEF IInv, LinkInv
<1>5. /\ loss' \in [Conns -> Losses] /\ up' \in [Fds -> UpStates] /\ wire' \subseteq Writes
      /\ AskedInv' /\ NoCrossTalk'
  BY <1>1, <1>2, <1>3, <1>4, RelaySafe
<1>6. \/ pc' = [pc EXCEPT ![w] = "close"] /\ cur' = cur
      \/ pc' = [pc EXCEPT ![w] = "dispatch"] /\ cur' = [cur EXCEPT ![w] = NoFd]
  BY <1>1
<1>7. /\ pc'[w] \in {"close", "dispatch"}
      /\ pc'[w] = "close" => cur'[w] = cur[w]
      /\ \A v \in Workers : v # w => pc'[v] = pc[v] /\ cur'[v] = cur[v]
      /\ pc' \in [Workers -> Labels] /\ cur' \in [Workers -> Fds \cup {NoFd}]
  <2>1. pc \in [Workers -> Labels] /\ cur \in [Workers -> Fds \cup {NoFd}]
    BY DEF IInv, TypeOK
  <2>2. CASE pc' = [pc EXCEPT ![w] = "close"] /\ cur' = cur
    BY <2>1, <2>2 DEF Labels
  <2>3. CASE /\ pc' = [pc EXCEPT ![w] = "dispatch"]
             /\ cur' = [cur EXCEPT ![w] = NoFd]
    BY <2>1, <2>3 DEF Labels
  <2> QED
    BY <1>6, <2>2, <2>3
<1>8. TypeOK'
  BY <1>2, <1>5, <1>7 DEF IInv, TypeOK
<1>9. SockInv' /\ LifeInv' /\ UpstreamInv' /\ TodoInv'
  BY <1>2 DEF IInv, SockInv, LifeInv, UpstreamInv, TodoInv
<1>10. LockInv' /\ IdInv' /\ WatchInv' /\ EmplaceInv' /\ ClientsOwned'
  BY <1>2, <1>7 DEF IInv, LockInv, IdInv, ClientIdsUnique, WatchInv, EmplaceInv,
        ClientsOwned
<1>11. EventInv' /\ PhaseInv'
  BY <1>2, <1>7 DEF IInv, EventInv, Handling, PhaseInv
<1>12. LinkInv'
  BY <1>2, <1>7 DEF IInv, LinkInv
<1> QED
  BY <1>5, <1>8, <1>9, <1>10, <1>11, <1>12 DEF IInv

\* Only the worker that watches a descriptor closes it.
LEMMA CloseFdStep ==
    ASSUME IInv, NEW w \in Workers, CloseFd(w)
    PROVE  IInv'
<1> DEFINE f == cur[w]
           c == sock[f].who
<1>1. /\ pc[w] = "close" /\ f \in watch[w] /\ f \in Fds
      /\ established[w][f] # 0 /\ sock[f].kind = "client" /\ c \in Conns
      /\ f \notin batch[w] /\ f \notin doomed[w]
  <2>1. pc[w] = "close"
    BY DEF CloseFd
  <2>2. f \in watch[w] /\ f \in Fds /\ f \notin batch[w] /\ f \notin doomed[w]
    BY <2>1 DEF IInv, TypeOK, EventInv, Handling
  <2>3. established[w][f] # 0 /\ sock[f].kind = "client"
    BY <2>2 DEF IInv, WatchInv
  <2> QED
    BY <2>1, <2>2, <2>3, SockFacts DEF IInv
<1>2. /\ watch' = [watch EXCEPT ![w] = @ \ {f}]
      /\ ready' = [ready EXCEPT ![w] = @ \ {f}]
      /\ sock' = [sock EXCEPT ![f] = FreeSock]
      /\ life' = [life EXCEPT ![c] = "closed"]
      /\ rx' = [rx EXCEPT ![c] = "none"]
      /\ pc' = [pc EXCEPT ![w] = "erase"]
      /\ UNCHANGED <<backlog, peer, sent, up, shared, batch, cur, newId, ret,
                     established, rclients, todo, doomed, history>>
  BY <1>1 DEF CloseFd, Registered, EpollDel
<1>3. /\ sock'[f].kind = "free" /\ sock'[f].who = NoConn
      /\ \A g \in Fds : g # f => sock'[g] = sock[g]
      /\ \A g \in Fds : sock[g].kind = "upstream" => sock'[g] = sock[g]
  BY <1>1, <1>2 DEF IInv, TypeOK, FreeSock
<1>4. \A v \in Workers : v # w => f \notin watch[v] /\ watch'[v] = watch[v]
  BY <1>1, <1>2 DEF IInv, TypeOK, WatchInv
<1>5. \A g \in Fds : (g # f /\ sock[g].kind = "client") => sock[g].who # c
  <2>1. ASSUME NEW g \in Fds, sock[g].kind = "client", sock[g].who = c
        PROVE  g = f
    <3>1. sock[g] = sock[f]
      BY <1>1, <2>1, SockFacts DEF IInv
    <3> QED
      BY <1>1, <2>1, <3>1 DEF IInv, LifeInv
  <2> QED
    BY <2>1
<1>6. TypeOK'
  <2>1. sock' \in [Fds -> Socks] /\ life' \in [Conns -> {"none", "queued", "open", "closed"}]
    BY <1>1, <1>2 DEF IInv, TypeOK, Socks, FreeSock
  <2>2. /\ rx' \in [Conns -> Kinds \cup {"none"}]
        /\ watch' \in [Workers -> SUBSET Fds] /\ ready' \in [Workers -> SUBSET Fds]
        /\ pc' \in [Workers -> Labels]
    BY <1>1, <1>2 DEF IInv, TypeOK, Labels
  <2> QED
    BY <1>2, <2>1, <2>2 DEF IInv, TypeOK
<1>7. SockInv'
  BY <1>3 DEF IInv, SockInv
<1>8. LifeInv'
  <2>1. \A g \in Fds : sock'[g].kind = "client" => life'[sock'[g].who] = "open"
    BY <1>2, <1>3, <1>5, SockFacts DEF IInv, TypeOK, LifeInv
  <2>2. \A g, h \in Fds : (sock'[g].kind = "client" /\ sock'[h] = sock'[g]) => g = h
    BY <1>3 DEF IInv, LifeInv
  <2>3. \A v \in Workers : \A d \in backlog'[v] : life'[d] = "queued"
    <3>1. life[c] = "open"
      BY <1>1 DEF IInv, LifeInv
    <3> QED
      BY <1>2, <3>1 DEF IInv, TypeOK, LifeInv
  <2> QED
    BY <1>2, <2>1, <2>2, <2>3 DEF IInv, LifeInv
<1>9. LockInv' /\ IdInv' /\ NoCrossTalk'
  BY <1>2 DEF IInv, TypeOK, LockInv, IdInv, ClientIdsUnique, NoCrossTalk
<1>10. PhaseInv'
  BY <1>1, <1>2 DEF IInv, TypeOK, PhaseInv
<1>11. WatchInv'
  <2>1. \A v \in Workers, g \in Fds :
          g \in watch'[v] <=>
             (established'[v][g] # 0 /\ ~(pc'[v] = "erase" /\ cur'[v] = g))
    BY <1>1, <1>2, <1>4 DEF IInv, TypeOK, WatchInv
  <2>2. \A v \in Workers : \A g \in watch'[v] : g \in watch[v] /\ g # f
    BY <1>1, <1>2, <1>4 DEF IInv, TypeOK
  <2> QED
    BY <1>3, <2>1, <2>2 DEF IInv, TypeOK, WatchInv
<1>12. EmplaceInv'
  BY <1>1, <1>2, <1>3, <1>4 DEF IInv, TypeOK, EmplaceInv
<1>13. ClientsOwned'
  <2>1. SUFFICES ASSUME NEW g \in Fds, sock'[g].kind = "client"
                 PROVE  \E v \in Workers :
                            g \in watch'[v] \/ (pc'[v] = "emplace" /\ cur'[v] = g)
    BY DEF ClientsOwned
  <2>2. g # f /\ sock[g].kind = "client"
    BY <1>3, <2>1
  <2>3. PICK v \in Workers : g \in watch[v] \/ (pc[v] = "emplace" /\ cur[v] = g)
    BY <2>2 DEF IInv, ClientsOwned
  <2>4. g \in watch[v] => g \in watch'[v]
    BY <1>2, <2>2 DEF IInv, TypeOK
  <2>5. pc[v] = "emplace" => pc'[v] = "emplace" /\ cur'[v] = cur[v]
    BY <1>1, <1>2 DEF IInv, TypeOK
  <2> QED
    BY <2>3, <2>4, <2>5
<1>14. EventInv'
  BY <1>1, <1>2, <1>4 DEF IInv, TypeOK, EventInv, Handling
<1>15. \A v \in Workers : \A r \in rclients[v] :
          r.client_fd # NoFd => sock'[r.client_fd] = sock[r.client_fd]
  <2>1. ASSUME NEW v \in Workers, NEW r \in rclients[v], r.client_fd # NoFd
        PROVE  r.client_fd \in Fds /\ sock[r.client_fd].kind = "upstream"
    BY <2>1 DEF IInv, TypeOK, ReverseClients, UpstreamInv
  <2> QED
    BY <1>3, <2>1
<1>16. UpstreamInv'
  BY <1>2, <1>3, <1>15 DEF IInv, UpstreamInv
<1>17. LinkInv'
  <2>1. SUFFICES ASSUME NEW v \in Workers, NEW r \in rclients[v], NEW g \in watch'[v],
                        established[v][g] = r.id
                 PROVE  /\ r.reverse_fd = g
                        /\ r.client_fd # NoFd => sock'[r.client_fd].who = sock'[g].who
                        /\ ~r.connected => pc'[v] \in {"connect", "close"} /\ cur[v] = g
    BY <1>2 DEF LinkInv
  <2>2. g \in watch[v] /\ g # f /\ g \in Fds
    BY <1>1, <1>2, <1>4 DEF IInv, TypeOK
  <2>3. v = w => r.connected
    BY <2>1, <2>2 DEF IInv, LinkInv
  <2>4. v # w => pc'[v] = pc[v]
    BY <1>2 DEF IInv, TypeOK
  <2> QED
    BY <1>3, <1>15, <2>1, <2>2, <2>3, <2>4 DEF IInv, LinkInv
<1>18. TodoInv'
  <2>1. todo[w] = {}
    BY <1>1 DEF IInv, PhaseInv
  <2> QED
    BY <1>2, <1>4, <2>1 DEF IInv, TodoInv
<1>19. AskedInv'
  BY <1>2, <1>3 DEF IInv, AskedInv
<1> QED
  BY <1>6, <1>7, <1>8, <1>9, <1>10, <1>11, <1>12, <1>13, <1>14, <1>16, <1>17, <1>18,
     <1>19 DEF IInv

\* The entry that is erased is the one that was closed.
LEMMA EraseClientStep ==
    ASSUME IInv, NEW w \in Workers, EraseClient(w)
    PROVE  IInv'
<1> DEFINE f == cur[w]
<1>1. /\ pc[w] = "erase" /\ f \in Fds /\ f \notin watch[w]
      /\ f \notin batch[w] /\ f \notin doomed[w]
  BY DEF EraseClient, IInv, EventInv, WatchInv, Handling
<1>2. /\ established' = [established EXCEPT ![w] = [@ EXCEPT ![f] = 0]]
      /\ cur' = [cur EXCEPT ![w] = NoFd]
      /\ ret' = [ret EXCEPT ![w] = "dispatch"]
      /\ pc' = [pc EXCEPT ![w] = ret[w]]
      /\ UNCHANGED <<kernel, shared, batch, newId, rclients, todo, doomed, history>>
  BY DEF EraseClient
<1>3. /\ established'[w][f] = 0
      /\ \A v \in Workers, g \in Fds :
           (v # w \/ g # f) => established'[v][g] = established[v][g]
      /\ established' \in [Workers -> [Fds -> Nat]]
  BY <1>1, <1>2 DEF IInv, TypeOK
<1>4. /\ pc'[w] = ret[w] /\ ret[w] \in {"dispatch", "sweep"}
      /\ cur'[w] = NoFd
      /\ \A v \in Workers : v # w => pc'[v] = pc[v] /\ cur'[v] = cur[v] /\ ret'[v] = ret[v]
      /\ ret'[w] = "dispatch"
  BY <1>2 DEF IInv, TypeOK
<1>5. TypeOK'
  BY <1>2, <1>3 DEF IInv, TypeOK, Labels
<1>6. SockInv' /\ LifeInv' /\ UpstreamInv' /\ AskedInv' /\ NoCrossTalk'
  BY <1>2 DEF IInv, SockInv, LifeInv, UpstreamInv, AskedInv, NoCrossTalk
<1>7. LockInv' /\ EmplaceInv' /\ ClientsOwned'
  BY <1>1, <1>2, <1>4 DEF IInv, LockInv, EmplaceInv, ClientsOwned
<1>8. IdInv'
  <2>1. ClientIdsUnique'
    BY <1>1, <1>3 DEF IInv, IdInv, ClientIdsUnique
  <2>2. \A v \in Workers, g \in Fds : established'[v][g] <= max_client_id'
    BY <1>2, <1>3 DEF IInv, TypeOK, IdInv
  <2> QED
    BY <1>2, <1>4, <2>1, <2>2 DEF IInv, IdInv
<1>9. WatchInv'
  BY <1>1, <1>2, <1>3, <1>4 DEF IInv, WatchInv
<1>10. EventInv'
  BY <1>1, <1>2, <1>3, <1>4 DEF IInv, EventInv, Handling
<1>11. PhaseInv'
  BY <1>1, <1>2, <1>4 DEF IInv, PhaseInv
<1>12. LinkInv' /\ TodoInv'
  BY <1>1, <1>2, <1>3, <1>4 DEF IInv, TypeOK, LinkInv, TodoInv
<1> QED
  BY <1>5, <1>6, <1>7, <1>8, <1>9, <1>10, <1>11, <1>12 DEF IInv

\* Nothing happens when the timer is not due.
LEMMA TimerNotDueStep ==
    ASSUME IInv, NEW w \in Workers, TimerNotDue(w)
    PROVE  IInv'
<1>1. TypeOK'
  BY ConstantsDistinct DEF IInv, TypeOK, TimerNotDue, Labels
<1>2. SockInv' /\ LifeInv' /\ UpstreamInv' /\ TodoInv' /\ AskedInv' /\ NoCrossTalk'
  BY ConstantsDistinct DEF IInv, TypeOK, TimerNotDue, SockInv, LifeInv,
        UpstreamInv, TodoInv, AskedInv, NoCrossTalk
<1>3. LockInv' /\ IdInv' /\ WatchInv' /\ EmplaceInv' /\ ClientsOwned'
  BY ConstantsDistinct DEF IInv, TypeOK, TimerNotDue, LockInv, IdInv,
        WatchInv, EmplaceInv, ClientsOwned, ClientIdsUnique
<1>4. EventInv' /\ PhaseInv' /\ LinkInv'
  BY ConstantsDistinct DEF IInv, TypeOK, TimerNotDue, EventInv, PhaseInv,
        LinkInv, Handling
<1> QED
  BY <1>1, <1>2, <1>3, <1>4 DEF IInv

\* What is swept belongs to clients that are gone; what is left is linked.
LEMMA TimerClearStep ==
    ASSUME IInv, NEW w \in Workers, TimerClear(w)
    PROVE  IInv'
<1> DEFINE kept == {r \in rclients[w] : r.id \in LiveIds(w)}
           gone == UpstreamFds(rclients[w] \ kept)
<1>1. /\ pc[w] = "timer" /\ pc' = [pc EXCEPT ![w] = "relay"]
      /\ rclients' = [rclients EXCEPT ![w] = kept]
      /\ todo' = [todo EXCEPT ![w] = kept]
      /\ sock' = [f \in Fds |-> IF f \in gone THEN FreeSock ELSE sock[f]]
      /\ up' = [f \in Fds |-> IF f \in gone THEN UpInit ELSE up[f]]
      /\ UNCHANGED <<life, backlog, rx, peer, sent, watch, ready, shared, batch,
                     cur, newId, ret, established, doomed, history>>
  BY DEF TimerClear
<1>2. /\ kept \subseteq rclients[w] /\ rclients'[w] = kept /\ todo'[w] = kept
      /\ \A v \in Workers : v # w => rclients'[v] = rclients[v] /\ todo'[v] = todo[v]
      /\ \A v \in Workers : rclients'[v] \subseteq rclients[v]
  BY <1>1 DEF IInv, TypeOK
<1>3. /\ \A g \in gone : g \in Fds /\ \E r \in rclients[w] : r \notin kept /\ r.client_fd = g
      /\ \A r \in rclients[w] : (r \notin kept /\ r.client_fd \in Fds) => r.client_fd \in gone
      /\ \A r \in kept : r.id \in LiveIds(w)
  BY DEF UpstreamFds
<1> HIDE DEF kept, gone
<1>4. \A g \in gone : sock[g].kind = "upstream"
  BY <1>3, ConstantsDistinct DEF IInv, UpstreamInv
<1>5. \A v \in Workers : \A r \in rclients'[v] :
        r.client_fd # NoFd => r.client_fd \in Fds /\ r.client_fd \notin gone
  <2>1. ASSUME NEW v \in Workers, NEW r \in rclients'[v], r.client_fd # NoFd,
               r.client_fd \in gone
        PROVE  FALSE
    <3>1. PICK q \in rclients[w] : q \notin kept /\ q.client_fd = r.client_fd
      BY <1>3, <2>1
    <3>2. v = w /\ r = q
      BY <1>2, <2>1, <3>1 DEF IInv, UpstreamInv
    <3> QED
      BY <1>2, <3>1, <3>2
  <2>2. ASSUME NEW v \in Workers, NEW r \in rclients'[v], r.client_fd # NoFd
        PROVE  r.client_fd \in Fds
    BY <1>2, <2>2 DEF IInv, TypeOK, ReverseClients
  <2> QED
    BY <2>1, <2>2
<1>6. /\ \A g \in Fds : g \in gone => sock'[g] = FreeSock /\ up'[g] = UpInit
      /\ \A g \in Fds : g \notin gone => sock'[g] = sock[g] /\ up'[g] = up[g]
      /\ \A g \in Fds : sock[g].kind = "client" => sock'[g] = sock[g]
      /\ \A g \in Fds : sock'[g].kind = "client" => sock'[g] = sock[g]
  BY <1>1, <1>4 DEF FreeSock
<1>7. TypeOK'
  <2>1. sock' \in [Fds -> Socks] /\ up' \in [Fds -> UpStates]
    BY <1>1 DEF IInv, TypeOK, Socks, FreeSock, UpStates, UpInit
  <2>2. /\ rclients' \in [Workers -> SUBSET ReverseClients]
        /\ todo' \in [Workers -> SUBSET ReverseClients]
        /\ pc' \in [Workers -> Labels]
    BY <1>1, <1>2 DEF IInv, TypeOK, Labels
  <2> QED
    BY <1>1, <2>1, <2>2 DEF IInv, TypeOK
<1>8. SockInv' /\ LifeInv'
  BY <1>1, <1>6 DEF IInv, SockInv, LifeInv, FreeSock
<1>9. LockInv' /\ IdInv'
  BY <1>1, <1>2 DEF IInv, TypeOK, LockInv, IdInv, ClientIdsUnique
<1>10. WatchInv' /\ EmplaceInv' /\ ClientsOwned'
  <2>1. \A v \in Workers : /\ pc'[v] = "erase" <=> pc[v] = "erase"
                           /\ pc'[v] = "emplace" <=> pc[v] = "emplace"
    BY <1>1 DEF IInv, TypeOK
  <2>2. WatchInv'
    BY <1>1, <1>6, <2>1 DEF IInv, TypeOK, WatchInv
  <2>3. EmplaceInv'
    BY <1>1, <1>6, <2>1 DEF IInv, EmplaceInv
  <2>4. ClientsOwned'
    BY <1>1, <1>6, <2>1 DEF IInv, ClientsOwned
  <2> QED
    BY <2>2, <2>3, <2>4
<1>11. EventInv' /\ PhaseInv'
  BY <1>1 DEF IInv, TypeOK, EventInv, Handling, PhaseInv
<1>12. UpstreamInv'
  <2>1. ASSUME NEW v \in Workers, NEW r \in rclients'[v]
        PROVE  /\ r.connected => r.client_fd # NoFd
               /\ r.client_fd # NoFd => sock'[r.client_fd].kind = "upstream"
    BY <1>2, <1>5, <1>6, <2>1 DEF IInv, UpstreamInv
  <2>2. ASSUME NEW g \in Fds, sock'[g].kind = "upstream"
        PROVE  \E v \in Workers : \E r \in rclients'[v] : r.client_fd = g
    <3>1. g \notin gone /\ sock[g].kind = "upstream"
      BY <1>6, <2>2 DEF FreeSock
    <3>2. PICK v \in Workers : \E r \in rclients[v] : r.client_fd = g
      BY <3>1 DEF IInv, UpstreamInv
    <3>3. PICK r \in rclients[v] : r.client_fd = g
      BY <3>2
    <3>4. v = w => r \in kept
      BY <1>3, <3>1, <3>3
    <3> QED
      BY <1>2, <3>3, <3>4
  <2> QED
    BY <1>2, <2>1, <2>2 DEF IInv, UpstreamInv
<1>13. LinkInv'
  <2>1. SUFFICES ASSUME NEW v \in Workers, NEW r \in rclients'[v], NEW g \in watch[v],
                        established[v][g] = r.id
                 PROVE  /\ r.reverse_fd = g
                        /\ r.client_fd # NoFd => sock'[r.client_fd].who = sock'[g].who
                        /\ ~r.connected => pc'[v] \in {"connect", "close"} /\ cur[v] = g
    BY <1>1 DEF LinkInv
  <2>2. r \in rclients[v]
    BY <1>2
  <2>3. g \in Fds /\ sock'[g] = sock[g]
    BY <1>6 DEF IInv, TypeOK, WatchInv
  <2>4. r.client_fd # NoFd => sock'[r.client_fd] = sock[r.client_fd]
    BY <1>5, <1>6
  <2>5. v = w => r.connected
    BY <1>1, <2>1, <2>2 DEF IInv, LinkInv
  <2>6. v # w => pc'[v] = pc[v]
    BY <1>1 DEF IInv, TypeOK
  <2> QED
    BY <2>1, <2>2, <2>3, <2>4, <2>5, <2>6 DEF IInv, LinkInv
<1>14. TodoInv'
  <2>1. ASSUME NEW r \in kept
        PROVE  \E g \in watch[w] : established[w][g] = r.id
    <3>1. PICK g \in Registered(w) : established[w][g] = r.id
      BY <1>3, <2>1 DEF LiveIds
    <3>2. g \in watch[w]
      BY <1>1, <3>1 DEF Registered, IInv, WatchInv
    <3> QED
      BY <3>1, <3>2
  <2> QED
    BY <1>1, <1>2, <2>1 DEF IInv, TodoInv
<1>15. AskedInv' /\ NoCrossTalk'
  BY <1>1, <1>6 DEF IInv, AskedInv, NoCrossTalk, FreeSock
<1> QED
  BY <1>7, <1>8, <1>9, <1>10, <1>11, <1>12, <1>13, <1>14, <1>15 DEF IInv

\* The timer relays for clients that are still there.
LEMMA TimerRelayStep ==
    ASSUME IInv, NEW w \in Workers, TimerRelay(w)
    PROVE  IInv'
<1>1. PICK r \in todo[w] :
        /\ r.connected /\ todo' = [todo EXCEPT ![w] = @ \ {r}]
        /\ \E got \in Outcomes(r) : Relay(r, got, "timer")
  BY DEF TimerRelay
<1>2. /\ pc[w] = "relay"
      /\ UNCHANGED <<sock, life, backlog, rx, peer, sent, watch, ready, shared,
                     pc, batch, cur, newId, ret, established, rclients, doomed>>
  BY DEF TimerRelay
<1>3. r \in rclients[w] /\ \E f \in watch[w] : established[w][f] = r.id
  BY DEF IInv, TodoInv
<1>4. /\ loss' \in [Conns -> Losses] /\ up' \in [Fds -> UpStates] /\ wire' \subseteq Writes
      /\ AskedInv' /\ NoCrossTalk'
  BY <1>1, <1>2, <1>3, RelaySafe
<1>5. TypeOK'
  BY <1>1, <1>2, <1>4 DEF IInv, TypeOK
<1>6. SockInv' /\ LifeInv' /\ UpstreamInv'
  BY <1>2 DEF IInv, SockInv, LifeInv, UpstreamInv
<1>7. LockInv' /\ IdInv' /\ WatchInv' /\ EmplaceInv' /\ ClientsOwned'
  BY <1>2 DEF IInv, LockInv, IdInv, ClientIdsUnique, WatchInv, EmplaceInv,
        ClientsOwned
<1>8. EventInv' /\ LinkInv'
  BY <1>2 DEF IInv, EventInv, LinkInv
<1>9. PhaseInv' /\ TodoInv'
  BY <1>1, <1>2 DEF IInv, TypeOK, PhaseInv, TodoInv
<1> QED
  BY <1>4, <1>5, <1>6, <1>7, <1>8, <1>9 DEF IInv

\* Leaving module_timer.
LEMMA TimerDoneStep ==
    ASSUME IInv, NEW w \in Workers, TimerDone(w)
    PROVE  IInv'
<1>1. TypeOK'
  BY ConstantsDistinct DEF IInv, TypeOK, TimerDone, Labels
<1>2. SockInv' /\ LifeInv' /\ UpstreamInv' /\ TodoInv' /\ AskedInv' /\ NoCrossTalk'
  BY ConstantsDistinct DEF IInv, TypeOK, TimerDone, SockInv, LifeInv,
        UpstreamInv, TodoInv, AskedInv, NoCrossTalk
<1>3. LockInv' /\ IdInv' /\ WatchInv' /\ EmplaceInv' /\ ClientsOwned'
  BY ConstantsDistinct DEF IInv, TypeOK, TimerDone, LockInv, IdInv,
        WatchInv, EmplaceInv, ClientsOwned, ClientIdsUnique
<1>4. EventInv' /\ PhaseInv' /\ LinkInv'
  BY ConstantsDistinct DEF IInv, TypeOK, TimerDone, EventInv, PhaseInv,
        LinkInv, Handling
<1> QED
  BY <1>1, <1>2, <1>3, <1>4 DEF IInv

\* The clients to clear are registered, hence watched.
LEMMA PingStep ==
    ASSUME IInv, NEW w \in Workers, Ping(w)
    PROVE  IInv'
<1>1. PICK D \in SUBSET Registered(w) : doomed' = [doomed EXCEPT ![w] = D]
  BY DEF Ping, ClearFds
<1>2. /\ pc[w] = "ping" /\ pc' = [pc EXCEPT ![w] = "sweep"]
      /\ UNCHANGED <<kernel, shared, batch, cur, newId, ret, established,
                     rclients, todo, history>>
  BY DEF Ping
<1>3. D \in SUBSET Fds /\ D \subseteq watch[w]
  BY <1>2 DEF IInv, WatchInv, Registered
<1>4. TypeOK'
  BY <1>1, <1>2, <1>3 DEF IInv, TypeOK, Labels
<1>5. SockInv' /\ LifeInv' /\ UpstreamInv' /\ TodoInv' /\ AskedInv' /\ NoCrossTalk'
  BY <1>2 DEF IInv, SockInv, LifeInv, UpstreamInv, TodoInv, AskedInv, NoCrossTalk
<1>6. LockInv' /\ IdInv' /\ WatchInv' /\ EmplaceInv' /\ ClientsOwned'
  BY <1>2 DEF IInv, TypeOK, LockInv, IdInv, ClientIdsUnique, WatchInv, EmplaceInv,
        ClientsOwned
<1>7. EventInv' /\ PhaseInv' /\ LinkInv'
  BY <1>1, <1>2, <1>3 DEF IInv, TypeOK, EventInv, Handling, PhaseInv, LinkInv
<1> QED
  BY <1>4, <1>5, <1>6, <1>7 DEF IInv

\* The descriptor to close leaves clear_fds.
LEMMA SweepStep ==
    ASSUME IInv, NEW w \in Workers, Sweep(w)
    PROVE  IInv'
<1>1. TypeOK'
  BY ConstantsDistinct DEF IInv, TypeOK, Sweep, Labels
<1>2. SockInv' /\ LifeInv' /\ UpstreamInv' /\ TodoInv' /\ AskedInv' /\ NoCrossTalk'
  BY ConstantsDistinct DEF IInv, TypeOK, Sweep, SockInv, LifeInv,
        UpstreamInv, TodoInv, AskedInv, NoCrossTalk
<1>3. LockInv' /\ IdInv' /\ WatchInv' /\ EmplaceInv' /\ ClientsOwned'
  BY ConstantsDistinct DEF IInv, TypeOK, Sweep, LockInv, IdInv, WatchInv,
        EmplaceInv, ClientsOwned, ClientIdsUnique
<1>4. EventInv' /\ PhaseInv' /\ LinkInv'
  BY ConstantsDistinct DEF IInv, TypeOK, Sweep, EventInv, PhaseInv, LinkInv,
        Handling
<1> QED
  BY <1>1, <1>2, <1>3, <1>4 DEF IInv

\* The round is over with empty lists.
LEMMA SweepDoneStep ==
    ASSUME IInv, NEW w \in Workers, SweepDone(w)
    PROVE  IInv'
<1>1. TypeOK'
  BY ConstantsDistinct DEF IInv, TypeOK, SweepDone, Labels
<1>2. SockInv' /\ LifeInv' /\ UpstreamInv' /\ TodoInv' /\ AskedInv' /\ NoCrossTalk'
  BY ConstantsDistinct DEF IInv, TypeOK, SweepDone, SockInv, LifeInv,
        UpstreamInv, TodoInv, AskedInv, NoCrossTalk
<1>3. LockInv' /\ IdInv' /\ WatchInv' /\ EmplaceInv' /\ ClientsOwned'
  BY ConstantsDistinct DEF IInv, TypeOK, SweepDone, LockInv, IdInv,
        WatchInv, EmplaceInv, ClientsOwned, ClientIdsUnique
<1>4. EventInv' /\ PhaseInv' /\ LinkInv'
  BY ConstantsDistinct DEF IInv, TypeOK, SweepDone, EventInv, PhaseInv,
        LinkInv, Handling
<1> QED
  BY <1>1, <1>2, <1>3, <1>4 DEF IInv

-----------------------------------------------------------------------------
(* Every step                                                              *)

\* The inductive invariant holds when the workers enter their loops.
LEMMA InitInv == Init => IInv
<1> SUFFICES ASSUME Init PROVE IInv
  OBVIOUS
<1>1. TypeOK
  BY ConstantsDistinct DEF Init, TypeOK, Socks, FreeSock, UpStates, UpInit, Labels, Losses
<1>2. SockInv /\ LifeInv /\ UpstreamInv /\ TodoInv /\ AskedInv /\ NoCrossTalk
  BY ConstantsDistinct DEF Init, FreeSock, UpInit, SockInv, LifeInv, UpstreamInv,
        TodoInv, AskedInv, NoCrossTalk
<1>3. LockInv /\ IdInv /\ WatchInv /\ EmplaceInv /\ ClientsOwned
  BY DEF Init, FreeSock, LockInv, IdInv, ClientIdsUnique, WatchInv, EmplaceInv,
        ClientsOwned
<1>4. EventInv /\ PhaseInv /\ LinkInv
  BY DEF Init, EventInv, Handling, PhaseInv, LinkInv
<1> QED
  BY <1>1, <1>2, <1>3, <1>4 DEF IInv

\* Whatever a worker, a client or an upstream does preserves it.
LEMMA StepInv == IInv /\ [Next]_vars => IInv'
<1> SUFFICES ASSUME IInv, [Next]_vars PROVE IInv'
  OBVIOUS
<1>1. CASE UNCHANGED vars
  <2>1. TypeOK'
    BY <1>1 DEF IInv, vars, TypeOK
  <2>2. SockInv' /\ LifeInv' /\ UpstreamInv' /\ TodoInv' /\ AskedInv' /\ NoCrossTalk'
    BY <1>1 DEF IInv, vars, SockInv, LifeInv, UpstreamInv, TodoInv, AskedInv,
          NoCrossTalk
  <2>3. LockInv' /\ IdInv' /\ WatchInv' /\ EmplaceInv' /\ ClientsOwned'
    BY <1>1 DEF IInv, vars, LockInv, IdInv, ClientIdsUnique, WatchInv, EmplaceInv,
          ClientsOwned
  <2>4. EventInv' /\ PhaseInv' /\ LinkInv'
    BY <1>1 DEF IInv, vars, EventInv, PhaseInv, LinkInv
  <2> QED
    BY <2>1, <2>2, <2>3, <2>4 DEF IInv
<1>2. CASE Environment
  BY <1>2, ConnectStep, ClientSendsStep, ClientEndsStep, UpstreamRepliesStep,
     UpstreamClosesStep DEF Environment
<1>3. ASSUME NEW w \in Workers, Worker(w)
      PROVE  IInv'
  <2>1. CASE EpollWait(w) \/ EpollTimesOut(w) \/ EpollFails(w)
    BY <2>1, EpollWaitStep, EpollTimesOutStep, EpollFailsStep
  <2>2. CASE Dispatch(w)
    BY <2>2, DispatchAcceptStep, DispatchDoneStep, HandleCloseStep, HandleLocalStep,
       HandleProxyStep DEF Dispatch
  <2>3. CASE Accept(w)
    BY <1>1, <2>3, LockAcceptStep, AcceptOneStep, EmplaceStep, AcceptDoneStep
       DEF Accept, AcceptFails
  <2>4. CASE Proxy(w)
    BY <2>4, ConnectAlreadyStep, ConnectNoFdStep, ConnectTryStep, ForwardStep,
       ForwardFailsStep, AnswerStep DEF Proxy
  <2>5. CASE Cleanup(w)
    BY <2>5, CloseFdStep, EraseClientStep DEF Cleanup
  <2>6. CASE Housekeeping(w)
    BY <2>6, TimerNotDueStep, TimerClearStep, TimerRelayStep, TimerDoneStep, PingStep,
       SweepStep, SweepDoneStep DEF Housekeeping
  <2> QED
    BY <1>3, <2>1, <2>2, <2>3, <2>4, <2>5, <2>6 DEF Worker, Loop
<1> QED
  BY <1>1, <1>2, <1>3 DEF Next

-----------------------------------------------------------------------------
(* The theorems                                                            *)

\* The strengthened invariant holds in every reachable state, for any number
\* of workers, connections and descriptors.
THEOREM ServerInvariant == Spec => []IInv
<1>1. Init => IInv
  BY InitInv
<1>2. IInv /\ [Next]_vars => IInv'
  BY StepInv
<1> QED
  BY <1>1, <1>2, PTL DEF Spec

\* Type correctness of the event loop's state.
THEOREM ServerTypeCorrect == Spec => []TypeOK
<1>1. IInv => TypeOK
  BY DEF IInv
<1> QED
  BY <1>1, ServerInvariant, PTL

\* handle_client's "no way!" branch is unreachable: an event epoll reported
\* is about a registered open client when its turn comes.
THEOREM EventsAlwaysRegistered == Spec => []EventsRegistered
<1>1. IInv => EventsRegistered
  BY DEF IInv, TypeOK, EventsRegistered, EventInv, WatchInv
<1> QED
  BY <1>1, ServerInvariant, PTL

\* client_id is unique in the process: accept_lock makes the plain increment
\* of max_client_id safe.
THEOREM ClientIdsAlwaysUnique == Spec => []ClientIdsUnique
<1>1. IInv => ClientIdsUnique
  BY DEF IInv, IdInv
<1> QED
  BY <1>1, ServerInvariant, PTL

\* The reverse proxy never writes one client's bytes to another, whatever
\* descriptors are reused.
THEOREM NeverCrossTalk == Spec => []NoCrossTalk
<1>1. IInv => NoCrossTalk
  BY DEF IInv
<1> QED
  BY <1>1, ServerInvariant, PTL

\* No socket of a running worker pool leaks or has two owners.
THEOREM AlwaysOneOwner == Spec => []OneOwner
<1>1. IInv => OneOwner
  <2> SUFFICES ASSUME IInv, NEW f \in Fds
               PROVE  /\ sock[f].kind = "client" =>
                           \E w \in Workers :
                             /\ \/ established[w][f] # 0 /\ f \in watch[w]
                                \/ pc[w] = "emplace" /\ cur[w] = f
                             /\ \A v \in Workers \ {w} : f \notin watch[v]
                      /\ sock[f].kind = "upstream" =>
                           \E w \in Workers : \E r \in rclients[w] :
                             /\ r.client_fd = f
                             /\ \A v \in Workers : \A q \in rclients[v] :
                                  q.client_fd = f => (v = w /\ q = r)
    BY DEF OneOwner
  <2>1. ASSUME sock[f].kind = "client"
        PROVE  \E w \in Workers :
                 /\ \/ established[w][f] # 0 /\ f \in watch[w]
                    \/ pc[w] = "emplace" /\ cur[w] = f
                 /\ \A v \in Workers \ {w} : f \notin watch[v]
    <3>1. PICK w \in Workers : f \in watch[w] \/ (pc[w] = "emplace" /\ cur[w] = f)
      BY <2>1 DEF IInv, ClientsOwned
    <3>2. \A v \in Workers \ {w} : f \notin watch[v]
      BY <3>1 DEF IInv, WatchInv, EmplaceInv
    <3>3. f \in watch[w] => established[w][f] # 0
      BY DEF IInv, WatchInv
    <3> QED
      BY <3>1, <3>2, <3>3
  <2>2. ASSUME sock[f].kind = "upstream"
        PROVE  \E w \in Workers : \E r \in rclients[w] :
                 /\ r.client_fd = f
                 /\ \A v \in Workers : \A q \in rclients[v] :
                      q.client_fd = f => (v = w /\ q = r)
    BY <2>2, ConstantsDistinct DEF IInv, UpstreamInv
  <2> QED
    BY <2>1, <2>2
<1> QED
  BY <1>1, ServerInvariant, PTL

\* The module timer never enters the blocking connect.
THEOREM TimerNeverConnectsAgain == Spec => []TimerNeverConnects
<1>1. IInv => TimerNeverConnects
  BY DEF IInv, TimerNeverConnects, TodoInv, LinkInv, PhaseInv
<1> QED
  BY <1>1, ServerInvariant, PTL

-----------------------------------------------------------------------------
(* The workers implement the gateway                                       *)

\* A step that leaves connections and writes alone is a stuttering step of
\* the gateway.
LEMMA Invisible ==
    ASSUME UNCHANGED <<life, wire>>
    PROVE  UNCHANGED G!gvars
BY DEF G!gvars, traffic

\* What a write adds to the gateway's traffic.
LEMMA TrafficGrows ==
    ASSUME NEW m \in Writes, wire' = wire \cup {m}
    PROVE  traffic' = traffic \cup {<<m.what, m.from, m.to.who>>}
BY DEF traffic

\* A relay step gives an open client a reply to a request it made, or nothing.
LEMMA RelayIsReply ==
    ASSUME IInv, NEW w \in Workers, NEW r \in rclients[w], NEW f \in watch[w],
           established[w][f] = r.id, r.connected,
           NEW got, NEW by \in {"handler", "timer"}, Relay(r, got, by), UNCHANGED life
    PROVE  [G!GNext]_(G!gvars)
<1> DEFINE c == sock[f].who
           m == [what |-> "reply", from |-> sock[r.client_fd].who,
                 to |-> sock[r.reverse_fd]]
<1>1. f \in Fds /\ sock[f].kind = "client" /\ sock[f] = ClientSock(c) /\ c \in Conns
  BY SockFacts DEF IInv, TypeOK, WatchInv
<1>2. /\ r.client_fd \in Fds /\ r.reverse_fd = f
      /\ sock[r.client_fd].who = c /\ sock[r.client_fd].kind = "upstream"
  BY DEF IInv, TypeOK, ReverseClients, UpstreamInv, LinkInv
<1>3. sock[r.client_fd] = UpstreamSock(c)
  BY <1>2, SockFacts DEF IInv
<1>4. \/ wire' = wire
      \/ up[r.client_fd].unread /\ wire' = wire \cup {m}
  BY RelayEffect, Zenon
<1>5. CASE wire' = wire
  BY <1>5, Invisible
<1>6. CASE up[r.client_fd].unread /\ wire' = wire \cup {m}
  <2>1. m \in Writes /\ m.what = "reply" /\ m.from = c /\ m.to.who = c
    BY <1>1, <1>2 DEF IInv, TypeOK, Writes, ClientSock
  <2>2. traffic' = traffic \cup {<<"reply", c, c>>}
    BY <1>6, <2>1, TrafficGrows
  <2>3. <<"request", c, c>> \in traffic
    <3>1. [what |-> "request", from |-> c, to |-> UpstreamSock(c)] \in wire
      BY <1>2, <1>3, <1>6 DEF IInv, AskedInv
    <3> QED
      BY <3>1 DEF traffic, UpstreamSock
  <2>4. life[c] = "open"
    BY <1>1 DEF IInv, LifeInv
  <2>5. G!ReturnReply(c)
    BY <2>2, <2>3, <2>4 DEF G!ReturnReply
  <2> QED
    BY <1>1, <2>5 DEF G!GNext
<1> QED
  BY <1>4, <1>5, <1>6

\* Every step of the workers and their environment is a step of the gateway or
\* changes nothing it can see.
LEMMA StepRefines == IInv /\ [Next]_vars => [G!GNext]_(G!gvars)
<1> SUFFICES ASSUME IInv, [Next]_vars PROVE [G!GNext]_(G!gvars)
  OBVIOUS
<1>1. CASE UNCHANGED vars
  BY <1>1, Invisible DEF vars
<1>2. CASE Environment
  <2>1. ASSUME NEW c \in Conns, NEW w \in Workers, Connect(c, w)
        PROVE  G!Arrive(c)
    BY <2>1 DEF Connect, G!Arrive, traffic
  <2>2. ASSUME NEW c \in Conns, NEW k \in Kinds, ClientSends(c, k)
        PROVE  UNCHANGED <<life, wire>>
    BY <2>2 DEF ClientSends
  <2>3. ASSUME NEW c \in Conns, NEW how \in {"fin", "rst"}, ClientEnds(c, how)
        PROVE  UNCHANGED <<life, wire>>
    BY <2>3 DEF ClientEnds
  <2>4. ASSUME NEW f \in Fds, UpstreamReplies(f) \/ UpstreamCloses(f)
        PROVE  UNCHANGED <<life, wire>>
    BY <2>4 DEF UpstreamReplies, UpstreamCloses
  <2> QED
    BY <1>2, <2>1, <2>2, <2>3, <2>4, Invisible DEF Environment, G!GNext
<1>3. ASSUME NEW w \in Workers, Worker(w)
      PROVE  [G!GNext]_(G!gvars)
  <2>1. CASE EpollWait(w) \/ EpollTimesOut(w) \/ EpollFails(w)
    BY <2>1, Invisible DEF EpollWait, EpollTimesOut, EpollFails
  <2>2. CASE Dispatch(w)
    BY <2>2, Invisible
       DEF Dispatch, DispatchAccept, DispatchDone, HandleClose, HandleLocal, HandleProxy
  <2>3. CASE AcceptOne(w)
    <3>1. PICK c \in backlog[w] : life' = [life EXCEPT ![c] = "open"]
      BY <2>3 DEF AcceptOne
    <3>2. c \in Conns /\ life[c] = "queued"
      BY DEF IInv, TypeOK, LifeInv
    <3>3. UNCHANGED traffic
      BY <2>3 DEF AcceptOne, traffic
    <3> QED
      BY <3>1, <3>2, <3>3 DEF G!Serve, G!GNext
  <2>4. CASE Accept(w) /\ ~AcceptOne(w)
    BY <2>4, Invisible
       DEF Accept, LockAccept, Emplace, AcceptDone, AcceptFails, vars
  <2>5. CASE Forward(w)
    <3>1. pc[w] = "forward" /\ UNCHANGED life
      BY <2>5 DEF Forward
    <3>2. PICK r \in rclients[w] :
            /\ Current(w, r)
            /\ wire' = wire \cup {[what |-> "request", from |-> sock[cur[w]].who,
                                   to |-> sock[r.client_fd]]}
      BY <2>5 DEF Forward
    <3> DEFINE c == sock[cur[w]].who
               m == [what |-> "request", from |-> c, to |-> sock[r.client_fd]]
    <3>3. cur[w] \in watch[w] /\ cur[w] \in Fds /\ established[w][cur[w]] = r.id
      BY <3>1, <3>2 DEF IInv, TypeOK, EventInv, Handling, Current
    <3>4. sock[cur[w]].kind = "client" /\ c \in Conns /\ life[c] = "open"
      BY <3>3, SockFacts DEF IInv, WatchInv, LifeInv
    <3>5. r.client_fd \in Fds /\ sock[r.client_fd].who = c
      <4>1. r.client_fd # NoFd
        BY <3>1, <3>3 DEF IInv, LinkInv, UpstreamInv
      <4> QED
        BY <3>3, <4>1 DEF IInv, TypeOK, ReverseClients, LinkInv
    <3>6. m \in Writes /\ m.what = "request" /\ m.from = c /\ m.to.who = c
      BY <3>4, <3>5 DEF IInv, TypeOK, Writes
    <3>7. traffic' = traffic \cup {<<"request", c, c>>}
      BY <3>2, <3>6, TrafficGrows
    <3>8. G!ForwardRequest(c)
      BY <3>1, <3>4, <3>7 DEF G!ForwardRequest
    <3> QED
      BY <3>4, <3>8 DEF G!GNext
  <2>6. CASE Answer(w)
    <3>1. pc[w] = "answer" /\ UNCHANGED life
      BY <2>6 DEF Answer
    <3>2. PICK r \in rclients[w] :
            Current(w, r) /\ \E got \in Outcomes(r) : Relay(r, got, "handler")
      BY <2>6 DEF Answer
    <3>3. cur[w] \in watch[w] /\ established[w][cur[w]] = r.id
      BY <3>1, <3>2 DEF IInv, EventInv, Handling, Current
    <3>4. r.connected
      BY <3>1, <3>3 DEF IInv, LinkInv
    <3> QED
      BY <3>1, <3>2, <3>3, <3>4, RelayIsReply
  <2>7. CASE Proxy(w) /\ ~Forward(w) /\ ~Answer(w)
    BY <2>7, Invisible
       DEF Proxy, ConnectAlready, ConnectNoFd, ConnectTry, ForwardFails
  <2>8. CASE CloseFd(w)
    <3> DEFINE c == sock[cur[w]].who
    <3>1. pc[w] = "close"
      BY <2>8 DEF CloseFd
    <3>2. cur[w] \in watch[w] /\ cur[w] \in Fds
      BY <3>1 DEF IInv, TypeOK, EventInv, Handling
    <3>3. established[w][cur[w]] # 0 /\ sock[cur[w]].kind = "client"
      BY <3>2 DEF IInv, WatchInv
    <3>4. c \in Conns /\ life[c] = "open"
      BY <3>2, <3>3, SockFacts DEF IInv, LifeInv
    <3>5. life' = [life EXCEPT ![c] = "closed"] /\ UNCHANGED traffic
      BY <2>8, <3>2, <3>3 DEF CloseFd, Registered, traffic
    <3> QED
      BY <3>4, <3>5 DEF G!Finish, G!GNext
  <2>9. CASE EraseClient(w)
    BY <2>9, Invisible DEF EraseClient
  <2>10. CASE TimerRelay(w)
    <3>1. PICK r \in todo[w] :
            r.connected /\ \E got \in Outcomes(r) : Relay(r, got, "timer")
      BY <2>10 DEF TimerRelay
    <3>2. r \in rclients[w] /\ \E f \in watch[w] : established[w][f] = r.id
      BY DEF IInv, TodoInv
    <3>3. UNCHANGED life
      BY <2>10 DEF TimerRelay
    <3> QED
      BY <3>1, <3>2, <3>3, RelayIsReply
  <2>11. CASE Housekeeping(w) /\ ~TimerRelay(w)
    BY <2>11, Invisible
       DEF Housekeeping, TimerNotDue, TimerClear, TimerDone, Ping, Sweep, SweepDone
  <2> QED
    BY <1>3, <2>1, <2>2, <2>3, <2>4, <2>5, <2>6, <2>7, <2>8, <2>9, <2>10, <2>11
       DEF Worker, Loop, Cleanup
<1> QED
  BY <1>1, <1>2, <1>3 DEF Next

\* The workers implement Gateway.tla: a connection is queued, served and closed
\* once and in that order, and only an open connection whose own request went
\* upstream is given a reply.
THEOREM ServerImplementsGateway == Spec => GatewaySpec
<1>1. Init => G!GInit
  BY DEF Init, G!GInit, traffic
<1>2. IInv /\ [Next]_vars => [G!GNext]_(G!gvars)
  BY StepRefines
<1> QED
  BY <1>1, <1>2, ServerInvariant, PTL DEF Spec, GatewaySpec, G!GSpec
-----------------------------------------------------------------------------
(* Clients that ask for nothing are left alone                             *)

\* A client that has ended its connection or sent something.
Asked(c) == peer[c] # "open" \/ sent[c] > 0

\* Whoever is being handled, or was found by the ping pass, asked for it.
QuietInv ==
    /\ \A c \in Conns : rx[c] # "none" => sent[c] > 0
    /\ \A w \in Workers : pc[w] \in Handling => Asked(sock[cur[w]].who)
    /\ \A w \in Workers : \A f \in doomed[w] : Asked(sock[f].who)

\* A descriptor stays the same connection while its worker watches it.
SocksKept ==
    \A w \in Workers : \A f \in watch[w] : f \in watch'[w] => sock'[f] = sock[f]

LEMMA QuietStep ==
    ASSUME IInv, IInv', QuietInv, SocksKept,
           \A c \in Conns : Asked(c) => Asked(c)',
           \A c \in Conns : rx'[c] # "none" => sent'[c] > 0,
           \A v \in Workers : pc'[v] \in Handling =>
                cur'[v] \in watch[v] /\ Asked(sock[cur'[v]].who),
           \A v \in Workers : \A f \in doomed'[v] : f \in watch[v] /\ Asked(sock[f].who)
    PROVE  QuietInv'
<1>1. ASSUME NEW v \in Workers, NEW f \in watch[v], f \in watch'[v], Asked(sock[f].who)
      PROVE  (peer'[sock'[f].who] # "open" \/ sent'[sock'[f].who] > 0)
  <2>1. f \in Fds /\ sock[f].kind = "client"
    BY DEF IInv, TypeOK, WatchInv
  <2>2. sock[f].who \in Conns
    BY <2>1, SockFacts DEF IInv
  <2>3. sock'[f] = sock[f]
    BY <1>1 DEF SocksKept
  <2> QED
    BY <1>1, <2>2, <2>3 DEF Asked
<1>2. ASSUME NEW v \in Workers, pc'[v] \in Handling
      PROVE  (peer'[sock'[cur'[v]].who] # "open" \/ sent'[sock'[cur'[v]].who] > 0)
  <2>1. cur'[v] \in watch'[v]
    BY <1>2 DEF IInv, EventInv
  <2> QED
    BY <1>1, <1>2, <2>1
<1>3. ASSUME NEW v \in Workers, NEW f \in doomed'[v]
      PROVE  (peer'[sock'[f].who] # "open" \/ sent'[sock'[f].who] > 0)
  <2>1. f \in watch'[v]
    BY DEF IInv, EventInv
  <2> QED
    BY <1>1, <2>1
<1> QED
  BY <1>2, <1>3 DEF QuietInv, Asked

\* A step of worker w that picks no new connection to handle or to sweep.
LEMMA QuietPlain ==
    ASSUME IInv, IInv', QuietInv, SocksKept, NEW w \in Workers,
           UNCHANGED <<peer, sent, doomed>>,
           \A c \in Conns : rx'[c] = rx[c] \/ rx'[c] = "none",
           \A v \in Workers : v # w => pc'[v] = pc[v] /\ cur'[v] = cur[v],
           pc'[w] \in Handling => pc[w] \in Handling /\ cur'[w] = cur[w]
    PROVE  QuietInv'
<1>1. \A c \in Conns : Asked(c) => Asked(c)'
  BY DEF Asked
<1>2. \A c \in Conns : rx'[c] # "none" => sent'[c] > 0
  BY DEF QuietInv
<1>3. ASSUME NEW v \in Workers, pc'[v] \in Handling
      PROVE  cur'[v] \in watch[v] /\ Asked(sock[cur'[v]].who)
  <2>1. pc[v] \in Handling /\ cur'[v] = cur[v]
    BY <1>3
  <2> QED
    BY <2>1 DEF IInv, EventInv, QuietInv
<1>4. \A v \in Workers : \A f \in doomed'[v] : f \in watch[v] /\ Asked(sock[f].who)
  BY DEF IInv, EventInv, QuietInv
<1> QED
  BY <1>1, <1>2, <1>3, <1>4, QuietStep
\* Sockets are made out of free descriptors, and the only one that a worker
\* watches and closes is the one it stops watching.
LEMMA SocksAreKept ==
    ASSUME IInv, Next
    PROVE  SocksKept
<1> USE DEF SocksKept
<1>1. \A v \in Workers : \A f \in watch[v] : f \in Fds /\ sock[f].kind = "client"
  BY DEF IInv, TypeOK, WatchInv
<1>2. \A v \in Workers : \A r \in rclients[v] : \A u \in Workers : r.client_fd \notin watch[u]
  BY <1>1, ConstantsDistinct DEF IInv, UpstreamInv
<1>3. \A f \in Fds : sock[f] = FreeSock => \A v \in Workers : f \notin watch[v]
  BY <1>1 DEF FreeSock
<1>4. sock \in [Fds -> Socks]
  BY DEF IInv, TypeOK
<1>5. CASE UNCHANGED sock
  BY <1>5
<1>6. CASE Environment
  BY <1>5, <1>6
     DEF Environment, Connect, ClientSends, ClientEnds, UpstreamReplies, UpstreamCloses
<1>7. ASSUME NEW w \in Workers, Worker(w)
      PROVE  SocksKept
  <2>1. CASE EpollWait(w) \/ EpollTimesOut(w) \/ EpollFails(w)
    BY <1>5, <2>1 DEF EpollWait, EpollTimesOut, EpollFails
  <2>2. CASE Dispatch(w)
    BY <1>5, <2>2
       DEF Dispatch, DispatchAccept, DispatchDone, HandleClose, HandleLocal, HandleProxy
  <2>3. CASE AcceptOne(w)
    <3>1. PICK f \in Fds, c \in backlog[w] :
            sock[f] = FreeSock /\ sock' = [sock EXCEPT ![f] = ClientSock(c)]
      BY <2>3 DEF AcceptOne, Lowest
    <3> QED
      BY <1>1, <1>3, <1>4, <3>1
  <2>4. CASE Accept(w) /\ ~AcceptOne(w)
    BY <1>5, <2>4 DEF Accept, LockAccept, Emplace, AcceptDone, AcceptFails, vars
  <2>5. ASSUME NEW ok \in BOOLEAN, ConnectTry(w, ok)
        PROVE  SocksKept
    <3>1. PICK r \in rclients[w], f \in Fds :
            /\ WithoutOld(r)[f] = FreeSock
            /\ sock' = [WithoutOld(r) EXCEPT ![f] = UpstreamSock(sock[cur[w]].who)]
      BY <2>5 DEF ConnectTry, Lowest
    <3>2. \A v \in Workers : f \notin watch[v]
      BY <1>2, <1>3, <3>1 DEF WithoutOld
    <3> QED
      BY <1>1, <1>2, <3>1, <3>2 DEF WithoutOld
  <2>6. CASE ConnectNoFd(w)
    <3>1. PICK r \in rclients[w] : sock' = WithoutOld(r)
      BY <2>6 DEF ConnectNoFd
    <3> QED
      BY <1>1, <1>2, <3>1 DEF WithoutOld
  <2>7. CASE Proxy(w) /\ ~ConnectNoFd(w) /\ ~(\E ok \in BOOLEAN : ConnectTry(w, ok))
    BY <1>5, <2>7 DEF Proxy, ConnectAlready, Forward, ForwardFails, Answer
  <2>8. CASE CloseFd(w)
    <3>1. cur[w] \in watch[w]
      BY <2>8 DEF CloseFd, IInv, EventInv, Handling
    <3>2. CASE cur[w] \notin Registered(w)
      BY <1>5, <2>8, <3>2 DEF CloseFd
    <3>3. CASE cur[w] \in Registered(w)
      <4>1. /\ watch' = [watch EXCEPT ![w] = @ \ {cur[w]}]
            /\ sock' = [sock EXCEPT ![cur[w]] = FreeSock]
        BY <2>8, <3>3 DEF CloseFd, EpollDel
      <4>2. \A v \in Workers : cur[w] \notin watch'[v]
        <5>1. watch \in [Workers -> SUBSET Fds]
          BY DEF IInv, TypeOK
        <5>2. \A v \in Workers : v # w => cur[w] \notin watch[v]
          BY <1>1, <3>1 DEF IInv, WatchInv
        <5> QED
          BY <4>1, <5>1, <5>2
      <4> QED
        BY <1>1, <1>4, <4>1, <4>2
    <3> QED
      BY <3>2, <3>3
  <2>9. CASE EraseClient(w)
    BY <1>5, <2>9 DEF EraseClient
  <2>10. CASE TimerClear(w)
    <3>1. PICK S \in SUBSET rclients[w] :
            sock' = [f \in Fds |-> IF f \in UpstreamFds(S) THEN FreeSock ELSE sock[f]]
      BY <2>10 DEF TimerClear
    <3>2. \A v \in Workers : \A f \in watch[v] : f \notin UpstreamFds(S)
      BY <1>2 DEF UpstreamFds
    <3> QED
      BY <1>1, <3>1, <3>2
  <2>11. CASE Housekeeping(w) /\ ~TimerClear(w)
    BY <1>5, <2>11
       DEF Housekeeping, TimerNotDue, TimerRelay, TimerDone, Ping, Sweep, SweepDone
  <2> QED
    BY <1>7, <2>1, <2>2, <2>3, <2>4, <2>5, <2>6, <2>7, <2>8, <2>9, <2>10, <2>11
       DEF Worker, Loop, Cleanup, Proxy
<1> QED
  BY <1>6, <1>7 DEF Next
\* What the clients and the upstreams do only makes more clients ask.
LEMMA QuietEnvironment ==
    ASSUME IInv, IInv', QuietInv, SocksKept, Environment
    PROVE  QuietInv'
<1>1. UNCHANGED <<pc, cur, doomed>>
  BY DEF Environment, Connect, ClientSends, ClientEnds, UpstreamReplies, UpstreamCloses
<1>2. /\ \A c \in Conns : peer[c] # "open" => peer'[c] # "open"
      /\ \A c \in Conns : sent[c] > 0 => sent'[c] > 0
      /\ \A c \in Conns : rx'[c] # "none" => sent'[c] > 0
  <2> DEFINE Goal == /\ \A c \in Conns : peer[c] # "open" => peer'[c] # "open"
                     /\ \A c \in Conns : sent[c] > 0 => sent'[c] > 0
                     /\ \A c \in Conns : rx'[c] # "none" => sent'[c] > 0
  <2>1. CASE UNCHANGED <<rx, peer, sent>>
    BY <2>1 DEF QuietInv
  <2>2. ASSUME NEW d \in Conns, NEW k \in Kinds, ClientSends(d, k)
        PROVE  Goal
    <3>1. /\ peer' = peer
          /\ rx' = [rx EXCEPT ![d] = k]
          /\ sent' = [sent EXCEPT ![d] = @ + 1]
      BY <2>2 DEF ClientSends
    <3>2. sent \in [Conns -> Nat] /\ rx \in [Conns -> Kinds \cup {"none"}]
      BY DEF IInv, TypeOK
    <3>3. sent'[d] > 0 /\ \A c \in Conns : c # d => sent'[c] = sent[c] /\ rx'[c] = rx[c]
      BY <3>1, <3>2
    <3> QED
      BY <3>1, <3>3 DEF QuietInv
  <2>3. ASSUME NEW d \in Conns, NEW how \in {"fin", "rst"}, ClientEnds(d, how)
        PROVE  Goal
    BY <2>3 DEF ClientEnds, QuietInv, IInv, TypeOK
  <2> QED
    BY <2>1, <2>2, <2>3 DEF Environment, Connect, UpstreamReplies, UpstreamCloses
<1>3. \A c \in Conns : Asked(c) => Asked(c)'
  BY <1>2 DEF Asked
<1>4. \A v \in Workers : pc'[v] \in Handling => cur'[v] \in watch[v] /\ Asked(sock[cur'[v]].who)
  BY <1>1 DEF IInv, EventInv, QuietInv
<1>5. \A v \in Workers : \A f \in doomed'[v] : f \in watch[v] /\ Asked(sock[f].who)
  BY <1>1 DEF IInv, EventInv, QuietInv
<1> QED
  BY <1>2, <1>3, <1>4, <1>5, QuietStep

\* handle_client goes on with a connection only if it ended or sent something.
LEMMA QuietHandle ==
    ASSUME IInv, IInv', QuietInv, SocksKept, NEW w \in Workers, NEW f \in Fds,
           HandleClose(w, f) \/ HandleProxy(w, f)
    PROVE  QuietInv'
<1>1. /\ UNCHANGED <<peer, sent, doomed>>
      /\ f \in batch[w]
      /\ cur' = [cur EXCEPT ![w] = f]
      /\ pc' = [pc EXCEPT ![w] = "close"] \/ pc' = [pc EXCEPT ![w] = "connect"]
  BY DEF HandleClose, HandleProxy
<1>2. f \in watch[w]
  BY <1>1, ConstantsDistinct DEF IInv, EventInv
<1>3. f \in Registered(w) /\ sock[f].who \in Conns
  BY <1>2, SockFacts DEF IInv, WatchInv, Registered
<1>4. Asked(sock[f].who)
  <2>1. peer[sock[f].who] # "open" \/ rx[sock[f].who] = "bad" \/ rx[sock[f].who] = "proxy"
    BY <1>3 DEF HandleClose, HandleProxy
  <2> QED
    BY <1>3, <2>1 DEF Asked, QuietInv
<1>5. \A c \in Conns : rx'[c] = rx[c] \/ rx'[c] = "none"
  BY DEF HandleClose, HandleProxy, IInv, TypeOK
<1>6. \A c \in Conns : Asked(c) => Asked(c)'
  BY <1>1 DEF Asked
<1>7. \A c \in Conns : rx'[c] # "none" => sent'[c] > 0
  BY <1>1, <1>5 DEF QuietInv
<1>8. cur'[w] = f /\ \A v \in Workers : v # w => pc'[v] = pc[v] /\ cur'[v] = cur[v]
  BY <1>1 DEF IInv, TypeOK
<1>9. \A v \in Workers : pc'[v] \in Handling => cur'[v] \in watch[v] /\ Asked(sock[cur'[v]].who)
  BY <1>2, <1>4, <1>8 DEF IInv, EventInv, QuietInv
<1>10. \A v \in Workers : \A g \in doomed'[v] : g \in watch[v] /\ Asked(sock[g].who)
  BY <1>1 DEF IInv, EventInv, QuietInv
<1> QED
  BY <1>6, <1>7, <1>9, <1>10, QuietStep

\* The ping pass finds clients whose connection was reset and closes those.
LEMMA QuietPing ==
    ASSUME IInv, IInv', QuietInv, SocksKept, NEW w \in Workers, Ping(w) \/ Sweep(w)
    PROVE  QuietInv'
<1>1. UNCHANGED <<peer, sent, rx>>
  BY DEF Ping, Sweep
<1>2. \A c \in Conns : Asked(c) => Asked(c)'
  BY <1>1 DEF Asked
<1>3. \A c \in Conns : rx'[c] # "none" => sent'[c] > 0
  BY <1>1 DEF QuietInv
<1>4. CASE Ping(w)
  <2>1. PICK idle \in SUBSET Registered(w) : doomed' = [doomed EXCEPT ![w] = ClearFds(idle)]
    BY <1>4 DEF Ping
  <2>2. pc[w] = "ping" /\ cur' = cur /\ pc' = [pc EXCEPT ![w] = "sweep"]
    BY <1>4 DEF Ping
  <2>3. ASSUME NEW f \in ClearFds(idle)
        PROVE  f \in watch[w] /\ Asked(sock[f].who)
    <3>1. f \in Fds /\ f \in watch[w]
      BY <2>1, <2>2 DEF ClearFds, Registered, IInv, WatchInv
    <3>2. ~SendOk(f)
      BY DEF ClearFds
    <3>3. sock[f] # FreeSock
      BY <3>1 DEF IInv, WatchInv, FreeSock
    <3> QED
      BY <3>1, <3>2, <3>3 DEF SendOk, Asked
  <2>4. \A v \in Workers : \A f \in doomed'[v] : f \in watch[v] /\ Asked(sock[f].who)
    BY <2>1, <2>3 DEF IInv, TypeOK, EventInv, QuietInv
  <2>5. \A v \in Workers : pc'[v] \in Handling => cur'[v] \in watch[v] /\ Asked(sock[cur'[v]].who)
    BY <2>2 DEF IInv, TypeOK, EventInv, QuietInv, Handling
  <2> QED
    BY <1>2, <1>3, <2>4, <2>5, QuietStep
<1>5. CASE Sweep(w)
  <2>1. PICK f \in doomed[w] : /\ doomed' = [doomed EXCEPT ![w] = @ \ {f}]
                               /\ cur' = [cur EXCEPT ![w] = f]
    BY <1>5 DEF Sweep
  <2>2. pc' = [pc EXCEPT ![w] = "close"]
    BY <1>5 DEF Sweep
  <2>3. f \in watch[w] /\ Asked(sock[f].who)
    BY <2>1 DEF IInv, EventInv, QuietInv
  <2>4. \A v \in Workers : \A g \in doomed'[v] : g \in watch[v] /\ Asked(sock[g].who)
    BY <2>1 DEF IInv, TypeOK, EventInv, QuietInv
  <2>5. cur'[w] = f /\ \A v \in Workers : v # w => pc'[v] = pc[v] /\ cur'[v] = cur[v]
    BY <2>1, <2>2 DEF IInv, TypeOK
  <2>6. \A v \in Workers : pc'[v] \in Handling => cur'[v] \in watch[v] /\ Asked(sock[cur'[v]].who)
    BY <2>3, <2>5 DEF IInv, EventInv, QuietInv
  <2> QED
    BY <1>2, <1>3, <2>4, <2>6, QuietStep
<1> QED
  BY <1>4, <1>5
\* Every other step of a worker goes on with the connection it has, or lets
\* go of it.
LEMMA QuietWorker ==
    ASSUME IInv, IInv', QuietInv, SocksKept, NEW w \in Workers, Worker(w)
    PROVE  QuietInv'
<1> DEFINE Plain ==
        /\ UNCHANGED <<peer, sent, doomed>>
        /\ \A c \in Conns : rx'[c] = rx[c] \/ rx'[c] = "none"
        /\ \A v \in Workers : v # w => pc'[v] = pc[v] /\ cur'[v] = cur[v]
        /\ pc'[w] \in Handling => pc[w] \in Handling /\ cur'[w] = cur[w]
<1>1. pc \in [Workers -> Labels] /\ cur \in [Workers -> Fds \cup {NoFd}]
      /\ rx \in [Conns -> Kinds \cup {"none"}] /\ ret \in [Workers -> {"dispatch", "sweep"}]
  BY DEF IInv, TypeOK
<1>2. CASE EpollWait(w) \/ EpollTimesOut(w) \/ EpollFails(w)
  <2>1. Plain
    BY <1>1, <1>2 DEF EpollWait, EpollTimesOut, EpollFails, Handling
  <2> QED
    BY <2>1, QuietPlain
<1>3. CASE DispatchAccept(w) \/ DispatchDone(w) \/ \E f \in Fds : HandleLocal(w, f)
  <2>1. Plain
    BY <1>1, <1>3 DEF DispatchAccept, DispatchDone, HandleLocal, Handling
  <2> QED
    BY <2>1, QuietPlain
<1>4. CASE \E f \in Fds : HandleClose(w, f) \/ HandleProxy(w, f)
  BY <1>4, QuietHandle
<1>5. CASE Accept(w)
  <2>1. Plain
    BY <1>1, <1>5
       DEF Accept, LockAccept, AcceptOne, Emplace, AcceptDone, AcceptFails, vars, Handling
  <2> QED
    BY <2>1, QuietPlain
<1>6. CASE Proxy(w)
  <2>1. Plain
    BY <1>1, <1>6
       DEF Proxy, ConnectAlready, ConnectNoFd, ConnectTry, AfterConnect, Forward,
           ForwardFails, Answer, Handling
  <2> QED
    BY <2>1, QuietPlain
<1>7. CASE Cleanup(w)
  <2>1. Plain
    BY <1>1, <1>7 DEF Cleanup, CloseFd, EraseClient, Handling
  <2> QED
    BY <2>1, QuietPlain
<1>8. CASE Ping(w) \/ Sweep(w)
  BY <1>8, QuietPing
<1>9. CASE TimerNotDue(w) \/ TimerClear(w) \/ TimerRelay(w) \/ TimerDone(w) \/ SweepDone(w)
  <2>1. Plain
    BY <1>1, <1>9
       DEF TimerNotDue, TimerClear, TimerRelay, TimerDone, SweepDone, Handling
  <2> QED
    BY <2>1, QuietPlain
<1> QED
  BY <1>2, <1>3, <1>4, <1>5, <1>6, <1>7, <1>8, <1>9 DEF Worker, Loop, Dispatch, Housekeeping

\* Whoever is about to be closed asked for it, whatever the workers do.
LEMMA QuietKept == IInv /\ IInv' /\ QuietInv /\ [Next]_vars => QuietInv'
<1> SUFFICES ASSUME IInv, IInv', QuietInv, [Next]_vars PROVE QuietInv'
  OBVIOUS
<1>1. CASE UNCHANGED vars
  BY <1>1 DEF vars, QuietInv, Asked
<1>2. CASE Next
  <2>1. SocksKept
    BY <1>2, SocksAreKept
  <2> QED
    BY <1>2, <2>1, QuietEnvironment, QuietWorker DEF Next
<1> QED
  BY <1>1, <1>2

\* A connection is only ever closed by the worker that handles it.
LEMMA ClosedWhenHandled ==
    ASSUME IInv, [Next]_vars, NEW c \in Conns, life[c] = "open", life'[c] = "closed"
    PROVE  \E w \in Workers : pc[w] = "close" /\ c = sock[cur[w]].who
<1> USE DEF IInv, TypeOK
<1>1. life \in [Conns -> {"none", "queued", "open", "closed"}]
  OBVIOUS
<1>2. CASE UNCHANGED life
  BY <1>2
<1>3. CASE Environment
  BY <1>1, <1>2, <1>3, ZenonT(30)
     DEF Environment, Connect, ClientSends, ClientEnds, UpstreamReplies, UpstreamCloses
<1>4. ASSUME NEW w \in Workers, Worker(w), ~(UNCHANGED life)
      PROVE  pc[w] = "close" /\ c = sock[cur[w]].who
  <2>1. CASE AcceptOne(w)
    <3>1. PICK d \in backlog[w] : life' = [life EXCEPT ![d] = "open"]
      BY <2>1 DEF AcceptOne
    <3> QED
      BY <1>1, <3>1
  <2>2. CASE CloseFd(w)
    <3>1. pc[w] = "close" /\ life' = [life EXCEPT ![sock[cur[w]].who] = "closed"]
      BY <1>4, <2>2 DEF CloseFd
    <3> QED
      BY <1>1, <3>1
  <2>3. CASE EpollWait(w) \/ EpollTimesOut(w) \/ EpollFails(w) \/ Dispatch(w)
    BY <1>4, <2>3
       DEF EpollWait, EpollTimesOut, EpollFails, Dispatch, DispatchAccept, DispatchDone, HandleClose,
           HandleLocal, HandleProxy
  <2>4. CASE LockAccept(w) \/ Emplace(w) \/ AcceptDone(w) \/ AcceptFails(w)
    BY <1>4, <2>4 DEF LockAccept, Emplace, AcceptDone, AcceptFails, vars
  <2>5. CASE Proxy(w) \/ EraseClient(w)
    BY <1>4, <2>5
       DEF Proxy, ConnectAlready, ConnectNoFd, ConnectTry, Forward, ForwardFails, Answer,
           EraseClient
  <2>6. CASE Housekeeping(w)
    BY <1>4, <2>6
       DEF Housekeeping, TimerNotDue, TimerClear, TimerRelay, TimerDone, Ping, Sweep,
           SweepDone
  <2> QED
    BY <1>4, <2>1, <2>2, <2>3, <2>4, <2>5, <2>6 DEF Worker, Loop, Accept, Cleanup
<1> QED
  BY <1>2, <1>3, <1>4 DEF Next, vars

\* Server::cleanup_connection is only ever reached for a client that ended its
\* connection or sent something: no worker closes a quiet one, neither by way
\* of a stale event, nor of a reused descriptor, nor of the ping pass.
THEOREM QuietClientsAlwaysKept == Spec => QuietClientsKept
<1>1. Init => QuietInv
  BY DEF Init, QuietInv, Handling
<1>2. IInv /\ IInv' /\ QuietInv /\ [Next]_vars => QuietInv'
  BY QuietKept
<1>3. IInv /\ QuietInv /\ [Next]_vars =>
        [\A c \in Conns : (life[c] = "open" /\ life'[c] = "closed")
            => (peer[c] # "open" \/ sent[c] > 0)]_vars
  <2> SUFFICES ASSUME IInv, QuietInv, [Next]_vars, NEW c \in Conns,
                      life[c] = "open", life'[c] = "closed"
               PROVE  peer[c] # "open" \/ sent[c] > 0
    OBVIOUS
  <2>1. PICK w \in Workers : pc[w] = "close" /\ c = sock[cur[w]].who
    BY ClosedWhenHandled
  <2> QED
    BY <2>1 DEF QuietInv, Handling, Asked
<1> QED
  BY <1>1, <1>2, <1>3, ServerInvariant, PTL DEF Spec, QuietClientsKept
=============================================================================
