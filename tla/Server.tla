------------------------------- MODULE Server -------------------------------
(***************************************************************************)
(* The worker event loop of MiniNginx (src/server.cpp) together with the   *)
(* reverse proxy module (src/modules/reverse_proxy.cpp) that runs inside   *)
(* it.                                                                     *)
(*                                                                         *)
(* Every worker is one thread running Server::run: it waits on its own     *)
(* epoll object, accepts from its own SO_REUSEPORT listening socket,       *)
(* handles client events one by one, lets the modules' timers run, pings   *)
(* idle clients and starts again.  Workers share the process: the table of *)
(* file descriptors, the static mutex accept_lock and the static counter   *)
(* ClientInfo::max_client_id.                                              *)
(*                                                                         *)
(* The kernel is external and modelled from the way the code uses it: an   *)
(* accept queue per listening socket, level-triggered readiness of the     *)
(* listening socket, edge-triggered readiness of a client socket, and a    *)
(* process-wide set of descriptors that are reused as soon as they are     *)
(* closed.  Bytes are abstracted to the kind of thing they make the        *)
(* handler do (Kinds).                                                     *)
(***************************************************************************)
EXTENDS Naturals, FiniteSets

CONSTANTS
    Workers,     \* the worker threads
    Conns,       \* the TCP connections clients may open, each one once
    Fds,         \* the descriptors the process may use for sockets
    NoWorker,    \* accept_lock is free
    NoConn,      \* the owner of a free descriptor
    NoFd,        \* the value -1 of a descriptor variable
    ListenFd,    \* server_fd, as it appears in an epoll event
    MaxEvents,   \* config.epoll_event_list_size
    SlowClients, \* the clients that may stop reading: their socket fills up
    MaxSends     \* bound: how many times a client sends

ASSUME ConstantsDistinct ==
    /\ NoWorker \notin Workers
    /\ NoConn \notin Conns
    /\ NoFd \notin Fds
    /\ ListenFd \notin Fds
    /\ Fds \subseteq Nat
    /\ MaxEvents \in Nat \ {0}
    /\ SlowClients \subseteq Conns
    /\ MaxSends \in Nat

VARIABLES
    \* --- kernel -----------------------------------------------------------
    sock,        \* sock[f]: what descriptor f refers to
    life,        \* life[c]: where connection c is between connect and close
    backlog,     \* backlog[w]: connections queued on w's listening socket
    rx,          \* rx[c]: what the unread bytes of c amount to
    peer,        \* peer[c]: "open", or how the client ended the connection
    sent,        \* sent[c]: how many times the client has sent
    watch,       \* watch[w]: client descriptors in w's epoll interest list
    ready,       \* ready[w]: the ones of them on its ready list
    up,          \* up[f]: the upstream end of an upstream socket f
    \* --- shared by the workers ---------------------------------------------
    accept_lock,
    max_client_id,
    \* --- one per worker ----------------------------------------------------
    pc,          \* where the thread is in Server::run
    batch,       \* the events of the last epoll_wait not yet handled
    cur,         \* client_fd of the handler, or fd of cleanup_connection
    newId,       \* the id ClientInfo's constructor is computing
    ret,         \* where cleanup_connection returns to
    established, \* establishedClients: fd |-> client_id, 0 when absent
    rclients,    \* ModReverseProxy::proxy.clients
    todo,        \* the ReverseClients module_timer has still to visit
    doomed,      \* clear_fds of the ping pass
    \* --- history, for the properties ---------------------------------------
    wire,        \* every write made on a proxied connection
    loss         \* loss[c]: how bytes of a reply to c were thrown away

kernel == <<sock, life, backlog, rx, peer, sent, watch, ready, up>>
shared == <<accept_lock, max_client_id>>
local  == <<pc, batch, cur, newId, ret, established, rclients, todo, doomed>>
history == <<wire, loss>>
vars   == <<kernel, shared, local, history>>

\* What a burst of client bytes makes handle_client do: nothing yet, answer
\* locally and keep the connection, refuse it (unparsable, 400, oversized, a
\* handler that returns Close), or pass it to the reverse proxy.
Kinds == {"more", "local", "bad", "proxy"}

Socks == [kind : {"free", "client", "upstream"}, who : Conns \cup {NoConn}]
FreeSock == [kind |-> "free", who |-> NoConn]
ClientSock(c) == [kind |-> "client", who |-> c]
UpstreamSock(c) == [kind |-> "upstream", who |-> c]

\* The far end of an upstream socket: whether it owes a reply, whether reply
\* bytes are waiting to be read, and whether it has closed.
UpStates == [owes : BOOLEAN, unread : BOOLEAN, fin : BOOLEAN]
UpInit == [owes |-> FALSE, unread |-> FALSE, fin |-> FALSE]

ReverseClients ==
    [id : Nat, reverse_fd : Fds, client_fd : Fds \cup {NoFd}, connected : BOOLEAN]

\* What may become of a reply that was waiting upstream: none of it is lost, a
\* send took only part of a chunk, or a send failed for want of room - in the
\* handler, which then closes, or in the timer, which does not.
Losses == {"none", "short", "handler", "timer"}

Writes == [what : {"request", "reply"}, from : Conns \cup {NoConn}, to : Socks]

Init ==
    /\ sock = [f \in Fds |-> FreeSock]
    /\ life = [c \in Conns |-> "none"]
    /\ backlog = [w \in Workers |-> {}]
    /\ rx = [c \in Conns |-> "none"]
    /\ peer = [c \in Conns |-> "open"]
    /\ sent = [c \in Conns |-> 0]
    /\ watch = [w \in Workers |-> {}]
    /\ ready = [w \in Workers |-> {}]
    /\ up = [f \in Fds |-> UpInit]
    /\ accept_lock = NoWorker
    /\ max_client_id = 0
    /\ pc = [w \in Workers |-> "wait"]
    /\ batch = [w \in Workers |-> {}]
    /\ cur = [w \in Workers |-> NoFd]
    /\ newId = [w \in Workers |-> 0]
    /\ ret = [w \in Workers |-> "dispatch"]
    /\ established = [w \in Workers |-> [f \in Fds |-> 0]]
    /\ rclients = [w \in Workers |-> {}]
    /\ todo = [w \in Workers |-> {}]
    /\ doomed = [w \in Workers |-> {}]
    /\ wire = {}
    /\ loss = [c \in Conns |-> "none"]

\* The kernel hands out the lowest free descriptor of a table.
Lowest(f, table) ==
    /\ table[f] = FreeSock
    /\ \A g \in Fds : table[g] = FreeSock => f <= g

FdsLeft == \E f \in Fds : sock[f] = FreeSock

Registered(w) == {f \in Fds : established[w][f] # 0}

-----------------------------------------------------------------------------
(* The clients and the upstream servers: the environment.                  *)

\* Connection c, if some worker's epoll watches it, goes (back) onto that
\* worker's ready list: an edge.
Edge(c) ==
    ready' = [w \in Workers |->
                ready[w] \cup {f \in watch[w] : sock[f] = ClientSock(c)}]

Connect(c, w) ==
    /\ life[c] = "none"
    /\ life' = [life EXCEPT ![c] = "queued"]
    /\ backlog' = [backlog EXCEPT ![w] = @ \cup {c}]
    /\ UNCHANGED <<sock, rx, peer, sent, watch, ready, up, shared, local, history>>

ClientSends(c, k) ==
    /\ life[c] \in {"queued", "open"}
    /\ peer[c] = "open"
    /\ rx[c] = "none"
    /\ sent[c] < MaxSends
    /\ rx' = [rx EXCEPT ![c] = k]
    /\ sent' = [sent EXCEPT ![c] = @ + 1]
    /\ Edge(c)
    /\ UNCHANGED <<sock, life, backlog, peer, watch, up, shared, local, history>>

\* The client closes (FIN) or the connection is reset (RST).
ClientEnds(c, how) ==
    /\ life[c] \in {"queued", "open"}
    /\ peer[c] = "open"
    /\ peer' = [peer EXCEPT ![c] = how]
    /\ Edge(c)
    /\ UNCHANGED <<sock, life, backlog, rx, sent, watch, up, shared, local, history>>

UpstreamReplies(f) ==
    /\ sock[f].kind = "upstream"
    /\ up[f].owes /\ ~up[f].fin
    /\ up' = [up EXCEPT ![f] = [@ EXCEPT !.owes = FALSE, !.unread = TRUE]]
    /\ UNCHANGED <<sock, life, backlog, rx, peer, sent, watch, ready, shared, local,
                   history>>

UpstreamCloses(f) ==
    /\ sock[f].kind = "upstream"
    /\ ~up[f].fin
    /\ up' = [up EXCEPT ![f] = [@ EXCEPT !.fin = TRUE]]
    /\ UNCHANGED <<sock, life, backlog, rx, peer, sent, watch, ready, shared, local,
                   history>>

-----------------------------------------------------------------------------
(* Server::run: one round of the loop is                                   *)
(*   wait - dispatch* - timer - relay* - ping - sweep* - wait              *)

Goto(w, label) == pc' = [pc EXCEPT ![w] = label]

\* What epoll_wait can report: the listening socket is level triggered, a
\* client socket is reported once per edge.
Reportable(w) == ready[w] \cup (IF backlog[w] # {} THEN {ListenFd} ELSE {})

EpollWait(w) ==
    /\ pc[w] = "wait"
    /\ Reportable(w) # {}
    /\ \E B \in SUBSET Reportable(w) :
         /\ B = Reportable(w) \/ Cardinality(B) = MaxEvents
         /\ Cardinality(B) <= MaxEvents
         /\ batch' = [batch EXCEPT ![w] = B]
         /\ ready' = [ready EXCEPT ![w] = @ \ B]
    /\ Goto(w, "dispatch")
    /\ UNCHANGED <<sock, life, backlog, rx, peer, sent, watch, up, shared,
                   cur, newId, ret, established, rclients, todo, doomed, history>>

\* Nothing happens for config.epoll_wait_interval_ms: an empty list of events.
EpollTimesOut(w) ==
    /\ pc[w] = "wait"
    /\ Reportable(w) = {}
    /\ Goto(w, "dispatch")
    /\ UNCHANGED <<kernel, shared, batch, cur, newId, ret, established,
                   rclients, todo, doomed, history>>

\* epoll_wait returned -1 (EINTR): no events this round.
EpollFails(w) ==
    /\ pc[w] = "wait"
    /\ Goto(w, "timer")
    /\ UNCHANGED <<kernel, shared, batch, cur, newId, ret, established,
                   rclients, todo, doomed, history>>

\* Mutant: the loop is left before the last event.
Mut_DispatchBreaks(w) ==
    /\ pc[w] = "dispatch"
    /\ batch' = [batch EXCEPT ![w] = {}]
    /\ Goto(w, "timer")
    /\ UNCHANGED <<kernel, shared, cur, newId, ret, established, rclients, todo,
                   doomed, history>>

\* The for loop over the events is done.
DispatchDone(w) ==
    /\ pc[w] = "dispatch" /\ batch[w] = {}
    /\ Goto(w, "timer")
    /\ UNCHANGED <<kernel, shared, batch, cur, newId, ret, established,
                   rclients, todo, doomed, history>>

-----------------------------------------------------------------------------
(* Server::accept_connections                                              *)

DispatchAccept(w) ==
    /\ pc[w] = "dispatch" /\ ListenFd \in batch[w]
    /\ batch' = [batch EXCEPT ![w] = @ \ {ListenFd}]
    /\ Goto(w, "lock")
    /\ UNCHANGED <<kernel, shared, cur, newId, ret, established, rclients,
                   todo, doomed, history>>

\* Mutant: no lock guard.
Mut_LockAccept(w) ==
    /\ pc[w] = "lock"
    /\ accept_lock' = w
    /\ Goto(w, "accept")
    /\ UNCHANGED <<kernel, max_client_id, batch, cur, newId, ret, established,
                   rclients, todo, doomed, history>>

LockAccept(w) ==
    /\ pc[w] = "lock"
    /\ accept_lock = NoWorker
    /\ accept_lock' = w
    /\ Goto(w, "accept")
    /\ UNCHANGED <<kernel, max_client_id, batch, cur, newId, ret, established,
                   rclients, todo, doomed, history>>

\* accept(2) succeeds; the ClientInfo constructor reads max_client_id for its
\* increment, which is not atomic.
AcceptOne(w) ==
    /\ pc[w] = "accept"
    /\ \E f \in Fds, c \in backlog[w] :
         /\ Lowest(f, sock)
         /\ sock' = [sock EXCEPT ![f] = ClientSock(c)]
         /\ life' = [life EXCEPT ![c] = "open"]
         /\ backlog' = [backlog EXCEPT ![w] = @ \ {c}]
         /\ cur' = [cur EXCEPT ![w] = f]
    /\ newId' = [newId EXCEPT ![w] = max_client_id + 1]
    /\ Goto(w, "emplace")
    /\ UNCHANGED <<rx, peer, sent, watch, ready, up, shared, batch, ret,
                   established, rclients, todo, doomed, history>>

\* ++max_client_id is stored, the client is emplaced (emplace keeps an entry
\* that is already there) and epoll.add reports what has already arrived.
Emplace(w) ==
    /\ pc[w] = "emplace"
    /\ max_client_id' = newId[w]
    /\ LET f == cur[w]
           c == sock[f].who
       IN  /\ established' = [established EXCEPT
                ![w][f] = IF @ = 0 THEN newId[w] ELSE @]
           /\ watch' = [watch EXCEPT ![w] = @ \cup {f}]
           /\ ready' = [ready EXCEPT ![w] =
                IF rx[c] # "none" \/ peer[c] # "open" THEN @ \cup {f} ELSE @]
    /\ cur' = [cur EXCEPT ![w] = NoFd]
    /\ newId' = [newId EXCEPT ![w] = 0]
    /\ Goto(w, "accept")
    /\ UNCHANGED <<sock, life, backlog, rx, peer, sent, up, accept_lock,
                   batch, ret, rclients, todo, doomed, history>>

\* Mutant: EAGAIN is treated like every other error.
Mut_AcceptDone(w) ==
    /\ pc[w] = "accept"
    /\ backlog[w] = {} /\ FdsLeft
    /\ UNCHANGED vars

\* accept(2) says EAGAIN: the loop ends and the lock guard goes.
AcceptDone(w) ==
    /\ pc[w] = "accept"
    /\ backlog[w] = {} /\ FdsLeft
    /\ accept_lock' = NoWorker
    /\ Goto(w, "dispatch")
    /\ UNCHANGED <<kernel, max_client_id, batch, cur, newId, ret, established,
                   rclients, todo, doomed, history>>

\* Any other error is logged and the loop goes round again, the lock held.
\* The kernel reserves the descriptor before it looks at the queue, so at the
\* limit (EMFILE) accept fails whether or not a connection is queued.
AcceptFails(w) ==
    /\ pc[w] = "accept"
    /\ ~FdsLeft
    /\ UNCHANGED vars

-----------------------------------------------------------------------------
(* Server::handle_client and Server::handle_pending_request                *)

\* handle_client decides to close: the peer has ended the connection (what it
\* sent before the FIN is dropped), what it sent is refused, or - the branch
\* marked "no way!" - the descriptor is not registered.
HandleClose(w, f) ==
    /\ pc[w] = "dispatch" /\ f \in batch[w]
    /\ LET c == sock[f].who
       IN  /\ \/ f \notin Registered(w)
              \/ peer[c] # "open"
              \/ rx[c] = "bad"
    /\ batch' = [batch EXCEPT ![w] = @ \ {f}]
    /\ cur' = [cur EXCEPT ![w] = f]
    /\ ret' = [ret EXCEPT ![w] = "dispatch"]
    /\ Goto(w, "close")
    /\ UNCHANGED <<kernel, shared, newId, established, rclients, todo, doomed,
                   history>>

\* Nothing to read, an incomplete request, or one answered locally.
HandleLocal(w, f) ==
    /\ pc[w] = "dispatch" /\ f \in batch[w]
    /\ f \in Registered(w)
    /\ LET c == sock[f].who
       IN  /\ peer[c] = "open" /\ rx[c] \in {"none", "more", "local"}
           /\ rx' = [rx EXCEPT ![c] = "none"]
    /\ batch' = [batch EXCEPT ![w] = @ \ {f}]
    /\ UNCHANGED <<sock, life, backlog, peer, sent, watch, ready, up, shared, pc, cur,
                   newId, ret, established, rclients, todo, doomed, history>>

\* ReverseClient's constructor, under the key client_id.
NewReverseClient(id, f) ==
    [id |-> id, reverse_fd |-> f, client_fd |-> NoFd, connected |-> FALSE]

\* A request routed to ModReverseProxy::handle: try_emplace finds the
\* ReverseClient of this client_id or makes one that writes to this fd.
HandleProxy(w, f) ==
    /\ pc[w] = "dispatch" /\ f \in batch[w]
    /\ f \in Registered(w)
    /\ LET c == sock[f].who
           id == established[w][f]
       IN  /\ peer[c] = "open" /\ rx[c] = "proxy"
           /\ rx' = [rx EXCEPT ![c] = "none"]
           /\ rclients' = [rclients EXCEPT ![w] =
                IF \E r \in @ : r.id = id THEN @
                ELSE @ \cup {NewReverseClient(id, f)}]
    /\ batch' = [batch EXCEPT ![w] = @ \ {f}]
    /\ cur' = [cur EXCEPT ![w] = f]
    /\ ret' = [ret EXCEPT ![w] = "dispatch"]
    /\ Goto(w, "connect")
    /\ UNCHANGED <<sock, life, backlog, peer, sent, watch, ready, up, shared, newId,
                   established, todo, doomed, history>>

-----------------------------------------------------------------------------
(* ReverseClient::connect_server, send_data and reverse_proxy              *)

\* The ReverseClient the handler of worker w works on.
Current(w, r) == r \in rclients[w] /\ r.id = established[w][cur[w]]

\* connect_server returns at once when connected.
ConnectAlready(w) ==
    /\ pc[w] = "connect"
    /\ \E r \in rclients[w] : Current(w, r) /\ r.connected
    /\ Goto(w, "forward")
    /\ UNCHANGED <<kernel, shared, batch, cur, newId, ret, established,
                   rclients, todo, doomed, history>>

\* The descriptor table once connect_server has closed its old socket.
WithoutOld(r) ==
    [f \in Fds |-> IF f = r.client_fd THEN FreeSock ELSE sock[f]]

\* Mutant: handle does not look at what connect_server returned.
Mut_AfterConnect(ok) == "forward"

\* send_data and handle return early when connect_server failed.
AfterConnect(ok) == IF ok THEN "forward" ELSE "close"

\* A new socket, and the blocking connect(2) succeeds or is refused.  When it
\* is refused the socket stays in client_fd and handle returns Close.
ConnectTry(w, ok) ==
    /\ pc[w] = "connect"
    /\ \E r \in rclients[w], f \in Fds :
         /\ Current(w, r) /\ ~r.connected
         /\ Lowest(f, WithoutOld(r))
         /\ sock' = [WithoutOld(r) EXCEPT ![f] = UpstreamSock(sock[cur[w]].who)]
         /\ up' = [up EXCEPT ![f] = UpInit]
         /\ rclients' = [rclients EXCEPT ![w] = (@ \ {r}) \cup
                {[r EXCEPT !.client_fd = f, !.connected = ok]}]
    /\ Goto(w, AfterConnect(ok))
    /\ UNCHANGED <<life, backlog, rx, peer, sent, watch, ready, shared, batch, cur,
                   newId, ret, established, todo, doomed, history>>

\* socket(2) fails at the descriptor limit: connect fails on -1.
ConnectNoFd(w) ==
    /\ pc[w] = "connect"
    /\ \E r \in rclients[w] :
         /\ Current(w, r) /\ ~r.connected
         /\ \A f \in Fds : WithoutOld(r)[f] # FreeSock
         /\ sock' = WithoutOld(r)
         /\ rclients' = [rclients EXCEPT ![w] = (@ \ {r}) \cup
                {[r EXCEPT !.client_fd = NoFd]}]
    /\ Goto(w, "close")
    /\ UNCHANGED <<life, backlog, rx, peer, sent, watch, ready, up, shared, batch,
                   cur, newId, ret, established, todo, doomed, history>>

\* send_data: the request goes to the upstream socket, whole or - the socket
\* does not block, and any count that is not negative will do - in part, and
\* then the upstream has nothing to answer yet.
Forward(w) ==
    /\ pc[w] = "forward"
    /\ \E r \in rclients[w], owes \in BOOLEAN :
         /\ Current(w, r)
         /\ up[r.client_fd].owes => owes
         /\ wire' = wire \cup {[what |-> "request", from |-> sock[cur[w]].who,
                                to |-> sock[r.client_fd]]}
         /\ up' = [up EXCEPT ![r.client_fd] = [@ EXCEPT !.owes = owes]]
    /\ Goto(w, "answer")
    /\ UNCHANGED <<sock, life, backlog, rx, peer, sent, watch, ready, shared, batch,
                   cur, newId, ret, established, rclients, todo, doomed, loss>>

\* send(2) fails: the upstream has closed, or does not read.
ForwardFails(w) ==
    /\ pc[w] = "forward"
    /\ \E r \in rclients[w] : Current(w, r)
    /\ Goto(w, "close")
    /\ UNCHANGED <<kernel, shared, batch, cur, newId, ret, established,
                   rclients, todo, doomed, history>>

\* The connection behind descriptor f can still be written to.
SendOk(f) ==
    /\ sock[f] # FreeSock
    /\ sock[f].kind = "client" => peer[sock[f].who] # "rst"

\* The socket f does not block: when its client does not read, send fails with
\* EAGAIN or takes less than it is given.
MayBeFull(f) == sock[f].who \in SlowClients

\* What may come of the reply that r's upstream socket holds.
Outcomes(r) ==
    IF ~up[r.client_fd].unread THEN {"nothing"}
    ELSE IF ~SendOk(r.reverse_fd) THEN {"fails"}
    ELSE {"whole"} \cup (IF MayBeFull(r.reverse_fd) THEN {"short", "fails"} ELSE {})

\* ReverseClient::reverse_proxy reads the upstream chunk by chunk and writes
\* each chunk to reverse_fd, whatever that descriptor now is.  A short write
\* goes unnoticed; a failed one ends the loop, with the chunk gone, the chunks
\* before it written and the ones after it unread.  "by" is the caller.
Relay(r, got, by) ==
    /\ got \in Outcomes(r)
    /\ \E left, wrote \in BOOLEAN :
         /\ left => got = "fails"
         /\ CASE got = "nothing" -> ~wrote
              [] got = "fails" -> wrote => SendOk(r.reverse_fd)
              [] OTHER -> wrote
         /\ up' = [up EXCEPT ![r.client_fd] = [@ EXCEPT !.unread = left]]
         /\ wire' = wire \cup
              {m \in {[what |-> "reply", from |-> sock[r.client_fd].who,
                       to |-> sock[r.reverse_fd]]} : wrote}
    /\ loss' = [loss EXCEPT ![sock[r.client_fd].who] =
         IF got = "short" THEN "short"
         ELSE IF got = "fails" /\ SendOk(r.reverse_fd) THEN by
         ELSE @]

\* Mutant: a failed write does not make it return Close.
Mut_RelayCloses(r, got) == up[r.client_fd].fin

\* ... and returns Close when a write failed or the upstream has closed.
RelayCloses(r, got) == got = "fails" \/ up[r.client_fd].fin

\* The handler's call: Close makes handle_pending_request clean up.
Answer(w) ==
    /\ pc[w] = "answer"
    /\ \E r \in rclients[w] : \E got \in Outcomes(r) :
         /\ Current(w, r)
         /\ Relay(r, got, "handler")
         /\ IF RelayCloses(r, got)
              THEN Goto(w, "close") /\ UNCHANGED cur
              ELSE Goto(w, "dispatch") /\ cur' = [cur EXCEPT ![w] = NoFd]
    /\ UNCHANGED <<sock, life, backlog, rx, peer, sent, watch, ready, shared,
                   batch, newId, ret, established, rclients, todo, doomed>>

-----------------------------------------------------------------------------
(* Server::cleanup_connection                                              *)

\* Mutant: the descriptor stays in the epoll object.
Mut_EpollDel(w, f) == UNCHANGED <<watch, ready>>

\* EPoll::del
EpollDel(w, f) ==
    /\ watch' = [watch EXCEPT ![w] = @ \ {f}]
    /\ ready' = [ready EXCEPT ![w] = @ \ {f}]

\* An unknown descriptor: return false.  Otherwise epoll.del and close: from
\* here on the descriptor is anybody's.
CloseFd(w) ==
    /\ pc[w] = "close"
    /\ IF cur[w] \notin Registered(w)
         THEN Goto(w, ret[w]) /\ UNCHANGED <<watch, ready, sock, life, rx>>
         ELSE LET f == cur[w]
                  c == sock[f].who
              IN  /\ EpollDel(w, f)
                  /\ sock' = [sock EXCEPT ![f] = FreeSock]
                  /\ life' = [life EXCEPT ![c] = "closed"]
                  /\ rx' = [rx EXCEPT ![c] = "none"]
                  /\ Goto(w, "erase")
    /\ UNCHANGED <<backlog, peer, sent, up, shared, batch, cur, newId, ret,
                   established, rclients, todo, doomed, history>>

\* establishedClients.erase(it)
EraseClient(w) ==
    /\ pc[w] = "erase"
    /\ established' = [established EXCEPT ![w][cur[w]] = 0]
    /\ cur' = [cur EXCEPT ![w] = NoFd]
    /\ ret' = [ret EXCEPT ![w] = "dispatch"]
    /\ Goto(w, ret[w])
    /\ UNCHANGED <<kernel, shared, batch, newId, rclients, todo, doomed, history>>

-----------------------------------------------------------------------------
(* The module timer and the ping pass                                      *)

\* timer.getOffset() has not reached module_timer_at_least_wait_ms.
TimerNotDue(w) ==
    /\ pc[w] = "timer"
    /\ Goto(w, "ping")
    /\ UNCHANGED <<kernel, shared, batch, cur, newId, ret, established,
                   rclients, todo, doomed, history>>

\* Mutant: nothing is cleared.
Mut_LiveIdsAll(w) == {r.id : r \in rclients[w]}

\* Mutant: clients are recognised by descriptor, not by client_id.
Mut_LiveIdsByFd(w) == {r.id : r \in {q \in rclients[w] : q.reverse_fd \in Registered(w)}}

\* The ids clear_unused_connections collects from server_clients.
LiveIds(w) == {established[w][f] : f \in Registered(w)}

\* Mutant: the destructor closes nothing.
Mut_UpstreamFds(S) == {}

\* What the destructors of a set of ReverseClients close.
UpstreamFds(S) == {f \in Fds : \E r \in S : r.client_fd = f}

\* module_timer: clear_unused_connections erases the ReverseClients whose
\* client is gone, and their destructors close the upstream sockets.
TimerClear(w) ==
    /\ pc[w] = "timer"
    /\ LET kept == {r \in rclients[w] : r.id \in LiveIds(w)}
           lost == rclients[w] \ kept
           gone == UpstreamFds(lost)
       IN  /\ rclients' = [rclients EXCEPT ![w] = kept]
           /\ todo' = [todo EXCEPT ![w] = kept]
           /\ sock' = [f \in Fds |-> IF f \in gone THEN FreeSock ELSE sock[f]]
           /\ up' = [f \in Fds |-> IF f \in gone THEN UpInit ELSE up[f]]
    /\ Goto(w, "relay")
    /\ UNCHANGED <<life, backlog, rx, peer, sent, watch, ready, shared, batch,
                   cur, newId, ret, established, doomed, history>>

\* ... then reverse_proxy() for each that is left.  Its connect_server finds
\* the client connected (TimerNeverConnects); that it returns Close, because a
\* write failed or the upstream has gone, is not looked at.
TimerRelay(w) ==
    /\ pc[w] = "relay"
    /\ \E r \in todo[w] :
         /\ r.connected
         /\ \E got \in Outcomes(r) : Relay(r, got, "timer")
         /\ todo' = [todo EXCEPT ![w] = @ \ {r}]
    /\ UNCHANGED <<sock, life, backlog, rx, peer, sent, watch, ready, shared, pc,
                   batch, cur, newId, ret, established, rclients, doomed>>

TimerDone(w) ==
    /\ pc[w] = "relay" /\ todo[w] = {}
    /\ Goto(w, "ping")
    /\ UNCHANGED <<kernel, shared, batch, cur, newId, ret, established,
                   rclients, todo, doomed, history>>

\* Mutant: every client that was pinged is closed.
Mut_ClearFds(idle) == idle

\* clear_fds: the pinged clients whose send failed, and not for want of room.
ClearFds(idle) == {f \in idle : ~SendOk(f)}

\* ping_trigger.test() said no, or said yes and the clients that have been
\* idle for mnginx_ping_time_ms (any set of them: time is not modelled) are
\* sent ping_data; those whose send fails are collected in clear_fds.
Ping(w) ==
    /\ pc[w] = "ping"
    /\ \E idle \in SUBSET Registered(w) :
         doomed' = [doomed EXCEPT ![w] = ClearFds(idle)]
    /\ Goto(w, "sweep")
    /\ UNCHANGED <<kernel, shared, batch, cur, newId, ret, established,
                   rclients, todo, history>>

Sweep(w) ==
    /\ pc[w] = "sweep"
    /\ \E f \in doomed[w] :
         /\ doomed' = [doomed EXCEPT ![w] = @ \ {f}]
         /\ cur' = [cur EXCEPT ![w] = f]
    /\ ret' = [ret EXCEPT ![w] = "sweep"]
    /\ Goto(w, "close")
    /\ UNCHANGED <<kernel, shared, batch, newId, established, rclients, todo,
                   history>>

SweepDone(w) ==
    /\ pc[w] = "sweep" /\ doomed[w] = {}
    /\ Goto(w, "wait")
    /\ UNCHANGED <<kernel, shared, batch, cur, newId, ret, established,
                   rclients, todo, doomed, history>>

-----------------------------------------------------------------------------
(* The specification                                                       *)

Dispatch(w) ==
    \/ DispatchAccept(w) \/ DispatchDone(w)
    \/ \E f \in Fds : HandleClose(w, f) \/ HandleLocal(w, f) \/ HandleProxy(w, f)

Accept(w) ==
    LockAccept(w) \/ AcceptOne(w) \/ Emplace(w) \/ AcceptDone(w) \/ AcceptFails(w)

Proxy(w) ==
    \/ ConnectAlready(w) \/ ConnectNoFd(w)
    \/ \E ok \in BOOLEAN : ConnectTry(w, ok)
    \/ Forward(w) \/ ForwardFails(w) \/ Answer(w)

Cleanup(w) == CloseFd(w) \/ EraseClient(w)

Housekeeping(w) ==
    \/ TimerNotDue(w) \/ TimerClear(w) \/ TimerRelay(w) \/ TimerDone(w)
    \/ Ping(w) \/ Sweep(w) \/ SweepDone(w)

Loop(w) ==
    EpollWait(w) \/ Dispatch(w) \/ Accept(w) \/ Proxy(w) \/ Cleanup(w) \/ Housekeeping(w)

Worker(w) == Loop(w) \/ EpollTimesOut(w) \/ EpollFails(w)

Environment ==
    \/ \E c \in Conns, w \in Workers : Connect(c, w)
    \/ \E c \in Conns, k \in Kinds : ClientSends(c, k)
    \/ \E c \in Conns, how \in {"fin", "rst"} : ClientEnds(c, how)
    \/ \E f \in Fds : UpstreamReplies(f) \/ UpstreamCloses(f)

Next == Environment \/ \E w \in Workers : Worker(w)

Spec == Init /\ [][Next]_vars

\* The operating system keeps running every thread, epoll_wait is not
\* interrupted for ever when it has something to report, and time passes, so
\* that a loop that keeps going round finds the module timer due again and
\* again.  Nothing is assumed of the clients or the upstreams, nor that an
\* epoll_wait with nothing to report ever returns: the configured interval
\* may be negative.
Fairness ==
    \A w \in Workers :
        /\ WF_vars(Loop(w))
        /\ SF_vars(EpollWait(w))
        /\ SF_vars(TimerClear(w))

\* A wait_interval that is not negative.
FiniteInterval == \A w \in Workers : WF_vars(EpollTimesOut(w))

FairSpec == Spec /\ Fairness

-----------------------------------------------------------------------------
(* Properties                                                              *)

Labels == {"wait", "dispatch", "lock", "accept", "emplace", "connect",
           "forward", "answer", "close", "erase", "timer", "relay", "ping",
           "sweep"}

\* Every variable has its type.
TypeOK ==
    /\ sock \in [Fds -> Socks]
    /\ life \in [Conns -> {"none", "queued", "open", "closed"}]
    /\ backlog \in [Workers -> SUBSET Conns]
    /\ rx \in [Conns -> Kinds \cup {"none"}]
    /\ peer \in [Conns -> {"open", "fin", "rst"}]
    /\ sent \in [Conns -> Nat]
    /\ watch \in [Workers -> SUBSET Fds]
    /\ ready \in [Workers -> SUBSET Fds]
    /\ up \in [Fds -> UpStates]
    /\ accept_lock \in Workers \cup {NoWorker}
    /\ max_client_id \in Nat
    /\ pc \in [Workers -> Labels]
    /\ batch \in [Workers -> SUBSET (Fds \cup {ListenFd})]
    /\ cur \in [Workers -> Fds \cup {NoFd}]
    /\ newId \in [Workers -> Nat]
    /\ ret \in [Workers -> {"dispatch", "sweep"}]
    /\ established \in [Workers -> [Fds -> Nat]]
    /\ rclients \in [Workers -> SUBSET ReverseClients]
    /\ todo \in [Workers -> SUBSET ReverseClients]
    /\ doomed \in [Workers -> SUBSET Fds]
    /\ wire \subseteq Writes
    /\ loss \in [Conns -> Losses]

\* The branch of handle_client marked "no way!" is never taken: an event that
\* epoll_wait reported is still about a registered, open client connection
\* when its turn in the batch comes, whatever the handlers of the events
\* before it closed and whoever has reused a descriptor meanwhile.
EventsRegistered ==
    \A w \in Workers : \A f \in batch[w] \ {ListenFd} :
        established[w][f] # 0 /\ sock[f].kind = "client"

\* "current max id to keep client unique": no two clients of the process have
\* the same client_id, although the counter is not atomic and the workers
\* construct ClientInfos concurrently.
ClientIdsUnique ==
    \A w1, w2 \in Workers : \A f1, f2 \in Fds :
        (established[w1][f1] = established[w2][f2] /\ established[w1][f1] # 0)
            => (w1 = w2 /\ f1 = f2)

\* Bytes of one client never reach another: a request is only forwarded on
\* the upstream socket opened for its own client, and what an upstream
\* answers is only written to the client whose request it answers, although
\* ReverseClient::reverse_fd is a bare number that outlives its connection
\* and descriptors are reused by every worker.
NoCrossTalk ==
    \A m \in wire :
        m.to = IF m.what = "reply" THEN ClientSock(m.from) ELSE UpstreamSock(m.from)

\* No descriptor leaks and none has two owners: an open client socket is in
\* the table of one worker (or is being put there), an open upstream socket
\* is held by one ReverseClient.
OneOwner ==
    \A f \in Fds :
        /\ sock[f].kind = "client" =>
             \E w \in Workers :
                /\ \/ established[w][f] # 0 /\ f \in watch[w]
                   \/ pc[w] = "emplace" /\ cur[w] = f
                /\ \A v \in Workers \ {w} : f \notin watch[v]
        /\ sock[f].kind = "upstream" =>
             \E w \in Workers : \E r \in rclients[w] :
                /\ r.client_fd = f
                /\ \A v \in Workers : \A q \in rclients[v] :
                     q.client_fd = f => (v = w /\ q = r)

\* "if client was closed,this wont reconnect": the module timer never enters
\* the blocking connect, because a ReverseClient that is not connected has
\* lost its client and is swept first.
TimerNeverConnects ==
    \A w \in Workers : \A r \in todo[w] : r.connected

\* A client that is connected and has never sent anything is not closed by the
\* server: whatever the workers close and reuse, they only ever end
\* connections that ended themselves or asked for something.
QuietClientsKept ==
    [][\A c \in Conns :
         (life[c] = "open" /\ life'[c] = "closed")
            => (peer[c] # "open" \/ sent[c] > 0)]_vars

\* The workers implement the gateway: seen from outside, what they do to
\* connections and on whose behalf they write is a behaviour of Gateway.tla.
traffic == {<<m.what, m.from, m.to.who>> : m \in wire}

G == INSTANCE Gateway WITH Conns <- Conns, life <- life, traffic <- traffic

GatewaySpec == G!GSpec

Open(c) == life[c] = "open"

\* A client that has closed or reset its connection is cleaned up: the edge
\* that announces it is never lost, even when it comes before the descriptor
\* is registered or while another event of it is being handled.
ClosedClientsReaped ==
    \A c \in Conns : (Open(c) /\ peer[c] # "open") ~> ~Open(c)

\* Whatever a connected client sends is taken off its socket.
InputConsumed ==
    \A c \in Conns : (Open(c) /\ rx[c] # "none") ~> (rx[c] = "none" \/ ~Open(c))

\* "accept all queued connections when epoll detected EPOLLIN of serverfd":
\* a worker that has seen its listening socket readable empties its queue.
AcceptsAllQueued ==
    \A w \in Workers : (pc[w] = "lock") ~> (backlog[w] = {})

\* A reply to c waits in an upstream socket.
Waiting(c) == \E f \in Fds : sock[f] = UpstreamSock(c) /\ up[f].unread

\* All of it has been read and written to c's own socket.
Relayed(c) ==
    /\ ~Waiting(c) /\ loss[c] = "none"
    /\ [what |-> "reply", from |-> c, to |-> ClientSock(c)] \in wire

\* The bytes of a reply that the code drops without telling anybody: a short
\* write (reverse_proxy.cpp:68 only asks whether it failed), and a failed one
\* in the timer, which does not look at the Close (reverse_proxy.h:122).
SilentlyCut(c) == c \in SlowClients /\ loss[c] \in {"short", "timer"}

\* With a wait_interval that is not negative, a reply that arrives for a
\* connected client is written to it whole, by the handler or by a later timer
\* pass, or the connection ends - the handler whose write fails does close it.
\* The only replies that stay torn on an open connection are those of a client
\* that had stopped reading, in the two ways of SilentlyCut.
RepliesRelayed ==
    FiniteInterval => \A c \in Conns :
        (Open(c) /\ Waiting(c)) ~> (Relayed(c) \/ ~Open(c) \/ SilentlyCut(c))
=============================================================================
