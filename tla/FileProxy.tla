----------------------------- MODULE FileProxy -----------------------------
(***************************************************************************)
(* Requests that worker threads answer themselves: ModFileProxy::handle    *)
(* (src/modules/file_proxy.cpp), the built-in route of                     *)
(* Application::setup_handlers and the request without a route, with the   *)
(* end of Server::handle_pending_request that turns their results into     *)
(* responses (src/server.cpp), and the access log they write (Logger).     *)
(*                                                                         *)
(* file_path is a static variable without thread_local, so the workers     *)
(* share it.  A path is a sequence of names.                               *)
(***************************************************************************)
EXTENDS Logger

CONSTANTS
    Workloads,    \* what a behaviour may contain (bounds): [workers, requests,
                  \* number, changes, reloads, lines, faults] - the workers
                  \* in use, the requests [to, root, path] and their number,
                  \* the number of changes of the file system and of reloads,
                  \* the sizes of a log line, and whether log files may fail
                  \* to open and memory may hold anything
    Defval,       \* FileProxyConfig::defval
    Sizes,        \* the files and directories at the start, path -> size
    Dirs,         \* the directories among them
    MaxSize       \* bound: the size of a file

ASSUME FileConstants ==
    /\ \A l \in Workloads :
        /\ DOMAIN l = {"workers", "requests", "number", "changes", "reloads",
                       "lines", "faults"}
        /\ l.workers \subseteq Threads
        /\ \A r \in l.requests : r.to \in {"file", "hello", "nowhere"}
        /\ l.lines \subseteq 1..(Width - MaxBytes)
        /\ l.number \in Nat /\ l.changes \in Nat /\ l.reloads \in Nat
    /\ MaxSize \in Nat
    /\ Dirs \subseteq DOMAIN Sizes
    /\ \A p \in DOMAIN Sizes : Sizes[p] \in 0..MaxSize

VARIABLES
    file_path,  \* the static string
    disk,       \* the file system: path -> whether it is there, and its size
    work,       \* per worker: where it is in handle, and its locals
    response,   \* per worker: the thread_local HTTPResponse
    reply,      \* per worker: what the client of its last request has got
    bounds      \* the requests, changes and reloads the workload has left

fileVars == <<file_path, disk, work, response, reply, bounds>>
vars == <<logVars, fileVars>>

None == "none"
NoFile == <<>>        \* no file descriptor
Torn == <<"torn">>    \* a text that names no file

Opens == IF bounds.faults THEN BOOLEAN ELSE {TRUE}
Counts == IF bounds.faults THEN 0..(Width - 1) ELSE {0}

Idle == [pc |-> "idle", req |-> None, size |-> 0, remaining |-> 0,
         offset |-> 0, file |-> NoFile, blocking |-> FALSE, alone |-> TRUE]

-----------------------------------------------------------------------------
(* HTTPResponse *)

\* mutant: the headers are kept.
Mut_Reset(r) == [status |-> "OK", headers |-> r.headers, data |-> 0]

\* HTTPResponse::reset
Reset(r) == [status |-> "OK", headers |-> {}, data |-> 0]

\* Server::send_message: checkout_data sets Content-Length from the data,
\* generate_to writes the status line, the headers and the data.
Message(r) == [status |-> r.status, length |-> r.data,
               headers |-> r.headers \cup {"Content-Length"}]

Failed(r, code) == [r EXCEPT !.status = code]

NoReply == [to |-> None, heads |-> <<>>, body |-> 0, open |-> TRUE,
            reading |-> TRUE]
ReplyTo(r) == [NoReply EXCEPT !.to = r.to]

\* A message behind what the client has got: its own data follow its head.
Got(p, m) == [p EXCEPT !.heads = Append(@, m), !.body = @ + m.length]

\* Server::send_message_simp
Simple(code) == Message([status |-> code, headers |-> {}, data |-> 0])

\* The result of a handler, as handle_pending_request treats it: the client
\* it closes has got a message first, for a response that still says OK a
\* 404, even behind the head of another response.
Replied(p, r, result) ==
    CASE result = "Close" ->
            [Got(p, IF r.status # "OK" THEN Message(r) ELSE Simple("NotFound"))
                EXCEPT !.open = FALSE]
      [] result = "AlreadySend" -> p
      [] result = "Continue" -> Got(p, Message(r))

-----------------------------------------------------------------------------
(* ModFileProxy::handle *)

\* Between its first and its last use of file_path.
Using == {"append", "stat", "log", "logged", "open"}
Others(w) == {v \in Threads \ {w} : work[v].pc \in Using}

\* Two workers that use the string at the same time race: what it holds
\* then is what either wrote, or neither.
Racy(w, text) == IF Others(w) = {} THEN {text} ELSE {text, Torn}

Seen(w, new) ==
    [v \in Threads |->
        IF v = w THEN [new EXCEPT !.alone = @ /\ Others(w) = {}]
        ELSE IF v \in Others(w) THEN [work[v] EXCEPT !.alone = FALSE]
        ELSE work[v]]

\* The end of handle and of handle_pending_request.
Return(w, resp, result) ==
    /\ work' = [work EXCEPT ![w] = Idle]
    /\ response' = [response EXCEPT ![w] = resp]
    /\ reply' = [reply EXCEPT ![w] = Replied(@, resp, result)]

\* parseURL has chosen the handler of a request, or none.  The built-in
\* handler does nothing that another thread could see.
Hello(r) == [status |-> "OK", data |-> 1,
             headers |-> {"Content-Type", "Connection", "Content-Length"}]

Take(w, r) ==
    /\ work[w].pc = "idle" /\ bounds.number > 0
    /\ bounds' = [bounds EXCEPT !.number = @ - 1]
    /\ UNCHANGED <<file_path, disk>>
    /\ \/ /\ r.to = "file"
          /\ response' = [response EXCEPT ![w] = Reset(@)]
          /\ reply' = [reply EXCEPT ![w] = ReplyTo(r)]
          /\ work' = [work EXCEPT ![w] = [Idle EXCEPT !.pc = "assign",
                                                      !.req = r]]
          /\ UNCHANGED logVars
       \/ /\ r.to = "hello"
          /\ LET resp == Hello(Reset(response[w])) IN
             /\ response' = [response EXCEPT ![w] = resp]
             /\ reply' = [reply EXCEPT ![w] = Replied(ReplyTo(r), resp, "Continue")]
          /\ UNCHANGED <<logVars, work>>
       \/ /\ r.to = "nowhere"
          /\ \E s \in bounds.lines : LogCall(w, "info", s)
          /\ reply' = [reply EXCEPT ![w] = ReplyTo(r)]
          /\ work' = [work EXCEPT ![w] = [Idle EXCEPT !.pc = "unrouted",
                                                      !.req = r]]
          /\ UNCHANGED response

\* The request without a route, once its line is logged.
Unrouted(w) ==
    /\ work[w].pc = "unrouted" /\ call[w].phase = "none"
    /\ work' = [work EXCEPT ![w] = Idle]
    /\ reply' = [reply EXCEPT ![w] = Got(@, Simple("NotFound"))]
    /\ UNCHANGED <<logVars, file_path, disk, response, bounds>>

\* mutant: the string is initialised once, by the first request.
Mut_Assigned(w) == IF file_path = <<>> THEN <<work[w].req.root>> ELSE <<Head(file_path)>>

\* file_path.clear(), file_path = cfg.root and the two refusals.
Assigned(w) == <<work[w].req.root>>

Assign(w) ==
    /\ work[w].pc = "assign"
    /\ file_path' \in Racy(w, Assigned(w))
    /\ LET p == work[w].req.path IN
       \/ /\ p \in {None, ".."}
          /\ LET code == IF p = None THEN "NotFound" ELSE "Forbidden"
                 resp == Failed(response[w], code)
             IN  /\ work' = [Seen(w, Idle) EXCEPT ![w] = Idle]
                 /\ response' = [response EXCEPT ![w] = resp]
                 /\ reply' = [reply EXCEPT ![w] = Replied(@, resp, "Close")]
       \/ /\ p \notin {None, ".."}
          /\ work' = Seen(w, [work[w] EXCEPT !.pc = "append"])
          /\ UNCHANGED <<response, reply>>
    /\ UNCHANGED <<logVars, disk, bounds>>

\* The separator, if the root does not end in one, and the path, without a
\* leading one, or the default for an empty path.
AppendPath(w) ==
    LET p == work[w].req.path IN
    /\ work[w].pc = "append"
    /\ file_path' \in Racy(w, Append(file_path, IF p = "" THEN Defval ELSE p))
    /\ work' = Seen(w, [work[w] EXCEPT !.pc = "stat"])
    /\ UNCHANGED <<logVars, disk, response, reply, bounds>>

\* io_fileSize
There(p) == p \in DOMAIN disk /\ disk[p].there
FileSize(p) == IF There(p) THEN disk[p].size ELSE -1

Stat(w) ==
    /\ work[w].pc = "stat"
    /\ work' = [work EXCEPT ![w].size = FileSize(file_path), ![w].pc = "log"]
    /\ UNCHANGED <<logVars, file_path, disk, response, reply, bounds>>

LogPath(w) ==
    /\ work[w].pc = "log"
    /\ \E s \in bounds.lines : LogCall(w, "info", s)
    /\ work' = [work EXCEPT ![w].pc = "logged"]
    /\ UNCHANGED <<file_path, disk, response, reply, bounds>>

\* Once the line is logged: no such file, or the head of the response; the
\* socket may refuse it.
WithHead(r) == [r EXCEPT !.headers = @ \cup {"Content-Length", "Content-Type"}]

SendHead(w) ==
    /\ work[w].pc = "logged" /\ call[w].phase = "none"
    /\ \/ /\ work[w].size < 0
          /\ Return(w, Failed(response[w], "NotFound"), "Continue")
       \/ /\ work[w].size >= 0
          /\ Return(w, WithHead(response[w]), "Close")
       \/ /\ work[w].size >= 0
          /\ LET resp == WithHead(response[w]) IN
             /\ response' = [response EXCEPT ![w] = resp]
             /\ reply' = [reply EXCEPT ![w].heads =
                    Append(@, [status |-> resp.status, length |-> work[w].size,
                               headers |-> resp.headers])]
          /\ work' = [work EXCEPT ![w].pc = "open"]
    /\ UNCHANGED <<logVars, file_path, disk, bounds>>

\* open() may fail although stat() did not; its result is not looked at.
Open(w) ==
    /\ work[w].pc = "open"
    /\ \E f \in {NoFile} \cup (IF There(file_path) THEN {file_path} ELSE {}) :
        work' = [work EXCEPT ![w].file = f, ![w].remaining = work[w].size,
                             ![w].blocking = TRUE, ![w].pc = "send"]
    /\ UNCHANGED <<logVars, file_path, disk, response, reply, bounds>>

\* One turn of the sendfile loop that gets anywhere: interrupted calls are
\* repeated, and at the end of a file that has become too short sendfile
\* returns 0 and the loop turns on the spot.  The socket blocks, so a client
\* that does not read holds the worker.
Left(w) == IF work[w].file \in DOMAIN disk
           THEN disk[work[w].file].size - work[w].offset ELSE 0

SendFile(w) ==
    LET n == work[w].remaining IN
    /\ work[w].pc = "send" /\ n > 0
    /\ work[w].file # NoFile /\ work[w].file \notin Dirs
    /\ reply[w].reading
    /\ \E s \in 1..n :
        /\ s <= Left(w)
        /\ work' = [work EXCEPT ![w].remaining = @ - s, ![w].offset = @ + s]
        /\ reply' = [reply EXCEPT ![w].body = @ + s]
    /\ UNCHANGED <<logVars, file_path, disk, response, bounds>>

\* mutant: the file is not closed.
Mut_Deferred(l) == [l EXCEPT !.blocking = FALSE]

\* The other ends of the loop; leaving handle, the deferred block makes the
\* socket non-blocking again and closes the file.
Deferred(l) == [l EXCEPT !.blocking = FALSE, !.file = NoFile]

Leave(w, result) ==
    /\ work' = [work EXCEPT ![w] = [Idle EXCEPT !.blocking = Deferred(work[w]).blocking,
                                                !.file = Deferred(work[w]).file]]
    /\ reply' = [reply EXCEPT ![w] = Replied(@, response[w], result)]
    /\ UNCHANGED <<logVars, file_path, disk, response, bounds>>

\* mutant: the error ends the loop only.
Mut_SendFails(w) ==
    /\ work[w].pc = "send" /\ work[w].remaining > 0
    /\ work[w].file = NoFile \/ work[w].file \in Dirs
    /\ Leave(w, "AlreadySend")

\* sendfile cannot read: there is no file, or it is a directory.
SendFails(w) ==
    /\ work[w].pc = "send" /\ work[w].remaining > 0
    /\ work[w].file = NoFile \/ work[w].file \in Dirs
    /\ Leave(w, "Close")

\* sendfile cannot write: the client is gone.
SendBroken(w) ==
    /\ work[w].pc = "send" /\ work[w].remaining > 0
    /\ Leave(w, "Close")

\* mutant: the loop runs while remaining >= 0.
Mut_SendDone(w) ==
    /\ work[w].pc = "send" /\ work[w].remaining < 0
    /\ Leave(w, "AlreadySend")

SendDone(w) ==
    /\ work[w].pc = "send" /\ work[w].remaining = 0
    /\ Leave(w, "AlreadySend")

-----------------------------------------------------------------------------
(* The environment *)

Resize(p) ==
    /\ bounds.changes > 0 /\ There(p) /\ p \notin Dirs
    /\ \E n \in 0..MaxSize \ {disk[p].size} : disk' = [disk EXCEPT ![p].size = n]
    /\ bounds' = [bounds EXCEPT !.changes = @ - 1]
    /\ UNCHANGED <<logVars, file_path, work, response, reply>>

\* Who has the file open can still read it.
Unlink(p) ==
    /\ bounds.changes > 0 /\ There(p)
    /\ disk' = [disk EXCEPT ![p].there = FALSE]
    /\ bounds' = [bounds EXCEPT !.changes = @ - 1]
    /\ UNCHANGED <<logVars, file_path, work, response, reply>>

\* A client stops to read.
Stall(w) ==
    /\ work[w].pc = "send" /\ reply[w].reading
    /\ reply' = [reply EXCEPT ![w].reading = FALSE]
    /\ UNCHANGED <<logVars, file_path, disk, work, response, bounds>>

\* A reload: the workers are joined, and the new ones have new thread_local
\* responses.
NewResponse == [status |-> "OK", headers |-> {}, data |-> 0]

Reload ==
    /\ bounds.reloads > 0
    /\ \A w \in Threads : work[w].pc = "idle"
    /\ SetupLogger(Opens, Counts)
    /\ work' = [w \in Threads |-> Idle]
    /\ response' = [w \in Threads |-> NewResponse]
    /\ reply' = [w \in Threads |-> NoReply]
    /\ bounds' = [bounds EXCEPT !.reloads = @ - 1]
    /\ UNCHANGED <<file_path, disk>>

Init ==
    /\ bounds \in Workloads
    /\ LogInit(Opens, Counts)
    /\ file_path = <<>>
    /\ disk = [p \in DOMAIN Sizes |-> [there |-> TRUE, size |-> Sizes[p]]]
    /\ work = [w \in Threads |-> Idle]
    /\ response = [w \in Threads |-> NewResponse]
    /\ reply = [w \in Threads |-> NoReply]

Handle(w) ==
    \/ Unrouted(w) \/ Assign(w) \/ AppendPath(w) \/ Stat(w) \/ LogPath(w)
    \/ SendHead(w) \/ Open(w) \/ SendFile(w) \/ SendFails(w) \/ SendDone(w)
    \/ LogStep(w, Opens) /\ UNCHANGED fileVars

Next ==
    \/ \E w \in Threads : Handle(w) \/ SendBroken(w) \/ Stall(w)
    \/ \E w \in bounds.workers, r \in bounds.requests : Take(w, r)
    \/ \E p \in DOMAIN Sizes : Resize(p) \/ Unlink(p)
    \/ Reload

\* A worker inside a handler goes on: it is a thread of its own and waits
\* for no lock that another thread keeps.  Nothing makes a connection break.
Spec == Init /\ [][Next]_vars
FairSpec == Spec /\ \A w \in Threads : WF_vars(Handle(w))

-----------------------------------------------------------------------------
(* Properties *)

Wanted(r) == <<r.root, IF r.path = "" THEN Defval ELSE r.path>>

ServesItsFile(w) ==
    work[w].pc = "send" /\ work[w].alone =>
        work[w].file \in {NoFile, Wanted(work[w].req)}

\* A worker that was alone in handle from the assignment of file_path to the
\* open() sends the file the request names, whatever earlier requests and
\* refused ones left in the static string.
AloneServesItsFile == \A w \in Threads : ServesItsFile(w)

Announced(w) ==
    work[w].pc = "idle" /\ reply[w].open /\ reply[w].heads # <<>> =>
        Len(reply[w].heads) = 1 /\ reply[w].body = reply[w].heads[1].length

\* A client whose connection stays open has got one head and exactly the
\* bytes it announces, even if the file grew, shrank or vanished between
\* io_fileSize, open() and sendfile(); a response that could not be completed
\* ends with its connection.
BodyAsAnnounced == \A w \in Threads : Announced(w)

\* What a head of a response to a request of a kind may hold.
Fresh(h, to) ==
    LET own == CASE to = "hello" -> {"Content-Type", "Connection"}
                 [] to # "hello" /\ h.status # "OK" -> {}
                 [] to # "hello" /\ h.status = "OK" -> {"Content-Type"}
    IN  /\ h.headers = {"Content-Length"} \cup own
        /\ h.status # "OK" => h.length = 0
        /\ h.status = "OK" <=> own # {}

\* A head shows nothing of the responses the worker's thread_local response
\* held before: no header and no data of an earlier one, and no status, be
\* the earlier request refused, served or answered by another route.
RepliesFresh ==
    \A w \in Threads : \A i \in DOMAIN reply[w].heads :
        Fresh(reply[w].heads[i], reply[w].to)

Back(w) == work[w].pc # "send" => work[w].file = NoFile /\ ~work[w].blocking

\* Outside the sendfile loop no file is open and the socket of the client is
\* non-blocking, so the event loop cannot be held by a read of it.
DescriptorsBack == \A w \in Threads : Back(w)

\* A worker leaves every handler, unless its client stops reading or the file
\* it sends has become shorter than announced: for these two the loop has no
\* way out but an error of the socket.
Stuck(w) ==
    ~reply[w].reading \/ (work[w].pc = "send" /\ Left(w) < work[w].remaining)

HandlerReturnsOrStuck ==
    \A w \in Threads :
        work[w].pc # "idle" ~> (work[w].pc = "idle" \/ Stuck(w))
=============================================================================
