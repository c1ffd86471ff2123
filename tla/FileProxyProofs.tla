--------------------------- MODULE FileProxyProofs ---------------------------
(***************************************************************************)
(* What the workers answer themselves, for any number of workers, files,   *)
(* requests, changes of the file system and reloads: the descriptors come  *)
(* back, the responses are fresh, the bodies are as announced, and who is  *)
(* alone sends the file that was asked for.                                *)
(***************************************************************************)
EXTENDS FileProxy, SequenceTheorems, TLAPS

Statuses == {"OK", "NotFound", "Forbidden"}
HeaderNames == {"Content-Type", "Content-Length", "Connection"}
Requests == UNION {l.requests : l \in Workloads}
Pcs == {"idle", "assign", "append", "stat", "log", "logged", "open", "send",
        "unrouted"}

HeadType == [status : Statuses, length : Nat, headers : SUBSET HeaderNames]

WorkType == [pc : Pcs, req : Requests \cup {None}, size : Int,
             remaining : Int, offset : Int, file : {NoFile} \cup DOMAIN Sizes,
             blocking : BOOLEAN, alone : BOOLEAN]
ResponseType == [status : Statuses, headers : SUBSET HeaderNames, data : {0, 1}]
ReplyType == [to : {None, "file", "hello", "nowhere"}, heads : Seq(HeadType),
              body : Nat, open : BOOLEAN, reading : BOOLEAN]

BoundsType ==
    /\ DOMAIN bounds = {"workers", "requests", "number", "changes", "reloads",
                        "lines", "faults"}
    /\ bounds.requests \subseteq Requests /\ bounds.workers \subseteq Threads

\* The types of the variables the workers use.
FileType ==
    /\ work \in [Threads -> WorkType]
    /\ response \in [Threads -> ResponseType]
    /\ reply \in [Threads -> ReplyType]
    /\ disk \in [DOMAIN Sizes -> [there : BOOLEAN, size : 0..MaxSize]]
    /\ BoundsType

\* The responses of the file proxy: nothing yet, or the head of a 200.
FileHead(n) == [status |-> "OK", length |-> n,
                headers |-> {"Content-Length", "Content-Type"}]

\* What a worker's client has got, and what its response holds, by the place
\* it has reached in its handler.
PlaceInv(w) ==
    /\ work[w].pc \in {"assign", "append", "stat", "log", "logged"} =>
        /\ reply[w].to = "file" /\ reply[w].heads = <<>>
        /\ reply[w].body = 0 /\ reply[w].open
        /\ response[w] = NewResponse
    /\ work[w].pc = "unrouted" =>
        /\ reply[w].to = "nowhere" /\ reply[w].heads = <<>> /\ reply[w].body = 0
    /\ work[w].pc \in {"open", "send"} =>
        /\ reply[w].to = "file" /\ work[w].size >= 0
        /\ reply[w].heads = <<FileHead(work[w].size)>>
        /\ response[w] = WithHead(NewResponse)
    /\ work[w].pc = "open" => reply[w].body = 0
    /\ work[w].pc = "send" =>
        /\ work[w].remaining >= 0
        /\ reply[w].body + work[w].remaining = work[w].size

\* What a worker that was alone knows of the shared string.
PathInv(w) ==
    work[w].alone =>
        /\ work[w].pc = "append" => file_path = Assigned(w)
        /\ work[w].pc \in {"stat", "log", "logged", "open"} =>
            file_path = Wanted(work[w].req)

\* Everything that is said of one worker.
WorkerInv(w) ==
    /\ PlaceInv(w) /\ PathInv(w) /\ Back(w) /\ Announced(w) /\ ServesItsFile(w)
    /\ \A i \in 1..Len(reply[w].heads) : Fresh(reply[w].heads[i], reply[w].to)

FInv == FileType /\ \A w \in Threads : WorkerInv(w)

\* A step that is no other worker's business.
OnlyOf(w) ==
    /\ \A v \in Threads \ {w} :
        work'[v] = work[v] /\ response'[v] = response[v] /\ reply'[v] = reply[v]
    /\ file_path' = file_path

-----------------------------------------------------------------------------
(* Facts about what a client gets *)

\* A step of one worker keeps the invariant if it does so for that worker.
LEMMA OneWorker ==
    ASSUME FInv, NEW w \in Threads, FileType', OnlyOf(w), WorkerInv(w)'
    PROVE  FInv'
  <1>1. ASSUME NEW v \in Threads, v # w PROVE WorkerInv(v)'
    <2>1. /\ work'[v] = work[v] /\ response'[v] = response[v]
          /\ reply'[v] = reply[v] /\ file_path' = file_path
      BY <1>1 DEF OnlyOf
    <2>2. WorkerInv(v)
      BY DEF FInv
    <2>3. PlaceInv(v)' /\ PathInv(v)'
      BY <2>1, <2>2 DEF WorkerInv, PlaceInv, PathInv, Assigned
    <2>4. Back(v)' /\ Announced(v)' /\ ServesItsFile(v)'
      BY <2>1, <2>2 DEF WorkerInv, Back, Announced, ServesItsFile
    <2>5. \A i \in 1..Len(reply'[v].heads) : Fresh(reply'[v].heads[i], reply'[v].to)
      BY <2>1, <2>2 DEF WorkerInv
    <2> QED
      BY <2>3, <2>4, <2>5 DEF WorkerInv
  <1> QED
    BY <1>1 DEF FInv

\* The values a step gives one worker, and what it leaves to the others.
LEMMA StepType ==
    ASSUME FInv, NEW w \in Threads, NEW l \in WorkType, NEW r \in ResponseType,
           NEW p \in ReplyType,
           work' = [work EXCEPT ![w] = l], response' = [response EXCEPT ![w] = r],
           reply' = [reply EXCEPT ![w] = p], UNCHANGED <<file_path, disk>>,
           BoundsType'
    PROVE  /\ FileType' /\ OnlyOf(w)
           /\ work'[w] = l /\ response'[w] = r /\ reply'[w] = p
  BY DEF FInv, FileType, OnlyOf

LEMMA SameBounds == ASSUME FInv, UNCHANGED bounds PROVE BoundsType'
  BY DEF FInv, FileType, BoundsType

LEMMA Initials == /\ Idle \in WorkType /\ NewResponse \in ResponseType
                  /\ NoReply \in ReplyType
  <1>1. <<>> \in Seq(HeadType)
    OBVIOUS
  <1> QED
    BY <1>1 DEF Idle, WorkType, Pcs, None, NewResponse, ResponseType, Statuses,
       HeaderNames, NoReply, ReplyType

\* A message without data and without OK is fresh for a file or no route.
LEMMA RefusalFresh ==
    ASSUME NEW h, NEW to, to # "hello", h.status # "OK", h.length = 0,
           h.headers = {"Content-Length"}
    PROVE  Fresh(h, to)
  BY DEF Fresh

LEMMA FileHeadFresh ==
    ASSUME NEW n PROVE Fresh(FileHead(n), "file")
  BY DEF Fresh, FileHead

\* What one more head does to a sequence of heads.
LEMMA MoreHeads ==
    ASSUME NEW hs \in Seq(HeadType), NEW h \in HeadType, NEW to, Fresh(h, to),
           \A i \in 1..Len(hs) : Fresh(hs[i], to)
    PROVE  /\ Append(hs, h) \in Seq(HeadType)
           /\ \A i \in 1..Len(Append(hs, h)) : Fresh(Append(hs, h)[i], to)
           /\ hs = <<>> => Append(hs, h) = <<h>>
  <1>1. /\ Append(hs, h) \in Seq(HeadType)
        /\ Len(Append(hs, h)) = Len(hs) + 1 /\ Len(hs) \in Nat
        /\ \A i \in 1..Len(hs) : Append(hs, h)[i] = hs[i]
        /\ Append(hs, h)[Len(hs) + 1] = h
    BY AppendProperties, LenProperties
  <1>2. ASSUME NEW i \in 1..Len(Append(hs, h)) PROVE Fresh(Append(hs, h)[i], to)
    <2>1. i \in 1..Len(hs) \/ i = Len(hs) + 1
      BY <1>1
    <2> QED
      BY <2>1, <1>1
  <1>3. hs = <<>> => Append(hs, h) = <<h>>
    OBVIOUS
  <1> QED
    BY <1>1, <1>2, <1>3
-----------------------------------------------------------------------------
(* What sending does to a reply *)

LEMMA MessageType ==
    ASSUME NEW r \in ResponseType
    PROVE  /\ Message(r) \in HeadType
           /\ Message(r).status = r.status /\ Message(r).length = r.data
           /\ Message(r).headers = r.headers \cup {"Content-Length"}
  BY DEF Message, HeadType, ResponseType, HeaderNames

LEMMA SimpleType ==
    /\ Simple("NotFound") \in HeadType
    /\ Simple("NotFound").status = "NotFound" /\ Simple("NotFound").length = 0
    /\ Simple("NotFound").headers = {"Content-Length"}
  BY DEF Simple, Message, HeadType, HeaderNames, Statuses

LEMMA GotType ==
    ASSUME NEW p \in ReplyType, NEW m \in HeadType
    PROVE  /\ Got(p, m) \in ReplyType
           /\ Got(p, m).to = p.to /\ Got(p, m).open = p.open
           /\ Got(p, m).heads = Append(p.heads, m)
           /\ Got(p, m).body = p.body + m.length
  <1>1. Append(p.heads, m) \in Seq(HeadType)
    BY AppendProperties DEF ReplyType
  <1>2. m.length \in Nat
    BY DEF HeadType
  <1> DEFINE q == [p EXCEPT !.heads = Append(p.heads, m)]
  <1>3. q \in ReplyType /\ q.to = p.to /\ q.open = p.open /\ q.body = p.body
        /\ q.heads = Append(p.heads, m)
    BY <1>1 DEF ReplyType
  <1>4. Got(p, m) = [q EXCEPT !.body = p.body + m.length]
    BY <1>3 DEF Got
  <1>5. p.body + m.length \in Nat
    BY <1>2 DEF ReplyType
  <1> HIDE DEF q
  <1> QED
    BY <1>3, <1>4, <1>5 DEF ReplyType

\* A fresh message behind fresh ones, to the same request.
LEMMA GotFresh ==
    ASSUME NEW p \in ReplyType, NEW m \in HeadType, Fresh(m, p.to),
           \A i \in 1..Len(p.heads) : Fresh(p.heads[i], p.to)
    PROVE  \A i \in 1..Len(Got(p, m).heads) : Fresh(Got(p, m).heads[i], Got(p, m).to)
  <1>1. p.heads \in Seq(HeadType)
    BY DEF ReplyType
  <1>2. \A i \in 1..Len(Append(p.heads, m)) : Fresh(Append(p.heads, m)[i], p.to)
    BY <1>1, MoreHeads
  <1> QED
    BY <1>2, GotType

LEMMA RepliedContinue ==
    ASSUME NEW p, NEW r PROVE Replied(p, r, "Continue") = Got(p, Message(r))
  BY Zenon DEF Replied

LEMMA RepliedAlready ==
    ASSUME NEW p, NEW r PROVE Replied(p, r, "AlreadySend") = p
  BY Zenon DEF Replied

\* What a client gets before its connection is closed.
LastMessage(r) == IF r.status # "OK" THEN Message(r) ELSE Simple("NotFound")

LEMMA RepliedClose ==
    ASSUME NEW p, NEW r
    PROVE  Replied(p, r, "Close") = [Got(p, LastMessage(r)) EXCEPT !.open = FALSE]
  BY Zenon DEF Replied, LastMessage

\* A connection that is closed after a response of the file proxy: whatever
\* was sent before, the last message is a fresh refusal.
LEMMA ClosedReply ==
    ASSUME NEW p \in ReplyType, NEW r \in ResponseType, p.to # "hello",
           r.status # "OK" => r.headers = {} /\ r.data = 0,
           \A i \in 1..Len(p.heads) : Fresh(p.heads[i], p.to)
    PROVE  LET q == Replied(p, r, "Close") IN
           /\ q \in ReplyType /\ ~q.open /\ q.to = p.to
           /\ \A i \in 1..Len(q.heads) : Fresh(q.heads[i], q.to)
  <1> DEFINE m == LastMessage(r)
             g == Got(p, m)
             q == Replied(p, r, "Close")
  <1>1. m \in HeadType /\ m.status # "OK" /\ m.length = 0
        /\ m.headers = {"Content-Length"}
    BY MessageType, SimpleType DEF LastMessage
  <1>2. Fresh(m, p.to)
    BY <1>1, RefusalFresh
  <1> HIDE DEF m
  <1>3. g \in ReplyType /\ g.to = p.to
    BY <1>1, GotType
  <1>4. \A i \in 1..Len(g.heads) : Fresh(g.heads[i], g.to)
    BY <1>1, <1>2, GotFresh
  <1>5. q = [g EXCEPT !.open = FALSE]
    BY RepliedClose DEF m
  <1> HIDE DEF g, q
  <1>6. q \in ReplyType /\ ~q.open /\ q.to = g.to /\ q.heads = g.heads
    BY <1>3, <1>5 DEF ReplyType
  <1>7. \A i \in 1..Len(q.heads) : Fresh(q.heads[i], q.to)
    BY <1>4, <1>6
  <1> QED
    BY <1>3, <1>6, <1>7 DEF q
-----------------------------------------------------------------------------
(* The steps of the workers *)

\* The value of a record of the handler, field by field.
LEMMA WorkFields ==
    ASSUME NEW l \in WorkType
    PROVE  /\ l.pc \in Pcs /\ l.req \in Requests \cup {None} /\ l.size \in Int
           /\ l.remaining \in Int /\ l.offset \in Int
           /\ l.file \in {NoFile} \cup DOMAIN Sizes
           /\ l.blocking \in BOOLEAN /\ l.alone \in BOOLEAN
  BY DEF WorkType

\* What one worker has to show between two requests.
LEMMA IdleWorker ==
    ASSUME NEW w \in Threads, work'[w] = Idle, Announced(w)',
           \A i \in 1..Len(reply'[w].heads) : Fresh(reply'[w].heads[i], reply'[w].to)
    PROVE  WorkerInv(w)'
  <1>1. /\ work'[w].pc = "idle" /\ work'[w].file = NoFile
        /\ work'[w].blocking = FALSE
    BY DEF Idle
  <1>2. PlaceInv(w)' /\ PathInv(w)' /\ Back(w)' /\ ServesItsFile(w)'
    BY <1>1 DEF PlaceInv, PathInv, Back, ServesItsFile
  <1> QED
    BY <1>2 DEF WorkerInv

\* A connection that is closed announces nothing.
LEMMA ClosedAnnounced ==
    ASSUME NEW w \in Threads, ~reply'[w].open PROVE Announced(w)'
  BY DEF Announced

\* One message, to a client that has got nothing.
LEMMA OneMessage ==
    ASSUME NEW w \in Threads, NEW p \in ReplyType, NEW m \in HeadType,
           p.heads = <<>>, p.body = 0, Fresh(m, p.to), reply'[w] = Got(p, m)
    PROVE  /\ Announced(w)'
           /\ \A i \in 1..Len(reply'[w].heads) :
                Fresh(reply'[w].heads[i], reply'[w].to)
  <1>1. /\ reply'[w].heads = <<m>> /\ reply'[w].body = 0 + m.length
        /\ reply'[w].to = p.to
    BY GotType
  <1>2. m.length \in Nat
    BY DEF HeadType
  <1>3. Len(reply'[w].heads) = 1 /\ reply'[w].heads[1] = m
    BY <1>1
  <1>4. reply'[w].body = m.length
    BY <1>1, <1>2
  <1>5. Announced(w)'
    BY <1>3, <1>4 DEF Announced
  <1>6. \A i \in 1..1 : Fresh(reply'[w].heads[i], reply'[w].to)
    BY <1>1, <1>3
  <1> QED
    BY <1>3, <1>5, <1>6

LEMMA HelloFresh ==
    ASSUME NEW m, m.status = "OK",
           m.headers = {"Content-Type", "Connection", "Content-Length"}
    PROVE  Fresh(m, "hello")
  BY DEF Fresh

LEMMA TakeBounds ==
    ASSUME FInv, NEW n, bounds' = [bounds EXCEPT !.number = n]
    PROVE  BoundsType'
  BY DEF FInv, FileType, BoundsType

LEMMA TakeStep ==
    ASSUME FInv, NEW w \in bounds.workers, NEW r \in bounds.requests, Take(w, r)
    PROVE  FInv'
  <1>1. w \in Threads /\ r \in Requests
    BY DEF FInv, FileType, BoundsType
  <1>2. r.to \in {"file", "hello", "nowhere"}
    BY <1>1, FileConstants DEF Requests
  <1>3. BoundsType' /\ UNCHANGED <<file_path, disk>>
    BY TakeBounds DEF Take
  <1> DEFINE p == ReplyTo(r)
  <1>4. /\ p \in ReplyType /\ p.to = r.to /\ p.heads = <<>> /\ p.body = 0 /\ p.open
        /\ p.reading
    <2>1. <<>> \in Seq(HeadType)
      OBVIOUS
    <2> QED
      BY <1>2, <2>1 DEF ReplyTo, NoReply, ReplyType
  <1> HIDE DEF p
  <1>5. /\ work \in [Threads -> WorkType] /\ response \in [Threads -> ResponseType]
        /\ reply \in [Threads -> ReplyType]
    BY DEF FInv, FileType
  <1>6. CASE r.to = "file"
    <2> DEFINE l == [Idle EXCEPT !.pc = "assign", !.req = r]
    <2>1. l \in WorkType /\ l.pc = "assign"
      BY <1>1, Initials DEF Idle, WorkType, Pcs
    <2>2. Reset(response[w]) = NewResponse
      BY DEF Reset, NewResponse
    <2>3. /\ work' = [work EXCEPT ![w] = l]
          /\ response' = [response EXCEPT ![w] = NewResponse]
          /\ reply' = [reply EXCEPT ![w] = p]
      BY <1>6, <2>2 DEF Take, p
    <2>4. l.file = NoFile /\ l.blocking = FALSE
      BY DEF Idle
    <2> HIDE DEF l
    <2>5. /\ FileType' /\ OnlyOf(w) /\ work'[w] = l /\ response'[w] = NewResponse
          /\ reply'[w] = p
      BY <1>1, <1>3, <1>4, <2>1, <2>3, Initials, StepType
    <2>6. PlaceInv(w)' /\ PathInv(w)'
      BY <1>4, <1>6, <2>1, <2>5 DEF PlaceInv, PathInv
    <2>7. Back(w)' /\ Announced(w)' /\ ServesItsFile(w)'
      BY <2>1, <2>4, <2>5 DEF Back, Announced, ServesItsFile
    <2>8. \A i \in 1..Len(reply'[w].heads) : Fresh(reply'[w].heads[i], reply'[w].to)
      BY <1>4, <2>5
    <2> QED
      BY <1>1, <2>5, <2>6, <2>7, <2>8, OneWorker DEF WorkerInv
  <1>7. CASE r.to = "hello"
    <2> DEFINE resp == Hello(Reset(response[w]))
               m == Message(resp)
    <2>1. /\ resp \in ResponseType /\ resp.status = "OK"
          /\ resp.headers = {"Content-Type", "Connection", "Content-Length"}
      BY DEF Hello, ResponseType, Statuses, HeaderNames
    <2>2. /\ response' = [response EXCEPT ![w] = resp]
          /\ reply' = [reply EXCEPT ![w] = Got(p, m)] /\ work' = work
      BY <1>7, RepliedContinue DEF Take, p
    <2> HIDE DEF resp
    <2>3. m \in HeadType /\ m.status = "OK"
          /\ m.headers = {"Content-Type", "Connection", "Content-Length"}
      BY <2>1, MessageType
    <2> HIDE DEF m
    <2>4. Fresh(m, p.to)
      BY <2>3, <1>4, <1>7, HelloFresh
    <2>5. Got(p, m) \in ReplyType
      BY <1>4, <2>3, GotType
    <2>6. work' = [work EXCEPT ![w] = work[w]] /\ work[w] \in WorkType
      BY <1>1, <1>5, <2>2
    <2>7. /\ FileType' /\ OnlyOf(w) /\ work'[w] = work[w] /\ reply'[w] = Got(p, m)
      BY <1>1, <1>3, <2>1, <2>2, <2>5, <2>6, StepType
    <2>8. /\ Announced(w)'
          /\ \A i \in 1..Len(reply'[w].heads) : Fresh(reply'[w].heads[i], reply'[w].to)
      BY <1>1, <1>4, <2>3, <2>4, <2>7, OneMessage
    <2>9. work'[w].pc = "idle" /\ Back(w)
      BY <1>1, <2>7 DEF Take, FInv, WorkerInv
    <2>10. PlaceInv(w)' /\ PathInv(w)' /\ Back(w)' /\ ServesItsFile(w)'
      BY <2>7, <2>9 DEF PlaceInv, PathInv, Back, ServesItsFile
    <2> QED
      BY <1>1, <2>7, <2>8, <2>10, OneWorker DEF WorkerInv
  <1>8. CASE r.to = "nowhere"
    <2> DEFINE l == [Idle EXCEPT !.pc = "unrouted", !.req = r]
    <2>1. l \in WorkType /\ l.pc = "unrouted"
      BY <1>1, Initials DEF Idle, WorkType, Pcs
    <2>2. /\ work' = [work EXCEPT ![w] = l]
          /\ response' = [response EXCEPT ![w] = response[w]]
          /\ reply' = [reply EXCEPT ![w] = p]
      BY <1>5, <1>8 DEF Take, p
    <2>3. l.file = NoFile /\ l.blocking = FALSE
      BY DEF Idle
    <2>4. response[w] \in ResponseType
      BY <1>1, <1>5
    <2> HIDE DEF l
    <2>5. /\ FileType' /\ OnlyOf(w) /\ work'[w] = l /\ reply'[w] = p
      BY <1>1, <1>3, <1>4, <2>1, <2>2, <2>4, StepType
    <2>6. PlaceInv(w)' /\ PathInv(w)'
      BY <1>4, <1>8, <2>1, <2>5 DEF PlaceInv, PathInv
    <2>7. Back(w)' /\ Announced(w)' /\ ServesItsFile(w)'
      BY <2>1, <2>3, <2>5 DEF Back, Announced, ServesItsFile
    <2>8. \A i \in 1..Len(reply'[w].heads) : Fresh(reply'[w].heads[i], reply'[w].to)
      BY <1>4, <2>5
    <2> QED
      BY <1>1, <2>5, <2>6, <2>7, <2>8, OneWorker DEF WorkerInv
  <1> QED
    BY <1>2, <1>6, <1>7, <1>8
\* The values of one worker before a step.
LEMMA Before ==
    ASSUME FInv, NEW w \in Threads
    PROVE  /\ work \in [Threads -> WorkType] /\ response \in [Threads -> ResponseType]
           /\ reply \in [Threads -> ReplyType]
           /\ work[w] \in WorkType /\ response[w] \in ResponseType
           /\ reply[w] \in ReplyType /\ PlaceInv(w) /\ PathInv(w) /\ Back(w)
           /\ Announced(w) /\ ServesItsFile(w)
           /\ \A i \in 1..Len(reply[w].heads) : Fresh(reply[w].heads[i], reply[w].to)
  BY DEF FInv, FileType, WorkerInv

LEMMA UnroutedStep ==
    ASSUME FInv, NEW w \in Threads, Unrouted(w) PROVE FInv'
  <1> USE Before
  <1> DEFINE m == Simple("NotFound")
  <1>1. reply[w].to = "nowhere" /\ reply[w].heads = <<>> /\ reply[w].body = 0
    BY DEF PlaceInv, Unrouted
  <1>2. Fresh(m, reply[w].to) /\ m \in HeadType
    BY <1>1, SimpleType, RefusalFresh
  <1>3. /\ work' = [work EXCEPT ![w] = Idle]
        /\ response' = [response EXCEPT ![w] = response[w]]
        /\ reply' = [reply EXCEPT ![w] = Got(reply[w], m)]
        /\ UNCHANGED <<file_path, disk, bounds>>
    BY DEF Unrouted
  <1> HIDE DEF m
  <1>4. Got(reply[w], m) \in ReplyType
    BY <1>2, GotType
  <1>5. FileType' /\ OnlyOf(w) /\ work'[w] = Idle /\ reply'[w] = Got(reply[w], m)
    BY <1>3, <1>4, SameBounds, StepType, Initials
  <1>6. /\ Announced(w)'
        /\ \A i \in 1..Len(reply'[w].heads) : Fresh(reply'[w].heads[i], reply'[w].to)
    BY <1>1, <1>2, <1>5, OneMessage
  <1> QED
    BY <1>5, <1>6, IdleWorker, OneWorker

LEMMA StatStep ==
    ASSUME FInv, NEW w \in Threads, Stat(w) PROVE FInv'
  <1> USE Before
  <1> DEFINE l == [work[w] EXCEPT !.size = FileSize(file_path), !.pc = "log"]
  <1>1. FileSize(file_path) \in Int
    BY FileConstants DEF FileSize, There, FInv, FileType
  <1>2. /\ l \in WorkType /\ l.pc = "log" /\ l.alone = work[w].alone
        /\ l.req = work[w].req /\ l.file = work[w].file
        /\ l.blocking = work[w].blocking
    BY <1>1 DEF WorkType, Pcs
  <1>3. /\ work' = [work EXCEPT ![w] = l]
        /\ response' = [response EXCEPT ![w] = response[w]]
        /\ reply' = [reply EXCEPT ![w] = reply[w]]
        /\ UNCHANGED <<file_path, disk, bounds>> /\ work[w].pc = "stat"
    BY DEF Stat
  <1> HIDE DEF l
  <1>4. /\ FileType' /\ OnlyOf(w) /\ work'[w] = l /\ reply'[w] = reply[w]
        /\ response'[w] = response[w] /\ file_path' = file_path
    BY <1>2, <1>3, SameBounds, StepType
  <1>5. PlaceInv(w)' /\ PathInv(w)'
    BY <1>2, <1>3, <1>4, ZenonT(30) DEF PlaceInv, PathInv, Wanted
  <1>6. Back(w)' /\ Announced(w)' /\ ServesItsFile(w)'
    BY <1>2, <1>3, <1>4 DEF Back, Announced, ServesItsFile
  <1>7. \A i \in 1..Len(reply'[w].heads) : Fresh(reply'[w].heads[i], reply'[w].to)
    BY <1>4
  <1> QED
    BY <1>4, <1>5, <1>6, <1>7, OneWorker DEF WorkerInv

LEMMA LogPathStep ==
    ASSUME FInv, NEW w \in Threads, LogPath(w) PROVE FInv'
  <1> USE Before
  <1> DEFINE l == [work[w] EXCEPT !.pc = "logged"]
  <1>1. /\ l \in WorkType /\ l.pc = "logged" /\ l.alone = work[w].alone
        /\ l.req = work[w].req /\ l.file = work[w].file
        /\ l.blocking = work[w].blocking
    BY DEF WorkType, Pcs
  <1>2. /\ work' = [work EXCEPT ![w] = l]
        /\ response' = [response EXCEPT ![w] = response[w]]
        /\ reply' = [reply EXCEPT ![w] = reply[w]]
        /\ UNCHANGED <<file_path, disk, bounds>> /\ work[w].pc = "log"
    BY DEF LogPath
  <1> HIDE DEF l
  <1>3. /\ FileType' /\ OnlyOf(w) /\ work'[w] = l /\ reply'[w] = reply[w]
        /\ response'[w] = response[w] /\ file_path' = file_path
    BY <1>1, <1>2, SameBounds, StepType
  <1>4. PlaceInv(w)' /\ PathInv(w)'
    BY <1>1, <1>2, <1>3, ZenonT(30) DEF PlaceInv, PathInv, Wanted
  <1>5. Back(w)' /\ Announced(w)' /\ ServesItsFile(w)'
    BY <1>1, <1>2, <1>3 DEF Back, Announced, ServesItsFile
  <1>6. \A i \in 1..Len(reply'[w].heads) : Fresh(reply'[w].heads[i], reply'[w].to)
    BY <1>3
  <1> QED
    BY <1>3, <1>4, <1>5, <1>6, OneWorker DEF WorkerInv

\* Leaving a handler of the file proxy with a closed connection.
LEMMA CloseStep ==
    ASSUME FInv, NEW w \in Threads, NEW r \in ResponseType,
           reply[w].to = "file", r.status # "OK" => r.headers = {} /\ r.data = 0,
           work' = [work EXCEPT ![w] = Idle], response' = [response EXCEPT ![w] = r],
           reply' = [reply EXCEPT ![w] = Replied(reply[w], r, "Close")],
           UNCHANGED <<file_path, disk, bounds>>
    PROVE  FInv'
  <1> USE Before
  <1> DEFINE q == Replied(reply[w], r, "Close")
  <1>1. /\ q \in ReplyType /\ ~q.open
        /\ \A i \in 1..Len(q.heads) : Fresh(q.heads[i], q.to)
    BY ClosedReply
  <1> HIDE DEF q
  <1>2. reply' = [reply EXCEPT ![w] = q]
    BY DEF q
  <1>3. FileType' /\ OnlyOf(w) /\ work'[w] = Idle /\ reply'[w] = q
    BY <1>1, <1>2, SameBounds, StepType, Initials
  <1>4. Announced(w)'
    BY <1>1, <1>3, ClosedAnnounced
  <1>5. \A i \in 1..Len(reply'[w].heads) : Fresh(reply'[w].heads[i], reply'[w].to)
    BY <1>1, <1>3
  <1> QED
    BY <1>3, <1>4, <1>5, IdleWorker, OneWorker

LEMMA Responses ==
    /\ WithHead(NewResponse) \in ResponseType
    /\ WithHead(NewResponse).status = "OK" /\ WithHead(NewResponse).data = 0
    /\ WithHead(NewResponse).headers = {"Content-Length", "Content-Type"}
    /\ \A code \in {"NotFound", "Forbidden"} :
        /\ Failed(NewResponse, code) \in ResponseType
        /\ Failed(NewResponse, code).status = code
        /\ Failed(NewResponse, code).headers = {}
        /\ Failed(NewResponse, code).data = 0
  BY DEF WithHead, NewResponse, ResponseType, Failed, Statuses, HeaderNames

LEMMA SendHeadStep ==
    ASSUME FInv, NEW w \in Threads, SendHead(w) PROVE FInv'
  <1> USE Before
  <1>1. /\ reply[w].to = "file" /\ reply[w].heads = <<>> /\ reply[w].body = 0
        /\ reply[w].open /\ response[w] = NewResponse
    BY DEF PlaceInv, SendHead
  <1>2. UNCHANGED <<file_path, disk, bounds>> /\ work[w].pc = "logged"
    BY DEF SendHead
  <1>3. CASE Return(w, Failed(response[w], "NotFound"), "Continue")
    <2> DEFINE r == Failed(NewResponse, "NotFound")
               m == Message(r)
    <2>1. r \in ResponseType /\ r.status # "OK" /\ r.headers = {} /\ r.data = 0
      BY Responses
    <2>2. /\ work' = [work EXCEPT ![w] = Idle] /\ response' = [response EXCEPT ![w] = r]
          /\ reply' = [reply EXCEPT ![w] = Got(reply[w], m)]
      BY <1>1, <1>3, RepliedContinue DEF Return
    <2> HIDE DEF r
    <2>3. /\ m \in HeadType /\ m.status # "OK" /\ m.length = 0
          /\ m.headers = {"Content-Length"}
      BY <2>1, MessageType
    <2> HIDE DEF m
    <2>4. Fresh(m, reply[w].to)
      BY <1>1, <2>3, RefusalFresh
    <2>5. Got(reply[w], m) \in ReplyType
      BY <2>3, GotType
    <2>6. FileType' /\ OnlyOf(w) /\ work'[w] = Idle /\ reply'[w] = Got(reply[w], m)
      BY <1>2, <2>1, <2>2, <2>5, SameBounds, StepType, Initials
    <2>7. /\ Announced(w)'
          /\ \A i \in 1..Len(reply'[w].heads) : Fresh(reply'[w].heads[i], reply'[w].to)
      BY <1>1, <2>3, <2>4, <2>6, OneMessage
    <2> QED
      BY <2>6, <2>7, IdleWorker, OneWorker
  <1>4. CASE Return(w, WithHead(response[w]), "Close")
    BY <1>1, <1>2, <1>4, Responses, CloseStep DEF Return
  <1>5. CASE /\ work[w].size >= 0
             /\ response' = [response EXCEPT ![w] = WithHead(response[w])]
             /\ reply' = [reply EXCEPT ![w].heads =
                    Append(@, [status |-> WithHead(response[w]).status,
                               length |-> work[w].size,
                               headers |-> WithHead(response[w]).headers])]
             /\ work' = [work EXCEPT ![w].pc = "open"]
    <2> DEFINE r == WithHead(NewResponse)
               m == FileHead(work[w].size)
               l == [work[w] EXCEPT !.pc = "open"]
               p == [reply[w] EXCEPT !.heads = Append(@, m)]
    <2>1. r \in ResponseType /\ r.status = "OK"
          /\ r.headers = {"Content-Length", "Content-Type"}
      BY Responses
    <2>2. m = [status |-> r.status, length |-> work[w].size, headers |-> r.headers]
      BY <2>1 DEF FileHead
    <2>3. /\ l \in WorkType /\ l.pc = "open" /\ l.alone = work[w].alone
          /\ l.req = work[w].req /\ l.file = work[w].file
          /\ l.blocking = work[w].blocking /\ l.size = work[w].size
      BY DEF WorkType, Pcs
    <2>4. work[w].size \in Nat
      BY <1>5, WorkFields
    <2>5. m \in HeadType
      BY <2>4 DEF FileHead, HeadType, Statuses, HeaderNames
    <2>6. Append(reply[w].heads, m) = <<m>> /\ <<m>> \in Seq(HeadType)
      BY <1>1, <2>5
    <2> HIDE DEF m
    <2>7. p \in ReplyType /\ p.heads = <<m>> /\ p.to = "file" /\ p.body = 0 /\ p.open
      BY <1>1, <2>6 DEF ReplyType
    <2>8. /\ work' = [work EXCEPT ![w] = l] /\ response' = [response EXCEPT ![w] = r]
          /\ reply' = [reply EXCEPT ![w] = p]
      BY <1>1, <1>5, <2>2
    <2> HIDE DEF l, p, r
    <2>9. /\ FileType' /\ OnlyOf(w) /\ work'[w] = l /\ reply'[w] = p
          /\ response'[w] = r /\ file_path' = file_path
      BY <1>2, <2>1, <2>3, <2>7, <2>8, SameBounds, StepType
    <2>10. PlaceInv(w)'
      BY <1>5, <2>3, <2>7, <2>9 DEF PlaceInv, m, r
    <2>11. PathInv(w)'
      BY <1>2, <2>3, <2>9 DEF PathInv, Wanted
    <2>12. Back(w)' /\ Announced(w)' /\ ServesItsFile(w)'
      BY <1>2, <2>3, <2>9 DEF Back, Announced, ServesItsFile
    <2>13. Fresh(m, "file")
      BY FileHeadFresh DEF m
    <2>14. \A i \in 1..Len(reply'[w].heads) : Fresh(reply'[w].heads[i], reply'[w].to)
      BY <2>7, <2>9, <2>13
    <2> QED
      BY <2>9, <2>10, <2>11, <2>12, <2>14, OneWorker DEF WorkerInv
  <1> QED
    BY <1>3, <1>4, <1>5 DEF SendHead
LEMMA OpenStep ==
    ASSUME FInv, NEW w \in Threads, Open(w) PROVE FInv'
  <1> USE Before
  <1>1. PICK f \in {NoFile} \cup (IF There(file_path) THEN {file_path} ELSE {}) :
            work' = [work EXCEPT ![w].file = f, ![w].remaining = work[w].size,
                                 ![w].blocking = TRUE, ![w].pc = "send"]
    BY DEF Open
  <1> DEFINE l == [work[w] EXCEPT !.file = f, !.remaining = work[w].size,
                                  !.blocking = TRUE, !.pc = "send"]
  <1>2. f \in {NoFile} \cup DOMAIN Sizes /\ f \in {NoFile, file_path}
    BY DEF There, FInv, FileType
  <1>3. /\ l \in WorkType /\ l.pc = "send" /\ l.alone = work[w].alone
        /\ l.req = work[w].req /\ l.file = f /\ l.size = work[w].size
        /\ l.remaining = work[w].size
    BY <1>2, WorkFields DEF WorkType, Pcs
  <1>4. /\ work' = [work EXCEPT ![w] = l]
        /\ response' = [response EXCEPT ![w] = response[w]]
        /\ reply' = [reply EXCEPT ![w] = reply[w]]
        /\ UNCHANGED <<file_path, disk, bounds>> /\ work[w].pc = "open"
    BY <1>1 DEF Open
  <1> HIDE DEF l
  <1>5. /\ FileType' /\ OnlyOf(w) /\ work'[w] = l /\ reply'[w] = reply[w]
        /\ response'[w] = response[w] /\ file_path' = file_path
    BY <1>3, <1>4, SameBounds, StepType
  <1>6. PlaceInv(w)'
    BY <1>3, <1>4, <1>5, WorkFields DEF PlaceInv
  <1>7. PathInv(w)' /\ Back(w)' /\ Announced(w)'
    BY <1>3, <1>5 DEF PathInv, Back, Announced
  <1>8. ServesItsFile(w)'
    BY <1>2, <1>3, <1>4, <1>5, ZenonT(30) DEF PathInv, ServesItsFile, Wanted
  <1>9. \A i \in 1..Len(reply'[w].heads) : Fresh(reply'[w].heads[i], reply'[w].to)
    BY <1>5
  <1> QED
    BY <1>5, <1>6, <1>7, <1>8, <1>9, OneWorker DEF WorkerInv

LEMMA Moved ==
    ASSUME NEW a \in Nat, NEW b \in Int, NEW s \in Nat, s <= b
    PROVE  b - s >= 0 /\ (a + s) + (b - s) = a + b
  OBVIOUS

LEMMA SendFileStep ==
    ASSUME FInv, NEW w \in Threads, SendFile(w) PROVE FInv'
  <1> USE Before
  <1>1. PICK s \in 1..work[w].remaining :
            /\ work' = [work EXCEPT ![w].remaining = @ - s, ![w].offset = @ + s]
            /\ reply' = [reply EXCEPT ![w].body = @ + s]
    BY DEF SendFile
  <1> DEFINE l == [work[w] EXCEPT !.remaining = @ - s, !.offset = @ + s]
             p == [reply[w] EXCEPT !.body = @ + s]
  <1>2. /\ work[w].remaining \in Int /\ work[w].offset \in Int
        /\ work[w].size \in Int /\ reply[w].body \in Nat
    BY WorkFields DEF ReplyType
  <1>3. s \in Nat /\ s <= work[w].remaining /\ work[w].pc = "send"
    BY <1>2 DEF SendFile
  <1>4. /\ work[w].remaining - s \in Int /\ work[w].offset + s \in Int
        /\ reply[w].body + s \in Nat
    BY <1>2, <1>3
  <1>5. /\ l \in WorkType /\ l.pc = "send" /\ l.alone = work[w].alone
        /\ l.req = work[w].req /\ l.file = work[w].file /\ l.size = work[w].size
        /\ l.remaining = work[w].remaining - s
    BY <1>3, <1>4 DEF WorkType
  <1>6. /\ p \in ReplyType /\ p.heads = reply[w].heads /\ p.to = reply[w].to
        /\ p.body = reply[w].body + s
    BY <1>4 DEF ReplyType
  <1>7. /\ work' = [work EXCEPT ![w] = l]
        /\ response' = [response EXCEPT ![w] = response[w]]
        /\ reply' = [reply EXCEPT ![w] = p]
        /\ UNCHANGED <<file_path, disk, bounds>>
    BY <1>1 DEF SendFile
  <1> HIDE DEF l, p
  <1>8. /\ FileType' /\ OnlyOf(w) /\ work'[w] = l /\ reply'[w] = p
        /\ response'[w] = response[w]
    BY <1>5, <1>6, <1>7, SameBounds, StepType
  <1>9. /\ reply[w].to = "file" /\ work[w].size >= 0
        /\ reply[w].heads = <<FileHead(work[w].size)>>
        /\ response[w] = WithHead(NewResponse)
        /\ reply[w].body + work[w].remaining = work[w].size
    BY <1>3 DEF PlaceInv
  <1>10. l.remaining >= 0 /\ p.body + l.remaining = work[w].size
    BY <1>2, <1>5, <1>6, <1>9, <1>3, Moved
  <1>11. PlaceInv(w)'
    BY <1>5, <1>6, <1>8, <1>9, <1>10 DEF PlaceInv
  <1>12. PathInv(w)' /\ Back(w)' /\ Announced(w)' /\ ServesItsFile(w)'
    BY <1>3, <1>5, <1>8 DEF PathInv, Back, Announced, ServesItsFile
  <1>13. \A i \in 1..Len(reply'[w].heads) : Fresh(reply'[w].heads[i], reply'[w].to)
    BY <1>6, <1>8
  <1> QED
    BY <1>8, <1>11, <1>12, <1>13, OneWorker DEF WorkerInv

LEMMA DeferredIdle ==
    ASSUME NEW l \in WorkType
    PROVE  [Idle EXCEPT !.blocking = Deferred(l).blocking,
                        !.file = Deferred(l).file] = Idle
  <1>1. Deferred(l).blocking = FALSE /\ Deferred(l).file = NoFile
    BY DEF Deferred, WorkType
  <1>2. Idle.blocking = FALSE /\ Idle.file = NoFile
    BY DEF Idle
  <1>3. ASSUME NEW i \in WorkType, i.blocking = FALSE, i.file = NoFile
        PROVE  [i EXCEPT !.blocking = FALSE] = i /\ [i EXCEPT !.file = NoFile] = i
    BY <1>3 DEF WorkType
  <1>4. [Idle EXCEPT !.blocking = FALSE, !.file = NoFile]
            = [[Idle EXCEPT !.blocking = FALSE] EXCEPT !.file = NoFile]
    OBVIOUS
  <1> QED
    BY <1>1, <1>2, <1>3, <1>4, Initials

\* The sendfile loop ends with an error.
LEMMA SendErrorStep ==
    ASSUME FInv, NEW w \in Threads, work[w].pc = "send", Leave(w, "Close")
    PROVE  FInv'
  <1> USE Before
  <1>1. work' = [work EXCEPT ![w] = Idle]
    BY DeferredIdle DEF Leave
  <1>2. /\ response' = [response EXCEPT ![w] = response[w]]
        /\ reply' = [reply EXCEPT ![w] = Replied(reply[w], response[w], "Close")]
        /\ UNCHANGED <<file_path, disk, bounds>>
    BY DEF Leave
  <1>3. reply[w].to = "file" /\ response[w].status = "OK"
    BY Responses DEF PlaceInv
  <1> QED
    BY <1>1, <1>2, <1>3, CloseStep

LEMMA SendDoneStep ==
    ASSUME FInv, NEW w \in Threads, SendDone(w) PROVE FInv'
  <1> USE Before
  <1>1. work' = [work EXCEPT ![w] = Idle]
    BY DeferredIdle DEF SendDone, Leave
  <1>2. /\ response' = [response EXCEPT ![w] = response[w]]
        /\ reply' = [reply EXCEPT ![w] = reply[w]]
        /\ UNCHANGED <<file_path, disk, bounds>>
    BY RepliedAlready DEF SendDone, Leave
  <1>3. FileType' /\ OnlyOf(w) /\ work'[w] = Idle /\ reply'[w] = reply[w]
    BY <1>1, <1>2, SameBounds, StepType, Initials
  <1>4. /\ reply[w].heads = <<FileHead(work[w].size)>>
        /\ reply[w].body + 0 = work[w].size
    BY DEF PlaceInv, SendDone
  <1>5. Len(reply[w].heads) = 1 /\ reply[w].heads[1].length = work[w].size
    BY <1>4 DEF FileHead
  <1>6. reply[w].body = work[w].size
    BY <1>4 DEF ReplyType
  <1>7. Announced(w)'
    BY <1>3, <1>5, <1>6 DEF Announced
  <1> QED
    BY <1>3, <1>7, IdleWorker, OneWorker

LEMMA StallStep ==
    ASSUME FInv, NEW w \in Threads, Stall(w) PROVE FInv'
  <1> USE Before
  <1> DEFINE p == [reply[w] EXCEPT !.reading = FALSE]
  <1>1. /\ p \in ReplyType /\ p.heads = reply[w].heads /\ p.to = reply[w].to
        /\ p.body = reply[w].body /\ p.open = reply[w].open
    BY DEF ReplyType
  <1>2. /\ work' = [work EXCEPT ![w] = work[w]]
        /\ response' = [response EXCEPT ![w] = response[w]]
        /\ reply' = [reply EXCEPT ![w] = p]
        /\ UNCHANGED <<file_path, disk, bounds>>
    BY DEF Stall
  <1> HIDE DEF p
  <1>3. /\ FileType' /\ OnlyOf(w) /\ work'[w] = work[w] /\ reply'[w] = p
        /\ response'[w] = response[w] /\ file_path' = file_path
    BY <1>1, <1>2, SameBounds, StepType
  <1>4. PlaceInv(w)' /\ PathInv(w)'
    BY <1>1, <1>3, ZenonT(30) DEF PlaceInv, PathInv, Wanted, Assigned
  <1>5. Back(w)' /\ Announced(w)' /\ ServesItsFile(w)'
    BY <1>1, <1>3 DEF Back, Announced, ServesItsFile
  <1>6. \A i \in 1..Len(reply'[w].heads) : Fresh(reply'[w].heads[i], reply'[w].to)
    BY <1>1, <1>3
  <1> QED
    BY <1>3, <1>4, <1>5, <1>6, OneWorker DEF WorkerInv
-----------------------------------------------------------------------------
(* The steps that write the shared string *)

\* A worker in the middle of handle loses the string to another one, and
\* keeps everything that does not depend on it.
LEMMA OtherWorker ==
    ASSUME FInv, NEW v \in Threads,
           response'[v] = response[v], reply'[v] = reply[v],
           work'[v] = IF work[v].pc \in Using
                      THEN [work[v] EXCEPT !.alone = FALSE] ELSE work[v]
    PROVE  WorkerInv(v)' /\ work'[v] \in WorkType
  <1> USE Before
  <1>1. /\ work'[v] \in WorkType /\ work'[v].pc = work[v].pc
        /\ work'[v].req = work[v].req /\ work'[v].size = work[v].size
        /\ work'[v].remaining = work[v].remaining
        /\ work'[v].file = work[v].file /\ work'[v].blocking = work[v].blocking
        /\ work[v].pc \notin Using => work'[v].alone = work[v].alone
        /\ work[v].pc \in Using => work'[v].alone = FALSE
    BY DEF WorkType
  <1>2. PlaceInv(v)'
    BY <1>1 DEF PlaceInv
  <1>3. PathInv(v)'
    BY <1>1 DEF PathInv, Using
  <1>4. Back(v)' /\ Announced(v)' /\ ServesItsFile(v)'
    BY <1>1 DEF Back, Announced, ServesItsFile
  <1>5. \A i \in 1..Len(reply'[v].heads) : Fresh(reply'[v].heads[i], reply'[v].to)
    OBVIOUS
  <1> QED
    BY <1>1, <1>2, <1>3, <1>4, <1>5 DEF WorkerInv

\* A worker writes the string: every other one in the middle of handle sees
\* it, and it is alone only if there is none.
LEMMA WriteStep ==
    ASSUME FInv, NEW w \in Threads, NEW l \in WorkType, NEW r \in ResponseType,
           NEW p \in ReplyType, NEW new, new \in WorkType,
           work' = [Seen(w, new) EXCEPT ![w] = l],
           response' = [response EXCEPT ![w] = r],
           reply' = [reply EXCEPT ![w] = p], UNCHANGED <<disk, bounds>>,
           work'[w] = l /\ response'[w] = r /\ reply'[w] = p => WorkerInv(w)'
    PROVE  FInv'
  <1> USE Before
  <1>1. work'[w] = l /\ response'[w] = r /\ reply'[w] = p
    BY DEF Seen
  <1>2. ASSUME NEW v \in Threads, v # w
        PROVE  /\ response'[v] = response[v] /\ reply'[v] = reply[v]
               /\ work'[v] = IF work[v].pc \in Using
                             THEN [work[v] EXCEPT !.alone = FALSE] ELSE work[v]
    <2>1. v \in Others(w) <=> work[v].pc \in Using
      BY <1>2 DEF Others
    <2>2. work'[v] = Seen(w, new)[v]
      BY <1>2 DEF Seen
    <2>3. Seen(w, new)[v] = IF v \in Others(w)
                            THEN [work[v] EXCEPT !.alone = FALSE] ELSE work[v]
      BY <1>2 DEF Seen
    <2> QED
      BY <1>2, <2>1, <2>2, <2>3
  <1>3. ASSUME NEW v \in Threads, v # w PROVE WorkerInv(v)' /\ work'[v] \in WorkType
    BY <1>2, <1>3, OtherWorker
  <1>4. work' \in [Threads -> WorkType]
    BY <1>1, <1>3 DEF Seen
  <1>5. FileType'
    BY <1>4, SameBounds DEF FInv, FileType
  <1> QED
    BY <1>1, <1>3, <1>5 DEF FInv

LEMMA AssignStep ==
    ASSUME FInv, NEW w \in Threads, Assign(w) PROVE FInv'
  <1> USE Before
  <1>1. /\ reply[w].to = "file" /\ reply[w].heads = <<>> /\ reply[w].body = 0
        /\ reply[w].open /\ response[w] = NewResponse /\ work[w].pc = "assign"
    BY DEF PlaceInv, Assign
  <1>2. UNCHANGED <<disk, bounds>> /\ file_path' \in Racy(w, Assigned(w))
    BY DEF Assign
  <1> DEFINE path == work[w].req.path
  <1>3. CASE path \in {None, ".."}
    <2> DEFINE code == IF path = None THEN "NotFound" ELSE "Forbidden"
               r == Failed(NewResponse, code)
               p == Replied(reply[w], r, "Close")
    <2>1. r \in ResponseType /\ r.headers = {} /\ r.data = 0
      BY Responses
    <2>2. /\ work' = [Seen(w, Idle) EXCEPT ![w] = Idle]
          /\ response' = [response EXCEPT ![w] = r]
          /\ reply' = [reply EXCEPT ![w] = p]
      BY <1>1, <1>3 DEF Assign
    <2> HIDE DEF r
    <2>3. /\ p \in ReplyType /\ ~p.open
          /\ \A i \in 1..Len(p.heads) : Fresh(p.heads[i], p.to)
      BY <1>1, <2>1, ClosedReply
    <2> HIDE DEF p
    <2>4. ASSUME work'[w] = Idle, reply'[w] = p PROVE WorkerInv(w)'
      BY <2>3, <2>4, ClosedAnnounced, IdleWorker
    <2> QED
      BY <1>2, <2>1, <2>2, <2>3, <2>4, Initials, WriteStep
  <1>4. CASE path \notin {None, ".."}
    <2> DEFINE new == [work[w] EXCEPT !.pc = "append"]
               l == [new EXCEPT !.alone = @ /\ Others(w) = {}]
    <2>1. /\ new \in WorkType /\ new.pc = "append" /\ new.req = work[w].req
          /\ new.file = work[w].file /\ new.blocking = work[w].blocking
      BY DEF WorkType, Pcs
    <2>2. /\ work' = Seen(w, new) /\ UNCHANGED <<response, reply>>
      BY <1>4 DEF Assign
    <2> HIDE DEF new
    <2>3. new.alone \in BOOLEAN /\ (new.alone /\ Others(w) = {}) \in BOOLEAN
      BY <2>1, WorkFields
    <2>4. /\ l \in WorkType /\ l.pc = "append" /\ l.req = work[w].req
          /\ l.file = work[w].file /\ l.blocking = work[w].blocking
          /\ l.alone => Others(w) = {}
      BY <2>1, <2>3 DEF WorkType
    <2>5. work' = [Seen(w, new) EXCEPT ![w] = l]
      BY <2>2 DEF Seen
    <2> HIDE DEF l
    <2>6. /\ response' = [response EXCEPT ![w] = response[w]]
          /\ reply' = [reply EXCEPT ![w] = reply[w]]
      BY <2>2
    <2>7. ASSUME work'[w] = l, response'[w] = response[w], reply'[w] = reply[w]
          PROVE  WorkerInv(w)'
      <3>1. PlaceInv(w)'
        BY <1>1, <2>4, <2>7 DEF PlaceInv
      <3>2. l.alone => file_path' = Assigned(w)
        BY <1>2, <2>4 DEF Racy
      <3>3. PathInv(w)'
        BY <2>4, <2>7, <3>2 DEF PathInv, Assigned
      <3>4. Back(w)' /\ Announced(w)' /\ ServesItsFile(w)'
        BY <1>1, <2>4, <2>7 DEF Back, Announced, ServesItsFile
      <3>5. \A i \in 1..Len(reply'[w].heads) : Fresh(reply'[w].heads[i], reply'[w].to)
        BY <2>7
      <3> QED
        BY <3>1, <3>3, <3>4, <3>5 DEF WorkerInv
    <2> QED
      BY <1>2, <2>1, <2>4, <2>5, <2>6, <2>7, WriteStep
  <1> QED
    BY <1>3, <1>4

LEMMA TwoNames == ASSUME NEW a, NEW b PROVE Append(<<a>>, b) = <<a, b>>
  <1> DEFINE S == {a, b}
  <1>1. <<a>> \in Seq(S) /\ b \in S /\ <<a, b>> \in Seq(S) /\ Len(<<a>>) = 1
        /\ <<a>>[1] = a
    OBVIOUS
  <1> HIDE DEF S
  <1>2. /\ Append(<<a>>, b) \in Seq(S) /\ Len(Append(<<a>>, b)) = 2
        /\ Append(<<a>>, b)[1] = a /\ Append(<<a>>, b)[2] = b
    BY <1>1, AppendProperties
  <1> DEFINE s == Append(<<a>>, b)
             t == <<a, b>>
  <1>3. t \in Seq(S) /\ Len(t) = 2 /\ t[1] = a /\ t[2] = b
    BY <1>1
  <1> HIDE DEF s, t
  <1>4. /\ s \in Seq(S) /\ t \in Seq(S) /\ Len(s) = Len(t)
        /\ \A i \in 1..Len(s) : s[i] = t[i]
    BY <1>2, <1>3 DEF s
  <1>5. s = t
    BY <1>4, SeqEqual
  <1> QED
    BY <1>5 DEF s, t

LEMMA AppendPathStep ==
    ASSUME FInv, NEW w \in Threads, AppendPath(w) PROVE FInv'
  <1> USE Before
  <1> DEFINE path == work[w].req.path
             text == Append(file_path, IF path = "" THEN Defval ELSE path)
             new == [work[w] EXCEPT !.pc = "stat"]
             l == [new EXCEPT !.alone = @ /\ Others(w) = {}]
  <1>1. /\ reply[w].to = "file" /\ reply[w].heads = <<>> /\ reply[w].body = 0
        /\ reply[w].open /\ response[w] = NewResponse /\ work[w].pc = "append"
    BY DEF PlaceInv, AppendPath
  <1>2. /\ UNCHANGED <<disk, bounds, response, reply>> /\ file_path' \in Racy(w, text)
        /\ work' = Seen(w, new)
    BY DEF AppendPath
  <1>3. /\ new \in WorkType /\ new.pc = "stat" /\ new.req = work[w].req
        /\ new.file = work[w].file /\ new.blocking = work[w].blocking
        /\ new.alone = work[w].alone
    BY DEF WorkType, Pcs
  <1> HIDE DEF new
  <1>4. new.alone \in BOOLEAN /\ (new.alone /\ Others(w) = {}) \in BOOLEAN
    BY <1>3, WorkFields
  <1>5. /\ l \in WorkType /\ l.pc = "stat" /\ l.req = work[w].req
        /\ l.file = work[w].file /\ l.blocking = work[w].blocking
        /\ l.alone => Others(w) = {} /\ work[w].alone
    BY <1>3, <1>4 DEF WorkType
  <1>6. work' = [Seen(w, new) EXCEPT ![w] = l]
    BY <1>2 DEF Seen
  <1> HIDE DEF l
  <1>7. /\ response' = [response EXCEPT ![w] = response[w]]
        /\ reply' = [reply EXCEPT ![w] = reply[w]]
    BY <1>2
  <1>8. ASSUME work'[w] = l, response'[w] = response[w], reply'[w] = reply[w]
        PROVE  WorkerInv(w)'
    <2>1. PlaceInv(w)'
      BY <1>1, <1>5, <1>8 DEF PlaceInv
    <2>2. l.alone => file_path' = text /\ file_path = <<work[w].req.root>>
      BY <1>1, <1>2, <1>5 DEF Racy, PathInv, Assigned
    <2>3. l.alone => file_path' = Wanted(work[w].req)
      BY <2>2, TwoNames DEF Wanted
    <2>4. PathInv(w)'
      BY <1>5, <1>8, <2>3 DEF PathInv, Wanted
    <2>5. Back(w)' /\ Announced(w)' /\ ServesItsFile(w)'
      BY <1>1, <1>5, <1>8 DEF Back, Announced, ServesItsFile
    <2>6. \A i \in 1..Len(reply'[w].heads) : Fresh(reply'[w].heads[i], reply'[w].to)
      BY <1>8
    <2> QED
      BY <2>1, <2>4, <2>5, <2>6 DEF WorkerInv
  <1>9. UNCHANGED <<disk, bounds>>
    BY <1>2
  <1> HIDE DEF text
  <1> QED
    BY <1>3, <1>5, <1>6, <1>7, <1>8, <1>9, WriteStep
-----------------------------------------------------------------------------
(* The environment, and the whole *)

\* A change of the file system is noticed by no worker.
LEMMA DiskStep ==
    ASSUME FInv, UNCHANGED <<file_path, work, response, reply>>, BoundsType',
           disk' \in [DOMAIN Sizes -> [there : BOOLEAN, size : 0..MaxSize]]
    PROVE  FInv'
  <1>1. FileType'
    BY DEF FInv, FileType
  <1>2. ASSUME NEW w \in Threads PROVE WorkerInv(w)'
    <2>1. WorkerInv(w)
      BY DEF FInv
    <2>2. PlaceInv(w)' /\ PathInv(w)'
      BY <2>1 DEF WorkerInv, PlaceInv, PathInv, Assigned
    <2>3. Back(w)' /\ Announced(w)' /\ ServesItsFile(w)'
      BY <2>1 DEF WorkerInv, Back, Announced, ServesItsFile
    <2>4. \A i \in 1..Len(reply'[w].heads) : Fresh(reply'[w].heads[i], reply'[w].to)
      BY <2>1 DEF WorkerInv
    <2> QED
      BY <2>2, <2>3, <2>4 DEF WorkerInv
  <1> QED
    BY <1>1, <1>2 DEF FInv

LEMMA ChangeBounds ==
    ASSUME FInv, NEW n, \/ bounds' = [bounds EXCEPT !.changes = n]
                        \/ bounds' = [bounds EXCEPT !.reloads = n]
    PROVE  BoundsType'
  BY DEF FInv, FileType, BoundsType

LEMMA ChangeStep ==
    ASSUME FInv, NEW p \in DOMAIN Sizes, Resize(p) \/ Unlink(p) PROVE FInv'
  <1>1. disk \in [DOMAIN Sizes -> [there : BOOLEAN, size : 0..MaxSize]]
    BY DEF FInv, FileType
  <1>2. disk' \in [DOMAIN Sizes -> [there : BOOLEAN, size : 0..MaxSize]]
    <2>1. CASE Resize(p)
      <3>1. PICK n \in 0..MaxSize : disk' = [disk EXCEPT ![p].size = n]
        BY <2>1 DEF Resize
      <3> QED
        BY <1>1, <3>1
    <2>2. CASE Unlink(p)
      BY <1>1, <2>2 DEF Unlink
    <2> QED
      BY <2>1, <2>2
  <1>3. BoundsType'
    BY ChangeBounds DEF Resize, Unlink
  <1>4. UNCHANGED <<file_path, work, response, reply>>
    BY DEF Resize, Unlink
  <1> QED
    BY <1>2, <1>3, <1>4, DiskStep

\* All workers at the beginning of their work.
AllBegin ==
    /\ work = [w \in Threads |-> Idle] /\ response = [w \in Threads |-> NewResponse]
    /\ reply = [w \in Threads |-> NoReply] /\ BoundsType
    /\ disk \in [DOMAIN Sizes -> [there : BOOLEAN, size : 0..MaxSize]]

LEMMA AllIdle == AllBegin => FInv
  <1> SUFFICES ASSUME AllBegin PROVE FInv
    OBVIOUS
  <1> USE DEF AllBegin
  <1>1. FileType
    BY Initials DEF FileType
  <1>2. ASSUME NEW w \in Threads PROVE WorkerInv(w)
    <2>1. /\ work[w].pc = "idle" /\ work[w].file = NoFile
          /\ work[w].blocking = FALSE /\ reply[w].heads = <<>>
      BY DEF Idle, NoReply
    <2>2. PlaceInv(w) /\ PathInv(w) /\ Back(w) /\ Announced(w) /\ ServesItsFile(w)
      BY <2>1 DEF PlaceInv, PathInv, Back, Announced, ServesItsFile
    <2>3. \A i \in 1..Len(reply[w].heads) : Fresh(reply[w].heads[i], reply[w].to)
      BY <2>1
    <2> QED
      BY <2>2, <2>3 DEF WorkerInv
  <1> QED
    BY <1>1, <1>2 DEF FInv

LEMMA AllIdleNext == AllBegin' => FInv'
  BY AllIdle, PTL

LEMMA ReloadStep == ASSUME FInv, Reload PROVE FInv'
  <1>1. BoundsType'
    BY ChangeBounds DEF Reload
  <1>2. disk' \in [DOMAIN Sizes -> [there : BOOLEAN, size : 0..MaxSize]]
    BY DEF FInv, FileType, Reload
  <1>3. /\ work' = [w \in Threads |-> Idle] /\ reply' = [w \in Threads |-> NoReply]
        /\ response' = [w \in Threads |-> NewResponse]
    BY DEF Reload
  <1> QED
    BY <1>1, <1>2, <1>3, AllIdleNext DEF AllBegin

LEMMA FilesInit == Init => FInv
  <1> SUFFICES ASSUME Init PROVE FInv
    OBVIOUS
  <1>1. BoundsType
    BY FileConstants DEF Init, BoundsType, Requests
  <1>2. disk \in [DOMAIN Sizes -> [there : BOOLEAN, size : 0..MaxSize]]
    BY FileConstants DEF Init
  <1>3. /\ work = [w \in Threads |-> Idle] /\ reply = [w \in Threads |-> NoReply]
        /\ response = [w \in Threads |-> NewResponse]
    BY DEF Init
  <1> QED
    BY <1>1, <1>2, <1>3, AllIdle DEF AllBegin

LEMMA FilesNext == ASSUME FInv, [Next]_vars PROVE FInv'
  <1>1. ASSUME NEW w \in Threads, Handle(w) PROVE FInv'
    <2>1. CASE Unrouted(w)
      BY <2>1, UnroutedStep
    <2>2. CASE Assign(w)
      BY <2>2, AssignStep
    <2>3. CASE AppendPath(w)
      BY <2>3, AppendPathStep
    <2>4. CASE Stat(w)
      BY <2>4, StatStep
    <2>5. CASE LogPath(w)
      BY <2>5, LogPathStep
    <2>6. CASE SendHead(w)
      BY <2>6, SendHeadStep
    <2>7. CASE Open(w)
      BY <2>7, OpenStep
    <2>8. CASE SendFile(w)
      BY <2>8, SendFileStep
    <2>9. CASE SendFails(w)
      BY <2>9, SendErrorStep DEF SendFails
    <2>10. CASE SendDone(w)
      BY <2>10, SendDoneStep
    <2>11. CASE UNCHANGED fileVars
      BY <2>11, SameBounds, DiskStep DEF fileVars, FInv, FileType
    <2> QED
      BY <1>1, <2>1, <2>2, <2>3, <2>4, <2>5, <2>6, <2>7, <2>8, <2>9, <2>10, <2>11
         DEF Handle
  <1>2. ASSUME NEW w \in Threads, SendBroken(w) PROVE FInv'
    BY <1>2, SendErrorStep DEF SendBroken
  <1>3. ASSUME NEW w \in Threads, Stall(w) PROVE FInv'
    BY <1>3, StallStep
  <1>4. ASSUME NEW w \in bounds.workers, NEW r \in bounds.requests, Take(w, r)
        PROVE  FInv'
    BY <1>4, TakeStep
  <1>5. ASSUME NEW p \in DOMAIN Sizes, Resize(p) \/ Unlink(p) PROVE FInv'
    BY <1>5, ChangeStep
  <1>6. CASE Reload
    BY <1>6, ReloadStep
  <1>7. CASE UNCHANGED vars
    BY <1>7, SameBounds, DiskStep DEF vars, fileVars, FInv, FileType
  <1> QED
    BY <1>1, <1>2, <1>3, <1>4, <1>5, <1>6, <1>7 DEF Next

\* What the client of every worker has got, and what the worker holds, is
\* what the place it has reached in ModFileProxy::handle implies.
THEOREM FilesInvariant == Spec => []FInv
  BY FilesInit, FilesNext, PTL DEF Spec

\* Whatever way handle is left, the file is closed and the socket
\* non-blocking again.
THEOREM DescriptorsAlwaysBack == Spec => []DescriptorsBack
  <1>1. FInv => DescriptorsBack
    BY DEF FInv, WorkerInv, DescriptorsBack
  <1> QED
    BY <1>1, FilesInvariant, PTL

\* No reply of handle_pending_request shows anything of the responses the
\* thread sent before.
THEOREM RepliesAlwaysFresh == Spec => []RepliesFresh
  <1>1. FInv => RepliesFresh
    <2> SUFFICES ASSUME FInv, NEW w \in Threads, NEW i \in DOMAIN reply[w].heads
                 PROVE  Fresh(reply[w].heads[i], reply[w].to)
      BY DEF RepliesFresh
    <2>1. reply[w].heads \in Seq(HeadType)
      BY DEF FInv, FileType, ReplyType
    <2>2. i \in 1..Len(reply[w].heads)
      BY <2>1
    <2> QED
      BY <2>2 DEF FInv, WorkerInv
  <1> QED
    BY <1>1, FilesInvariant, PTL

\* A connection that stays open has carried one head and as many bytes as it
\* announces, however the file changes between io_fileSize, open and
\* sendfile.
THEOREM BodiesAlwaysAsAnnounced == Spec => []BodyAsAnnounced
  <1>1. FInv => BodyAsAnnounced
    BY DEF FInv, WorkerInv, BodyAsAnnounced
  <1> QED
    BY <1>1, FilesInvariant, PTL

\* A worker that was alone while it used the static file_path sends the file
\* its request names.
THEOREM AloneAlwaysServesItsFile == Spec => []AloneServesItsFile
  <1>1. FInv => AloneServesItsFile
    BY DEF FInv, WorkerInv, AloneServesItsFile
  <1> QED
    BY <1>1, FilesInvariant, PTL
=============================================================================
