------------------------------ MODULE HttpConn ------------------------------
(***************************************************************************)
(* How Server::handle_client and Server::handle_pending_request            *)
(* (src/server.cpp) cut the byte stream of one keep-alive connection into  *)
(* requests.  The client sends a script of well-formed and ill-formed      *)
(* requests; the network hands them to read() in pieces; every EPOLLIN     *)
(* event appends a piece to ClientInfo::buffer, gives a pending request    *)
(* the chance to find its body, and looks for the header of one more       *)
(* request.                                                                *)
(*                                                                         *)
(* A byte string is a sequence of tokens: the text of a request line and   *)
(* its headers (H), a line break (nl), a byte of a body (D), a chunk-size  *)
(* line without its line break (C).  Lengths and positions count tokens.   *)
(* A body may hold an empty line, and the text of a request before it: the  *)
(* search for a header looks at the bodies in the buffer too.              *)
(***************************************************************************)
EXTENDS Integers, Sequences, FiniteSets, FiniteSetsExt, SequencesExt

CONSTANTS
    Kinds,        \* the kinds of request the client may send
    MaxRequests,  \* bound: how many of them
    MaxPackage,   \* config.http_package_max_size, 0 for no restriction
    Cuts          \* how the network may cut the stream: "anywhere", "lines"
                  \* (never inside an empty line), "whole" (a request per
                  \* event), "bodies" (the same, or its header and its
                  \* Content-Length body in an event each)

\* get: no body.  getbody: GET with Content-Length.  post: POST with neither
\* header.  length: POST with Content-Length.  short: the same with a body as
\* long as a line break.  fails: like length, and its handler returns Close.
\* blank: POST with Content-Length and an empty line in its body.  text: the
\* same, and the text before the empty line is that of a GET.
\* chunked: POST with Transfer-Encoding chunked.  coded: POST with another
\* Transfer-Encoding.  garbled: a chunked POST whose chunk size is no number.
AllKinds == {"get", "getbody", "post", "length", "short", "fails", "blank", "text",
             "chunked", "coded", "garbled"}

ASSUME HttpConstants ==
    /\ Kinds \subseteq AllKinds
    /\ MaxRequests \in Nat \ {0}
    /\ MaxPackage \in Nat
    /\ Cuts \subseteq {"anywhere", "lines", "whole", "bodies"}

VARIABLES
    script,    \* the kinds of the requests, in the order they are sent
    cuts,      \* how the network cuts this connection's stream
    net,       \* what the client has sent and the server has not read
    client,    \* ClientInfo: buffer, find_last_pos, pending, request and data
    conn,      \* "open", "closed" or "undefined": the code left its buffer or
               \* used freed memory, and nothing is said of what follows
    handled    \* the requests passed to a route handler, with their bodies

vars == <<script, cuts, net, client, conn, handled>>

-----------------------------------------------------------------------------
(* What the client sends *)

Tok(t, r, n) == [t |-> t, r |-> r, n |-> n]
H(r) == Tok("H", r, 0)
D(r) == Tok("D", r, 0)
C(r, n) == Tok("C", r, n)
NL == Tok("nl", 0, 0)

\* Header(-r) is the text in the body of request r, which nobody sent as a
\* request.
Header(r) == <<H(r), NL, NL>>
Data(r) == <<D(r), D(r)>>
ChunkedData(r) == <<C(r, 2), NL, D(r), D(r), NL, C(r, 0), NL, NL>>

Body(r, kind) ==
    CASE kind \in {"get", "post"} -> <<>>
      [] kind \in {"getbody", "length", "fails", "coded"} -> Data(r)
      [] kind = "short" -> <<D(r)>>
      [] kind = "blank" -> <<D(r), NL, NL, D(r)>>
      [] kind = "text" -> Header(-r) \o <<D(r)>>
      [] kind = "chunked" -> ChunkedData(r)
      [] kind = "garbled" -> <<D(r), NL>>

\* The requests of s from the r-th on.
Encode(s, r) ==
    LET from[q \in 1..Len(s) + 1] ==
            IF q = Len(s) + 1 THEN <<>>
            ELSE Header(q) \o Body(q, s[q]) \o from[q + 1]
    IN  from[r]

NoRequest == 0

Init ==
    /\ script \in UNION {[1..m -> Kinds] : m \in 1..MaxRequests}
    /\ cuts \in Cuts
    /\ net = Encode(script, 1)
    /\ client = [buffer |-> <<>>, find_last_pos |-> 0, pending |-> FALSE,
                 request |-> NoRequest, data |-> <<>>]
    /\ conn = "open"
    /\ handled = <<>>

-----------------------------------------------------------------------------
(* The buffer.  An erase at the front moves the rest of the vector down and *)
(* leaves the memory behind its new end as it was; a string_view taken      *)
(* before still covers that memory.                                         *)

Vec(s) == [mem |-> s, size |-> Len(s)]
Live(b) == SubSeq(b.mem, 1, b.size)

Erase(b, n) ==
    [mem  |-> SubSeq(b.mem, n + 1, b.size)
                \o SubSeq(b.mem, b.size - n + 1, Len(b.mem)),
     size |-> b.size - n]

\* The position of the first line break, 0 for npos.
FindLine(s) == SelectInSeq(s, LAMBDA x : x = NL)

\* The position behind the first empty line of s at or after from + 1, 0 for
\* npos.
FindBlank(s, from) ==
    LET hits == {j \in from + 2..Len(s) : s[j - 1] = NL /\ s[j] = NL}
    IN  IF hits = {} THEN 0 ELSE Min(hits)

-----------------------------------------------------------------------------
(* handle_pending_request, as a function of the buffer b, the request r and *)
(* the data it has so far.  out is                                          *)
(*   "wait"     it returned early and the request stays pending             *)
(*   "handled"  the request went to its route handler                       *)
(*   "dropped"  it did, and the handler had the connection cleaned up       *)
(*   "refused"  it sent 400 and cleaned the connection up                   *)
(*   "overrun"  it read past the end of the buffer                          *)
(* and, between two chunks, "more".                                         *)

Outcome(out, b, data) == [out |-> out, b |-> b, data |-> data]

\* (int)(buffer.size()) - 4 - count - pos >= 0 is computed in size_t: the
\* difference wraps around instead of becoming negative.
SizeT == 65536
ChunkComplete(size, need) == (size - need) % SizeT >= 0

\* One chunk; "more" if it is not the last one.
ReadChunk(b, data) ==
    LET pos   == FindLine(Live(b))
        count == b.mem[1].n
        need  == pos + count + 1
    IN  IF pos = 0 THEN Outcome("wait", b, data)
        ELSE IF b.mem[1].t # "C" THEN Outcome("overrun", b, data)
        ELSE IF ~ChunkComplete(b.size, need) THEN Outcome("wait", b, data)
        ELSE IF need > b.size THEN Outcome("overrun", b, data)
        ELSE IF b.mem[need] # NL THEN Outcome("refused", b, data)
        ELSE Outcome(IF count = 0 THEN "handled" ELSE "more", Erase(b, need),
                     data \o SubSeq(b.mem, pos + 1, pos + count))

\* The loop over the chunks, of which each takes some of the buffer.
ReadChunks(b, data) ==
    LET after[k \in 0..b.size + 1] ==
            IF k = 0 THEN Outcome("more", b, data)
            ELSE LET p == after[k - 1]
                 IN  IF p.out = "more" THEN ReadChunk(p.b, p.data) ELSE p
    IN  after[b.size + 1]

\* Mutant: one byte of the body less is enough.
Mut_ReadLengthEarly(b, data, length) ==
    IF b.size < length - 1 THEN Outcome("wait", b, data)
    ELSE Outcome("handled", Erase(b, Min({length, b.size})),
                 data \o SubSeq(b.mem, 1, Min({length, b.size})))

\* Mutant: the comparison is not strict.
Mut_ReadLengthStrict(b, data, length) ==
    IF b.size <= length THEN Outcome("wait", b, data)
    ELSE Outcome("handled", Erase(b, length), data \o SubSeq(b.mem, 1, length))

\* Mutant: the last byte of the body is not erased.
Mut_ReadLengthLess(b, data, length) ==
    IF b.size < length THEN Outcome("wait", b, data)
    ELSE Outcome("handled", Erase(b, length - 1), data \o SubSeq(b.mem, 1, length))

\* The body by Content-Length.
ReadLength(b, data, length) ==
    IF b.size < length THEN Outcome("wait", b, data)
    ELSE Outcome("handled", Erase(b, length), data \o SubSeq(b.mem, 1, length))

KindOf(r) == IF r < 0 THEN "get" ELSE script[r]

HandlePending(b, r, data) ==
    LET kind == KindOf(r)
    IN  CASE kind \in {"get", "post"} -> Outcome("handled", b, data)
          [] kind = "getbody" -> Outcome("refused", b, data)
          [] kind = "coded" -> Outcome("wait", b, data)
          [] kind = "length" -> ReadLength(b, data, 2)
          [] kind = "short" -> ReadLength(b, data, 1)
          [] kind \in {"blank", "text"} -> ReadLength(b, data, 4)
          [] kind = "fails" ->
               LET q == ReadLength(b, data, 2)
               IN  [q EXCEPT !.out = IF @ = "handled" THEN "dropped" ELSE @]
          [] kind \in {"chunked", "garbled"} -> ReadChunks(b, data)

-----------------------------------------------------------------------------
(* handle_client *)

\* HTTPRequest::parse of the text between the first capital letter and the
\* empty line: exactly one header.
Parses(chunk) == \E r \in DOMAIN script : chunk = Header(r) \/ chunk = Header(-r)

Kept(b, flp, pending, r, data) ==
    [buffer |-> Live(b), find_last_pos |-> flp, pending |-> pending,
     request |-> r, data |-> data]

\* The connection is cleaned up; the entry of establishedClients is gone.
Gone(how) ==
    /\ conn' = how
    /\ client' = [client EXCEPT !.buffer = <<>>, !.find_last_pos = 0,
                                !.pending = FALSE]

\* The second half of handle_client, after the outcome p of the pending
\* request (the call at line 205).  p.b.mem is the memory that the string_view
\* taken at line 202 still covers, p.b.size the size of the buffer now, done
\* what has been handled.

\* Mutant: the size of the buffer before the body was erased.
Mut_NoHeaderOld(p, done) ==
    /\ FindBlank(p.b.mem, client.find_last_pos) = 0
    /\ client' = Kept(p.b, Len(p.b.mem), p.out = "wait", client.request, p.data)
    /\ handled' = done
    /\ UNCHANGED conn

\* No header in sight: remember how far the search came.
NoHeader(p, done) ==
    /\ FindBlank(p.b.mem, client.find_last_pos) = 0
    /\ client' = Kept(p.b, p.b.size, p.out = "wait", client.request, p.data)
    /\ handled' = done
    /\ UNCHANGED conn

\* An empty line was found, but what precedes it is not one header; or the
\* empty line lies behind the end of the buffer and erase() runs wild.  The
\* search for a capital letter looks at one byte more than it should (217).
BadHeader(p, done) ==
    LET pos   == FindBlank(p.b.mem, client.find_last_pos)
        chunk == SubSeq(p.b.mem, 1, pos)
        i     == SelectInSeq(chunk, LAMBDA x : x.t = "H")
        ok    == i # 0 /\ Parses(SubSeq(chunk, i, pos))
    IN  /\ pos # 0
        /\ \/ ~ok /\ Gone("closed")
           \/ i = 0 /\ pos = Len(p.b.mem) /\ Gone("undefined")
           \/ ok /\ pos > p.b.size /\ Gone("undefined")
        /\ handled' = done

\* Mutant: the header stays in the buffer.
Mut_WithoutHeader(b, pos) == b

WithoutHeader(b, pos) == Erase(b, pos)

\* A header was found: it becomes the pending request, which is tried once.
GoodHeader(p, done) ==
    LET pos   == FindBlank(p.b.mem, client.find_last_pos)
        chunk == SubSeq(p.b.mem, 1, pos)
        i     == SelectInSeq(chunk, LAMBDA x : x.t = "H")
        r     == chunk[i].r
        q     == HandlePending(WithoutHeader(p.b, pos), r, <<>>)
    IN  /\ pos # 0 /\ pos <= p.b.size /\ i # 0
        /\ Parses(SubSeq(chunk, i, pos))
        /\ \/ /\ q.out = "handled"
              /\ client' = Kept(q.b, 0, FALSE, r, q.data)
              /\ handled' = Append(done, [r |-> r, data |-> q.data])
              /\ UNCHANGED conn
           \/ /\ q.out = "wait"
              /\ client' = Kept(q.b, 0, TRUE, r, q.data)
              /\ handled' = done
              /\ UNCHANGED conn
           \/ /\ q.out = "dropped" /\ Gone("closed")
              /\ handled' = Append(done, [r |-> r, data |-> q.data])
           \/ /\ q.out = "refused" /\ Gone("closed")
              /\ handled' = done
           \/ /\ q.out = "overrun" /\ Gone("undefined")
              /\ handled' = done

Unpack(p, done) == NoHeader(p, done) \/ BadHeader(p, done) \/ GoodHeader(p, done)

\* A pending request first.  When it cleans the connection up, the code that
\* follows works on memory that has been freed.
Process(b) ==
    LET p == IF client.pending THEN HandlePending(b, client.request, client.data)
             ELSE Outcome("none", b, client.data)
    IN  \/ p.out \in {"none", "wait"} /\ Unpack(p, handled)
        \/ /\ p.out = "handled"
           /\ Unpack(p, Append(handled, [r |-> client.request, data |-> p.data]))
        \/ /\ p.out = "dropped"
           /\ Gone("undefined")
           /\ handled' = Append(handled, [r |-> client.request, data |-> p.data])
        \/ /\ p.out \in {"refused", "overrun"}
           /\ Gone("undefined")
           /\ UNCHANGED handled

\* The first token of a request that was sent as one.
Starts(x) == x.t = "H" /\ x.r > 0

\* The first n tokens end a request and no earlier one does.
EndsRequest(n) ==
    /\ n < Len(net) => Starts(net[n + 1])
    /\ \A j \in 2..n : ~Starts(net[j])

\* The first n tokens are the header of a request with a body of some length.
EndsHeader(n) ==
    n = 3 /\ n < Len(net) /\ Starts(net[1]) /\ ~Starts(net[4]) /\ net[4].t \in {"D", "H"}

\* A piece of n tokens is one the network may deliver.
CutAt(n) ==
    CASE cuts = "anywhere" -> TRUE
      [] cuts = "lines" -> n < Len(net) => net[n] # NL \/ net[n + 1] # NL
      [] cuts = "whole" -> EndsRequest(n)
      [] cuts = "bodies" -> EndsRequest(n) \/ EndsHeader(n)

TooLarge(b) == MaxPackage # 0 /\ Len(b) > MaxPackage

\* One EPOLLIN event: the reads until EAGAIN bring n tokens.
Event(n) ==
    LET b == client.buffer \o SubSeq(net, 1, n)
    IN  /\ conn = "open" /\ CutAt(n)
        /\ net' = SubSeq(net, n + 1, Len(net))
        /\ \/ TooLarge(b) /\ Gone("closed") /\ UNCHANGED handled
           \/ ~TooLarge(b) /\ Process(Vec(b))
        /\ UNCHANGED <<script, cuts>>

\* Everything has been read or the connection is gone.
Quiet == (conn # "open" \/ net = <<>>) /\ UNCHANGED vars

Next == Quiet \/ \E n \in 1..Len(net) : Event(n)

Spec == Init /\ [][Next]_vars

-----------------------------------------------------------------------------
(* Properties *)

\* Every variable keeps its type: what is handed to handlers is a request of the
\* script or the text in one's body, and the cached position never points behind
\* the end of the buffer, although bodies are erased from its front in between.
TypeOK ==
    LET requests == DOMAIN script \cup {-r : r \in {q \in DOMAIN script : script[q] = "text"}}
    IN  /\ script \in Seq(Kinds) /\ cuts \in Cuts
        /\ client.find_last_pos \in 0..Len(client.buffer) /\ client.pending \in BOOLEAN
        /\ client.request \in {NoRequest} \cup requests
        /\ conn \in {"open", "closed", "undefined"}
        /\ \A i \in DOMAIN handled : handled[i].r \in requests

\* Which request of the script request r is, or stands in the body of.
Place(r) == IF r < 0 THEN -r ELSE r

\* However the stream is cut, the handlers are given the requests in the order
\* they were sent, and none twice.  A text in a body that is taken for a request
\* (server.cpp:209-226) takes the place of the request it came with.
HandledInOrder ==
    \A i, j \in DOMAIN handled : i < j => Place(handled[i].r) < Place(handled[j].r)

BodyOf(r) ==
    CASE KindOf(r) \in {"length", "fails", "chunked"} -> Data(r)
      [] KindOf(r) \in {"short", "blank", "text"} -> Body(r, KindOf(r))
      [] OTHER -> <<>>

\* However the stream is cut, a handler is given exactly the body its request
\* was sent with: nothing is missing and nothing comes from a neighbour, also
\* when the body itself looks like requests.
BodyIntact ==
    \A i \in DOMAIN handled : handled[i].data = BodyOf(handled[i].r)

\* When everything that was sent has been read, every request has gone to its
\* handler, and nothing else has: none is left in the buffer until the client
\* sends more, and no text of a body was taken for one.
AllAnswered ==
    conn = "open" /\ net = <<>> =>
        [i \in DOMAIN handled |-> handled[i].r] = [r \in DOMAIN script |-> r]

Plain == {"get", "post", "length", "short", "chunked"}

\* A client that sends well-formed requests keeps its connection and has every
\* request answered, and no other, if they arrive whole; if their
\* Content-Length bodies come apart, provided that no body holds an empty line,
\* which the search in the buffer would take for the end of a header; and if it
\* sends a single request that is cut anywhere but inside an empty line.
WholeRequestsServed ==
    \/ cuts = "whole" /\ Range(script) \subseteq Plain \cup {"blank", "text"}
    \/ cuts = "bodies" /\ Range(script) \subseteq Plain
    \/ cuts = "lines" /\ script \in {<<"get">>, <<"post">>, <<"length">>, <<"short">>}
    => conn = "open" /\ AllAnswered

\* What leaves the buffer, or goes on with a client that the pending request
\* has destroyed ("Memory Safety", README.md): a chunk that has not arrived
\* completely or is none; a handler that closes the connection of a request
\* whose body came late; a body with an empty line, which the view at line 202,
\* older than the erase, still shows when the body has gone, or before which
\* line 217 finds no capital letter; and, because of the same view, a body as
\* short as a line break before a header that is cut inside its empty line.
\* Nothing else does, however the stream is cut.
OverrunCauses ==
    conn = "undefined" =>
        \/ Range(script) \cap {"chunked", "garbled", "fails"} # {}
        \/ Range(script) \cap {"blank", "text"} # {}
        \/ "short" \in Range(script) /\ cuts = "anywhere"
=============================================================================
