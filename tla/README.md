# MiniNginx: TLA+ verification project

MiniNginx is a small multi-threaded HTTP/1.1 server for Linux (C++23, epoll):
static files, reverse proxying, routing by a configuration file, hot reload.
This directory holds TLA+ models of its core, the TLC configurations that check
them on small instances, and TLAPS proofs of the safety properties of the
workers, the life cycle, the framing of connections, the configuration parser,
the route tree, the file proxy and the log for instances of every size. `PROJECT.json` maps every definition to the
lines it models. Source paths below are relative to the repository (`src/server.cpp` is
`src/src/server.cpp` in `PROJECT.json`).

## 1. Inventory

| Component | State it keeps | Operations | Hard part |
|---|---|---|---|
| **Worker event loop**: `src/server.cpp`, `headers/server.h`, `client.h` | per worker: `establishedClients` (fd to `ClientInfo`), event list, module timer, ping trigger; per process: static `accept_lock`, static `ClientInfo::max_client_id` | `run`, `accept_connections`, `handle_client`, `handle_pending_request`, `cleanup_connection`, the ping pass | workers share the descriptor table: a number that one worker closes is reused by another at once; events of one batch are handled after others closed things |
| **EPoll wrapper**: `headers/epoll.h` | interest list, ready list (kernel) | `add`, `del`, `wait` | level- and edge-triggered descriptors in one set, bounded event list |
| **Reverse proxy**: `src/modules/reverse_proxy.cpp`, `headers/modules/reverse_proxy.h` | per worker: `clients`, client id to `ReverseClient` (two descriptors, `connected`) | `handle`, `connect_server`, `send_data`, `reverse_proxy`, `module_timer`, `clear_unused_connections` | `reverse_fd` is a bare number that outlives its connection; partial failures of socket, connect and send |
| **HTTP framing**: `Server::handle_client`, `handle_pending_request` | `ClientInfo::buffer`, `find_last_pos`, `pending`, `pending_request` | append a read, complete the pending body, extract one header | the stream is cut anywhere; a view of the buffer is used after the buffer changed; unsigned arithmetic |
| **Application life cycle**: `src/application.cpp`, `src/main.cpp` | `servers`, `server_threads`, `cfg_server`, `mods`, `handlers`, log targets, `Server::running` | `setup` and its phases, `reset_servers`, `run` (commands), destructor, SIGINT | what the workers read without a lock is rebuilt under them unless they are all joined first; stop against start; exit from a signal handler |
| **Configuration values**: `src/application_config.cpp` | `cfg_server` | `setup_config` | units, ranges, sign |
| **Module registration**: `src/application_module.cpp`, `headers/modules/module_base.h` | `mods`, routes | `setup_modules` | partly valid location blocks |
| **Configuration parser**: `src/config.cpp` | node tree | `load_from_buffer`, `analyse_words`, `get_node_recursive`, `get_value` | raw pointers into vectors that grow; block nesting, quoting; a tree that is used after a syntax error |
| **Route tree**: `src/route_states.cpp` | `StateTree` | `parse_from_str`, `add_new_handler`, `clear_tree`, `parseURL` | locations share nodes; names before parameters without backtracking; a rest of the path behind the only location |
| **HTTP request, URL and response**: `src/http_parser.cpp` | none | `parse`, `parse_raw_url`, `generate_to`, `checkout_data` | method table, percent decoding with a position that moves, a request that is written again for the upstream |
| **File proxy**: `src/modules/file_proxy.cpp` | a static path | `handle` | the path is shared by all workers; files change between `stat`, `open` and `sendfile`; the `sendfile` loop |
| **Logger**: `alib-g3/alogger` | targets, cached text, current level | `log`, `LogFactory`, rotation | one factory used by every worker; a target per lock; a file that is full, or does not open |
| **Clocks, triggers**: `alib-g3/aclock` | start, pause and total times | `start`, `pause`, `resume`, `test` | stopped clocks |
| **Command parser, utilities**: `alib-g3/aparser`, `autil`, `socket_util.h` | none | splitting, console, files | none: formatting and I/O |

How they interact. `Application::run` (main thread) creates the Servers, starts
one thread per Server and reads commands; it talks to the workers through
`running`, `join` and the shared `handlers`, `mods` and log targets. A worker
calls `handle_client`, which cuts the stream (framing), parses a request
(parser), dispatches it (route tree) to a module (file proxy, reverse proxy),
which writes to the client's descriptor itself or returns a response. The
reverse proxy is called again by the module timer of its worker. Workers
interact through the kernel (descriptors), `accept_lock` and `max_client_id`.

What makes each part correct, and the property that says so, is in section 4;
what can go wrong, with the line where it bites, is the list `hazards` of
`PROJECT.json`.

## 2. Plan

Modules, in the order of importance; 1 to 8 are done.

1. `Server` + `Gateway` + `ServerInv` + `ServerProofs`: workers, epoll,
   descriptors, reverse proxy; refinement of an abstract gateway.
2. `Application` + `ApplicationInv` + `ApplicationProofs`: setup, reload, exit,
   SIGINT against running threads.
3. `HttpConn` + `HttpConnProofs`: framing of one connection.
4. `Router` + `RouterProofs`: the route tree against a definition of matching that knows only the
   set of locations, over every small set of patterns and every short path.
5. `Config` + `ConfigProofs`: lexer, block tree and lookups against definitions
   without state machine and stack, on every short text.
6. `HttpParse` + `HttpParseProofs`: a request read, decoded, changed, written again and read by the
   upstream.
7. `Logger` + `LoggerProofs`: the shared factory, the targets and the log files.
8. `FileProxy` + `FileProxyProofs`, composed with `Logger`: what the workers answer themselves.
9. Left: a second upstream target per connection in `Server`; bodies on their way
   upstream; the unit arithmetic of `setup_config`.

Every safety property that a passing run checks has a theorem.  What is left to
prove belongs to the modules that are left to write.

## 3. The modules and the code

### Server.tla

One worker is one program counter `pc[w]` through `Server::run`:

    wait -> dispatch* -> timer -> relay* -> ping -> sweep* -> wait

with the excursions `lock -> accept <-> emplace` (accept_connections),
`connect -> forward -> answer` (ModReverseProxy::handle) and `close -> erase`
(cleanup_connection, which returns to `ret[w]`). A step is the code between two
points where another thread or the kernel can be noticed: `close(fd)` and
`establishedClients.erase` are two steps, because the number may be reused in
between; the read and the write of `max_client_id` are two steps, because the
increment is not atomic.

| Variable | Code |
|---|---|
| `sock`, `up`, `rx`, `peer`, `backlog`, `life`, `sent` | the kernel's descriptor table, the far ends, the accept queues (external) |
| `watch`, `ready` | interest and ready list of the worker's epoll object |
| `accept_lock`, `max_client_id` | the statics of those names |
| `batch`, `cur`, `ret`, `newId` | the events not yet handled, the descriptor at hand, the caller of cleanup, the id under construction |
| `established` | `establishedClients`, fd to client id, 0 when absent |
| `rclients`, `todo` | `proxy.clients`, the ones the timer has still to visit |
| `doomed` | `clear_fds` of the ping pass |
| `wire` | history: every write on a proxied connection, by whom and to what |
| `loss` | history: how bytes of a reply to a client were thrown away |

Data is abstracted to what it makes the handler do (`Kinds`): not yet complete,
answered locally, refused, proxied. The environment (clients connect, send,
close, reset; the upstream replies or closes) is unconstrained. Time is not
modelled: the timer may be due or not, and any set of clients may be idle. There
is one upstream target.

The sockets do not block. A client in `SlowClients` may stop reading; then a
`send` to it takes less than it is given, or fails with EAGAIN while the client is
connected (`Outcomes`). `Relay` keeps apart what becomes of the reply that was
waiting: written whole, written in part (the loop only asks whether `send`
failed), or dropped by a failed `send`, with what was before it written and what
comes behind it still unread. `RelayCloses` is the Close that follows, which the
handler obeys (`Answer`) and the timer drops (`TimerRelay`); `loss` remembers it.
A request may also reach the upstream only in part, and then nothing is owed for
it (`Forward`). `EpollTimesOut` is the wait that nothing ends; with a negative
`wait_interval` it never comes.

`Gateway.tla` is the abstract specification: connections are queued, served and
closed once and in that order; a request is forwarded only for an open
connection; a reply is given only to an open connection whose own request went
upstream. No descriptors, tables, locks or threads. `Server` implements it with
`traffic` read off `wire` (`GatewaySpec`).

### Application.tla

`main` is the position of the main thread in `setup`, `reset_servers` and the
command loop; `thread[i]` the position of worker i in `run` (created, before
`running = true`, loop test, epoll_wait, body). Each phase of `setup` is an
action; `reset_servers` is a loop of stops, a loop of joins and the clearing,
with `ret` as its return address. `loads` numbers the configurations, and every
route, module and copied configuration carries its number, so that mixing two
loads shows. `bind` may fail (the Server has no socket, its thread returns at
once), `listen` may fail (`std::exit`), standard input may end (the loop obeys
the last line again). `emplace_back` of a thread is two steps: the thread is
created (`StartThread`) and runs, and later the vector has it (`RegisterThread`);
`joinable` is what the vector has. `servers.clear()` destroys one Server after the
other (`DestroyServer`), each of which writes a line.

The SIGINT handler runs `std::exit`, and so `~Application`, on top of whatever the
main thread was doing (Linux prefers the main thread for process-directed signals,
and no thread blocks the signal). `sig` says what that was:

* `clean`: between two changes, or in a loop that stops and joins (`SigintExits`).
  Inside `join` the second join of the same thread throws and the process is
  aborted (`SigintInJoin`); during exit a second `std::exit` ends the process.
* `console`: inside `Console::write`, with the mutexes of the logger and the console
  (`SigintInLine`). They are never released: a worker that logs stops for good
  (`RunLog`), and so does the main thread at the line of the first `~Server` or at
  the last line of `~Application` (`hung`).
* `torn`: inside a change of a container or a call of the allocator
  (`SigintInChange`). Inside `emplace_back` the new thread is not in the vector, and
  others may have been moved out of it; the destructor does not join them. What
  comes of a torn container is undefined: the destructor gets through, fails or
  waits for ever (`TornFails`), and a thread whose Server has gone may read
  anything or crash (`Reads`, `UseAfterFree`).

### HttpConn.tla

One connection. A client sends a script of requests of eleven kinds; tokens stand
for the text of a header, a line break, a chunk size, a byte of a body. A
Content-Length body may hold an empty line (`blank`), and the text of a GET in
front of it (`text`): request `-r` is the one in the body of request `r`, which
nobody sent. `Event` is a whole EPOLLIN event: reads until EAGAIN, the size limit,
the pending request, one header, and that request's first try. The search for the
header is the code's: over the whole view, whatever the bytes belong to, so that
part of a body that waits in the buffer may be taken for a header and replace the
pending request. The buffer keeps the memory behind its end after an erase (`mem`
against `size`), since the code searches a string_view that was taken before; the
search for a capital letter reads one byte past the view. `conn = "undefined"`
marks the point where the code leaves its buffer or uses a destroyed client;
nothing is said about what follows, and the safety properties are about everything
before it. `cuts`, fixed at the start, says where the network cuts: anywhere;
never inside an empty line; only at the ends of requests; or there and before
Content-Length bodies. Routing and responses are left out: a handled request is
recorded in `handled`.

### Router.tla

The tree is a sequence of nodes whose `nexts` are indices, `nodes[1]` is the
root. `setup_modules` offers locations one after the other (`AddLocation`; one
that `parse_from_str` or the checks of the block refuse is `SkipLocation`),
`setup_handlers` adds its own route (`AddTestRoute`), and requests follow;
`ClearTree` is the next load. Each step of `adding` and `parsing` is one
iteration of the loop of `add_new_handler` or of `parseURL`, with the locals in
`add` and `find`. A text is the sequence of its segments, and a value that got
the rest of the path is a sequence of several segments. `routes` is a history of
the accepted patterns, from which the properties say what a lookup should give
(`Chosen`), without a tree.

### Config.tla

`ReadChar` is one turn of the loop of `load_from_buffer`, with `in_str`,
`escape`, `buffer` and `tokens` in `lex`; `ReadEnd` starts `analyse_words`, of
which every branch is an action. `nodes` numbers the Nodes in the order of their
creation; a Node is in the vector of its `parent`. `stack` holds the raw
pointers. A `push_back` on a vector may move its elements, so `PushChild` puts
the older siblings into `moved`, and what is erased goes into `erased`: a pointer
to a Node in either dangles. `GetNode` and `GetValue` are the lookups.
`setup_config` goes on after a syntax error with the Nodes that are there, which
is why the properties of the tree speak of every moment of the analysis.

### HttpParse.tla

URLs are sequences of byte codes, because the position of the question mark is
counted in them; method, version and header lines are members of small sets.
`ParseRawUrl` is the loop of `parse_raw_url` with `strtol` (external), its
`endptr` and the comparison of a `size_t` with an `int64_t`. `Parse` is
`HTTPRequest::parse`; `Proxied` what `ModReverseProxy::handle` changes: the three
headers it assigns (`Overwritten`), and, if the location has a parameter `path`,
the URL, which is parsed again from the parameter's decoded value. `Forward` takes
any location: the parameter may be missing, or be any segment of the path, or at
the end of the location all that is left (`ParamValues`); what stands before it, as
in `/api/v1/{path}`, is not sent on. `generate` is `generate_to`. The upstream reads
by the same `Parse`. A byte read behind the end of a text is `Unknown`.

### Logger.tla and FileProxy.tla

`Logger` has the variables of the log and the steps of a statement
`lg(LOG_INFO) << text << endlog`: the level goes into the shared factory
(`LogCall`), `endlog` reads it back and resets it, and the line is written to
one target at a time under the lock (`SplitWrite` for the rotating file, the
console otherwise). `SetupLogger` is the setup of a reload. A log file may fail
to open, and the counter of bytes, which the code does not initialise, starts
with any value of its type, of the width `Width`.

`FileProxy` extends it. A worker's position in `work[w].pc` goes

    idle -> assign -> append -> stat -> log -> logged -> open -> send -> idle

with early returns to `idle` (Forbidden, NotFound); a step ends where another
worker, a change of the file system or the client can intervene. `file_path` is
one variable for all workers; while two of them use it, what it holds is what
one of them wrote, or `Torn`. Files may be resized or removed between two steps,
clients may stop reading, connections may break. `response[w]` is the
`thread_local` response, `reply[w]` what the client has got. Requests without a
route and the built-in route go through the same end of
`handle_pending_request`.

## 4. Runs

| Run | Instance | Shows |
|---|---|---|
| `server_safety` | 2 workers, 2 clients, 3 descriptors, event list of 2, one send each; symmetry | the inductive invariant; events are about registered clients (`EventsRegistered`), ids unique, no bytes to a wrong client (`NoCrossTalk`), one owner per descriptor, the timer never connects, quiet clients kept, refinement of Gateway |
| `server_accept` | 2 workers, 2 clients, 3 descriptors, fair | a worker that saw its listening socket readable empties its queue |
| `server_serve` | 1 worker, 1 client that sends up to three times and may stop reading, 3 descriptors, fair | input is consumed; a client that ends its connection is reaped, also when the end comes while another event of it is being handled; a reply is written whole by the handler or the timer, or the connection ends, but for the two silent losses of a client that had stopped reading (`SilentlyCut`) |
| `app_safety` | 2 workers, 3 loads, 1 client, commands, SIGINT between and inside changes and console lines, workers with or without a timeout, fair | the inductive invariant; no Server dies under a thread that `reset_servers` knows; shared structures change only while no thread runs; one generation per thread; a reload and an exit finish unless a stop was lost, the joined worker sleeps without a timeout, or the signal came while a line was written or something was changed |
| `http_framing` | scripts of up to 3 requests of all kinds, every way of cutting, a package limit | handled requests are in order, once, with exactly their bodies; `find_last_pos` stays in the buffer; well-formed requests that arrive whole, or with the body apart and without an empty line in it, are all answered, nothing else is, and the connection stays open; the buffer is left in the listed ways and no other (`OverrunCauses`) |
| `router_lookup` | up to 3 locations of up to 2 sections plus the built-in one, 2 names, 2 parameter names, paths of up to 3 segments | a lookup gives what the locations say whatever their order; no accepted location is dead; values and parameter indices are right |
| `config_load` | every text of 7 characters without quotes, every text of 6 with quotes and backslashes | no pointer on the stack dangles; the tree and the verdict are those of the text, also up to a syntax error; layout does not matter; any value survives quoting; lookups find what path and index select |
| `http_parse` | every request of up to 6 URL characters, a header line counting as 2 | a URL whose escapes are complete is cut at its question mark; encoding and decoding are inverse; what goes upstream parses back to what was received |
| `files` | three workloads (`MCFileProxy`): two workers and two roots; one worker, every kind of request, files that change; a busy log across a reload | a worker that is alone serves the file it was asked for; a connection that stays open got the body it was promised; responses carry nothing of earlier ones; descriptors come back; a handler returns unless its client or its file stops it; log lines are kept, in order, with their level, in bounded files |
| `server_fdlimit` (violation) | one descriptor, two clients | accept loops on EMFILE with the lock held |
| `app_loststop` (violation) | a reload right after the start | `running = true` overwrites the stop; the join never returns |
| `url_mainpath` (violation) | URLs of up to 4 characters | an escape `strtol` cannot read moves the position of the question mark by the wrong amount, even where there is none |

Bounds. Two workers and two connections are the least with which a descriptor
closed by one worker is taken by another while the first still remembers it;
three descriptors leave an upstream socket beside two clients and also let the
limit be reached in the middle of a proxied request. Three sends (`server_serve`)
make a later request meet an upstream that has closed, and give a client events
of its own when its end comes. Two workers and three
loads let a reload meet threads of the load before at every stage, and a second
one start before the first has settled. Three requests put a body between two
headers; more add nothing, since the state between two requests is the buffer
and the cached position, and both are again empty or left over from one request.
Three locations are enough for two of them to share a node that a third one ends
in, and three segments for a path to go on behind two sections. Seven characters
are a block in a block, or a block with a directive before or behind it
(`a{b{b;}`, `a{b;}b;`), six a quoted value with an escape between other tokens.
Six URL characters are an escape before a question mark and a broken escape
behind it. In `files`, two requests of two workers meet in every step of
`handle`, two changes let a file shrink and vanish in one response, and three
log statements of two bytes each go through two changes of file.

The bounds are `MaxSends`; `MaxWorkers` and `MaxLoads`; `MaxRequests` and
`MaxPackage`; `MaxRoutes`, `MaxDepth` and `MaxSegments`; `MaxPlain` and
`MaxQuoted`; `MaxSize` of `HttpParse`; `MaxIndex`, `MaxSize` and the
`Workloads` of `FileProxy`; and the sets of the configurations. The theorems
hold for all values of those of `Server`, `Application`, `HttpConn`, `Config`,
`Router` and `FileProxy`.

Fairness. `Server`: weak fairness of each worker's loop (its thread is scheduled),
strong fairness of `EpollWait` (when it has something to report, the call is not
interrupted by signals for ever) and of `TimerClear` (the timer interval passes
again and again while the loop goes round). That a wait with nothing to report
ends (`EpollTimesOut`) is not assumed: an upstream is in no interest list, so the
timer relays its reply only when the wait ends by itself, and `RepliesRelayed`
has a finite `wait_interval` as its hypothesis (`FiniteInterval`). Nothing is
assumed of clients or upstreams. `Application`: weak fairness of the main thread
while it is inside `setup`, `reset_servers` or the destructor, and of each
worker thread, where an epoll timeout counts as a step only when it is finite;
no command, signal or event is ever assumed to come. The properties name the
situations in which the main thread waits for ever (`Stuck`, `Interrupted`) as
outcomes, and no assumption on the operator excludes them.
`FileProxy`: weak fairness of what
a worker does inside a handler, `Handle(w)`; that a connection breaks, or that a
client reads on, is not assumed, and `Stuck(w)` names what follows from it.

### Behaviour a reader should know of

The models contain these, beyond the violation runs; the properties are stated
around them and say that there is nothing else.

* Framing. An empty line that is cut in two is never found, because the search
  resumes behind what it has seen (`"lines"` against `"anywhere"` in
  `WholeRequestsServed`). A Content-Length body that waits in the buffer is searched
  for a header: if it holds an empty line, the connection is closed, or what stands
  before that line is handled as a request that nobody sent, in the place of the
  one whose body it is. A body that comes in an event of its own and holds an empty
  line is handled, and then found again in the stale view. Of two requests in one segment the second waits for the
  client's next write. A chunk that has not arrived completely is read past the
  end of the buffer; a view older than an erase is searched, and without a capital
  letter in it the byte behind it is read; a handler that
  closes the connection of a request whose body came late leaves `handle_client`
  with a destroyed client (`OverrunCauses`). A chunked body in an event of its
  own is handled, and then its stale last chunk is taken for a malformed header
  and the connection is closed.
* Proxy. The timer drops the Close of an upstream that has closed, and the client
  stays connected. A reply to a client that does not read fast enough is torn: a
  short write is not noticed, and after a failed one the handler closes, but the
  timer goes on (`SilentlyCut`). `X-Forwarded-For` and `X-Forwarded-Host` are
  overwritten with fixed values, whatever the client was or said. A parameter `path`
  replaces the URL: it is decoded twice, the rest of the location and the query are
  not sent, and a blank in it (`%20`) makes a request line no upstream reads.
* Life cycle. A SIGINT that comes while the main thread writes to the console, or
  changes or allocates something, may keep the process from ending or let it fail
  (`Interrupted`, `TornFails`); inside `emplace_back` it destroys a Server under its
  thread. With a negative `wait_interval` an idle worker never sees the stop
  flag. After a reload the connections of the destroyed Servers stay open in
  nobody's table (`open` against `held`).
* Routes. The tree does not backtrack: with `/api/x` and `/{id}/y`, the path
  `/api/y` is a 404. A path that goes on behind a location reaches its handler
  only while no other location goes on from there, so `/` answers unknown paths
  only as long as it is the only location, which the built-in route never allows.
  Two locations that share a parameter share the name that the first gave it.
* Configuration. A block that is not closed is accepted; characters behind the
  last separator are dropped; an index beyond the last match gives the last
  match. The unit `d` is 24 minutes (not modelled).
* Files. Two workers that serve files at once may announce one and send another
  (`alone` in `AloneServesItsFile`). A file that shrinks after its size was
  announced keeps its worker in the `sendfile` loop for ever, and a client that
  does not read does so too, since the socket is blocking there. When `sendfile`
  fails, a 404 message is written into the announced body before the close.
* Log. A line may show TRACE because another worker's `endlog` reset the level in
  between. A log file that cannot be opened loses its lines without a sign. The
  first file of a run may be left early or one line late. A reload empties file 0
  and leaves older lines in files of higher numbers.

## 5. Proofs

The theorems hold for all values of the constants
under the named assumptions `ConstantsDistinct` (the special values are not
workers, connections or descriptors; descriptors are numbers; the event list has
room for one event), `ApplicationConstants` (positive bounds), `HttpConstants`
(kinds and cuts are among those the model knows, a positive bound), `RouterConstants`
(no section name is empty, the unknown name `Other` is none of them, the built-in
route is one), `LoggerConstants` (a log file may hold at least one byte, its
limit is a value of the counter, a worker is not the main thread) and
`FileConstants` (the workloads are records of the right shape, the sizes of the
files are natural numbers, and a log line is not longer than `Width - MaxBytes`,
which is 4 GiB less 4 MiB in the program); `ConfigProofs` and
`HttpParseProofs` use none. The type invariants of `Server` and
`Application` are conjuncts of the inductive ones, and are checked with them.

**ServerProofs.** The inductive invariant `IInv` (`ServerInv.tla`) is needed
because none of the properties speaks about the moments in between. Its idea: a
descriptor in a worker's interest list (`watch`) is an open client socket of
that worker alone, and the worker's table agrees with the list except between
`close` and `erase` (`WatchInv`); everything a worker still remembers (ready
list, batch, descriptor at hand, clients to sweep) is inside its list
(`EventInv`, `PhaseInv`); ids grow under the lock (`LockInv`, `IdInv`); a
ReverseClient whose client is still there points at that client (`LinkInv`),
owns its upstream socket alone (`UpstreamInv`), and the timer only visits such
ones (`TodoInv`), because `clear_unused_connections` goes by client id and not
by descriptor. From it: `ServerInvariant`, `ServerTypeCorrect`,
`EventsAlwaysRegistered`, `ClientIdsAlwaysUnique`, `NeverCrossTalk`,
`AlwaysOneOwner`, `TimerNeverConnectsAgain`, and, with `AskedInv` (an upstream
answers only what it was asked), `ServerImplementsGateway`.

The action property `QuietClientsKept` needs to know why a worker is in `close`.
`QuietInv` says it: unread bytes were sent by somebody, and the client that is
being handled, or that the ping pass has collected, has ended its connection or
sent something. What keeps that true is `SocksKept`: a descriptor goes on being
the same connection for as long as its worker watches it, whatever the other
workers close and accept. From it: `QuietClientsAlwaysKept`.

**ApplicationProofs.** `AInv` adds to the properties where threads may exist
(`ThreadInv`: none while setup rebuilds, those below `k` joined in the join
loop), which of them the vector has (all that run, but in the middle of
`emplace_back` and after a signal that came there), what is built when
(`BuildInv`) and where the main thread can be after a signal (`SignalInv`). From it: `ApplicationInvariant`,
`ApplicationTypeCorrect`, `ServersOutliveThreads`, `AlwaysOneGeneration` and the
action property `SharedAlwaysStable`.

**HttpConnProofs.** `HttpInv` says what an open connection has in its buffer:
the buffer followed by what is on its way is what is left of the body of the
pending request, or of the body in which a text was taken for a request
(`Before`), and then the requests behind it (`Follows`); and what has been handled
lies before that (`Past`), where a text stands in the place of the request it came
with. One event keeps it because a stream that is cut in two ways has a common
front (`CutFront`): an attempt at a body waits in front of it or takes exactly it,
unless it leaves the buffer (`PendingTried`), and the next header in sight is that
of the next request or the text in the body at hand (`GoodHeaderFound`), since no
other body contains one. The view that is older than an erase shows an empty line
behind the end of the buffer only if the body held one, or had one token and the
header behind it is cut inside its empty line. That the stream of a
script and the loop over the chunks are well defined (both are recursive
functions) follows from a least counterexample. From it: `HttpInvariant`,
`HttpTypesAlways`, `OrderAlways`, `BodiesAlwaysIntact`, `OverrunsAlwaysCaused`.
`ServedInv` adds, for a client whose requests arrive whole (`Usual`), that
between two events the buffer holds at most the first token of a header or a part
of the body that is waited for, without an empty line, and that everything before
is answered; from it `WholeRequestsAlwaysServed`, under the assumption `Roomy` that
the package limit is none or leaves room for the longest well-formed request of the
model.

**ConfigProofs.** `NoDanglingNode` is nearly inductive, but says nothing that
rules out two Nodes on the stack with one parent, the older of which the next
`push_back` would move. `StackInv` adds that the numbers of the Nodes increase
along the stack (`Chain`): a Node pushed onto its parent is the newest of all,
so what `PushChild` moves and what the ends of blocks erase is never below the
top of the stack, and the top has been popped by then. The lemmas
(`PopFacts`, `PopChain` and those after them) say what pop, push and erase do to
a chain; one lemma per branch of `analyse_words` uses them. From it:
`StackAlwaysChain` and `NeverDanglingNode`, for texts of any length.

In the same module, `TreeRight` and `VerdictRight` compare the tree with
definitions that look at the tokens only: which words start a directive, at which
depth, behind which brace. `TreeInv` ties each step of `analyse_words` to them.
The newest Node is the top of the stack, only the newest may be without a name
and only nameless ones are erased (`NamelessNewest`, `Filling`); the Nodes with a
name are the directives of the tokens taken, in the order of the text, with the
values and the owner they have there (`Written`); the stack has one Node per open
block, and that Node is the directive in front of the brace that opened it
(`Opened`); and no brace so far breaks the rules (`Unbroken`). The last is needed
because the depth of a position is a difference of two counts, which means
something only while it never was negative. `StackInv` supplies that the stack
holds no dangling pointer. From it: `TreeInvariant`, `TreeAlwaysRight`,
`VerdictAlwaysRight`.

Two more properties compare recursive functions with plain definitions.
`Recursion` shows, by a least counterexample, that a function given by a first
value and one step per argument exists; what such a function computes is then
again shown by a least counterexample. For `LookupRight`: while the scan of one
level has no hit it has counted all matches so far and remembers the last of
them, and with a hit there are as many matches in front of it as the index says
(`Found`); `LookupAlwaysRight` follows for every tree a load can build. For
`TokensRight`: outside quotes the buffer is the run of word characters that has
not ended, and the tokens are those that end in the text so far (`PlainRight`,
inductive together with the types of the lexer, `LexInv`); for a value in quotes
the lexer has, behind each character that is written, exactly the part of the
value that was written in its buffer (`QuotedRead`). From it: `TokensAlwaysRight`.

**HttpParseProofs.** The decoder is a recursive function of the number of
iterations; `UrlRuns` shows that it exists and gives its equations (`UrlRun`).
`UrlStepFacts` says what any iteration does whatever the characters are: it goes
on, extends what was decoded (`Begins`), and leaves `pos` alone behind the
question mark (`Behind`). `RunEncoded` follows an encoded path escape by escape:
after `k` of them `pos` is the position of the question mark less `2 * k`. For
the main path, `AbreastStep` runs the decoder on a text and on what stands before
its question mark side by side: while the second goes on, both are at the same
place and `pos` is the length of what was decoded plus what is left
(`Abreast`), so that `pos` is the length of the decoded path when the question
mark is reached. Without one, `pos` starts below zero and stays there
(`MainPathAlone`). Headers are written in some order of the map
(`OrderFacts`) and read back since no key has two values (`HeadersBack`), the three
that `handle` overwrites included. The URL that is sent has no blank in it unless
the parameter has one, the upstream decodes it as the proxy parsed it, and a clean
path is its own decoding (`PlainPath`), so that writing and reading gives the path
again (`UrlKept`, `KeptRequest`). `Way` says that what was read is the
reading of the text. From it: `RequestInvariant`, `MainPathAlwaysRight`,
`EncodedAlwaysReadBack`, `RequestAlwaysKept`; of the constant `MaxSize` nothing is
used.

**RouterProofs.** `RInv` says that the nodes can be labelled with the marks (a
name, "any", the end) on the way from the root to them (`Labels`), that no two
nodes have one label, that the leaves are the ends of the accepted locations and
the other nodes their beginnings (`Holds`), in the middle of `add_new_handler`
including those of the location under way. A lookup stands at the node whose
label the path follows so far, with one value per segment (`OnTheWay`), and one
iteration of `parseURL` picks the child that `Chosen` picks from the set of
locations. The labelling is existentially quantified, since the code keeps none.
From it: `RouterInvariant`, `LookupAlwaysCorrect`, `ParamsAlwaysRight` and, since
two locations of one shape cannot both be leaves, `NoRouteEverDead`.

**FileProxyProofs.** `FInv` says what a worker's client has got and what its
`thread_local` response holds at each place of the handler (`PlaceInv`), above
all that in the `sendfile` loop the bytes sent and `remaining` add up to the
announced length; and what a worker that was not disturbed knows of the shared
`file_path` (`PathInv`). Every step is of one worker, and what the others see
changed is only `file_path`, the disk and their `alone` flags. From it:
`FilesInvariant`, `DescriptorsAlwaysBack`, `RepliesAlwaysFresh`,
`BodiesAlwaysAsAnnounced`, `AloneAlwaysServesItsFile`, whatever the log does
meanwhile.

**LoggerProofs.** `LInv` says what a statement under way knows of the shared
level (`StatementInv`: it is the one it asked for, or another thread came in
between, and then it is TRACE) and has besides the properties what the counter
of `SplittedFiles` means (`Counted`: the bytes of the current file, without its
first line if it is file 0, and never less) and that the files left were full
with their last line (`Full`). Two things about data had to be shown first:
what one more line adds to the bytes of a file (`Bytes` is a recursive function;
that its equation has a solution, and that two solutions agree, follows from a
least counterexample), and what it does to the order of every thread's lines
in the log that all files make together, at the end of a file or in front of a
new one (`Behind`). From it: `LogInvariant`, `LinesAlwaysKept`,
`FilesAlwaysBounded`. The bound on the length of a line is needed: a longer one
could carry the counter past its width, back below the limit.

The inductive invariants that no run lists (`HttpInv`, `ServedInv`, `StackInv`,
`TreeInv`, `LexInv`, `RInv`, `FInv`, `LInv`, `QuietInv`, `Way`) contain the
properties they were found for or imply them, and these are checked by the runs.

Only model-checked: the liveness properties, which are out of the prover's reach.

## 6. Not modelled

* Clocks and triggers (`alib-g3/aclock`): what they decide (timer due, client
  idle) is a free choice in `Server`; real time is not modelled.
* Utilities (`alib-g3/autil`, `socket_util.h`): console, files, memory figures;
  I/O and formatting. `io_fileSize` is a step of `FileProxy`.
* `setup_config`: units, signs and narrowing of numbers; `Application` chooses
  what a load may give.
* Log filters, header text and formatting of log values: the program installs no
  filter (`KeywordsBlocker`, whose test is inverted, is not used), and no
  property is about the layout of a line.
* A later request of one connection for a location with another upstream target
  (`reverse_proxy.cpp:23`: the first target stays); `client.active()` on a client
  that `cleanup_connection` has erased (`server.cpp:395`); a section of a pattern
  that is braces around blanks (`route_states.cpp:201`); a request line with one
  blank, of whose URL the model only says that it has an unknown byte
  (`http_parser.cpp:80`). No document of the repository says what should happen
  when a location's pattern is taken (`application.h:110`, modelled as
  `AddConflict`), when standard input ends (`application.cpp:134`, `ReadAtEnd`)
  or to connected clients on a reload (`server.h:126`), so no property does.
* Bodies on the way upstream: `HttpParse` forwards requests without bodies,
  `HttpConn` ends at the handler.
* The names under which `mapper` holds the parameters, beyond their places
  (`ParamsRight`): locations that share a node share the name it got first.
* Short writes of responses other than proxied ones and of a file, memory exhaustion
  and exceptions of the standard library other
  than the one in `join`; the command splitter, the status-code table.
