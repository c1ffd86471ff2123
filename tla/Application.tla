---------------------------- MODULE Application ----------------------------
(***************************************************************************)
(* The life of the process (src/main.cpp, src/application.cpp): the main   *)
(* thread reads the configuration, builds what the workers share, creates  *)
(* the Server objects, starts one thread per Server and then obeys the     *)
(* commands "exit" and "reload" it reads from standard input.  A reload    *)
(* stops and joins every worker thread, destroys the Servers and runs the  *)
(* whole setup again.  SIGINT runs std::exit on the main thread, wherever  *)
(* that thread is, and so the destructor of the global Application: also   *)
(* when the main thread holds the mutex of the console, or is in the       *)
(* middle of a change of what the destructor uses.                         *)
(*                                                                         *)
(* A worker thread is modelled by what it has in common with the main      *)
(* thread: the flag Server::running, the route tree and the log targets it *)
(* uses in every iteration, and the client descriptors its Server keeps.   *)
(* What an iteration does with its clients is module Server.               *)
(***************************************************************************)
EXTENDS Naturals

CONSTANTS
    MaxWorkers,   \* bound: the largest "workers" a configuration asks for
    Clients,      \* the client connections that may be accepted
    MaxLoads,     \* bound: how many times the configuration is loaded
    MaySuspend    \* a configuration may set wait_interval to -1

ASSUME ApplicationConstants ==
    /\ MaxWorkers \in Nat \ {0}
    /\ MaxLoads \in Nat \ {0}
    /\ MaySuspend \in BOOLEAN

VARIABLES
    \* --- the main thread --------------------------------------------------
    main,        \* where the main thread is
    ret,         \* where reset_servers returns to
    k,           \* the index of the loop it is in
    command,     \* the last line std::getline stored
    eof,         \* standard input has ended
    sig,         \* what the main thread was doing when SIGINT came; the
                 \* handler never returns
    \* --- what setup() builds ----------------------------------------------
    loads,       \* how many times the configuration was loaded
    cfg,         \* cfg_server
    mods,        \* the loads whose modules are registered
    tree,        \* handlers: routes, each with the load it was built in
    targets,     \* the output targets of logger and lgerr
    \* --- Servers and threads ----------------------------------------------
    objs,        \* servers: the Server objects that exist
    fd,          \* fd[i]: server_fd # -1
    running,     \* running[i]: the flag of Server i
    conf,        \* conf[i]: the copy of cfg_server that Server i has
    smods,       \* smods[i]: its copy of mods
    thread,      \* thread[i]: where the i-th thread is
    joinable,    \* server_threads: the threads that join() would wait for
    held,        \* held[i]: the connections in establishedClients of Server i
    open         \* the connections the process has an open descriptor for

mainvars   == <<main, ret, k, command, eof, sig>>
setupvars  == <<loads, cfg, mods, tree, targets>>
servervars == <<objs, fd, running, conf, smods>>
vars == <<mainvars, setupvars, servervars, thread, joinable, held, open>>

-----------------------------------------------------------------------------
(* Values *)

Slots == 1..MaxWorkers
Loads == 0..MaxLoads

\* A ServerConfig: the fields the life cycle depends on, and the load it
\* comes from (0: the defaults of ServerConfig::reset).
Configs == [workers : Slots, suspend : BOOLEAN, load : Loads]
DefaultConfig == [workers |-> 1, suspend |-> FALSE, load |-> 0]

Routes == Loads \X {"location", "handler"}

Commands == {"exit", "reload", "other"}

\* The states of a thread between its creation and its end.
Live == {"new", "init", "check", "wait", "work", "blocked"}

\* SIGINT has not come; it came between two changes; while a line was written
\* to the console; in the middle of a change of a container or a call of the
\* allocator.
Signals == {"none", "clean", "console", "torn"}

Init ==
    /\ main = "general" /\ ret = "clear" /\ k = 1
    /\ command = "other" /\ eof = FALSE /\ sig = "none"
    /\ loads = 0 /\ cfg = DefaultConfig
    /\ mods = {} /\ tree = {} /\ targets = {}
    /\ objs = {}
    /\ fd = [i \in Slots |-> FALSE]
    /\ running = [i \in Slots |-> FALSE]
    /\ conf = [i \in Slots |-> DefaultConfig]
    /\ smods = [i \in Slots |-> {}]
    /\ thread = [i \in Slots |-> "none"]
    /\ joinable = {}
    /\ held = [i \in Slots |-> {}]
    /\ open = {}

-----------------------------------------------------------------------------
(* Application::reset_servers: called by setup_general, by setup_servers   *)
(* and by the destructor.  ret says which one.                             *)

BeginReset(caller) == main' = "stop" /\ k' = 1 /\ ret' = caller

\* for(auto & sv : servers) sv->stop_server();
StopServer ==
    /\ main = "stop" /\ k \in Slots
    /\ running' = IF k \in objs THEN [running EXCEPT ![k] = FALSE] ELSE running
    /\ k' = k + 1
    /\ UNCHANGED <<main, ret, command, eof, sig, setupvars, objs, fd, conf,
                   smods, thread, joinable, held, open>>

StopsSent ==
    /\ main = "stop" /\ k \notin Slots
    /\ main' = "join" /\ k' = 1
    /\ UNCHANGED <<ret, command, eof, sig, setupvars, servervars, thread,
                   joinable, held, open>>

\* Mutant: the thread is detached instead of joined.
Mut_JoinThread ==
    /\ main = "join" /\ k \in Slots
    /\ joinable' = joinable \ {k}
    /\ k' = k + 1
    /\ UNCHANGED <<main, ret, command, eof, sig, setupvars, servervars, thread,
                   held, open>>

\* if(th.joinable()) th.join();  The join returns once the thread has ended.
JoinThread ==
    /\ main = "join" /\ k \in Slots
    /\ k \in joinable => thread[k] \notin Live
    /\ thread' = IF k \in joinable THEN [thread EXCEPT ![k] = "none"] ELSE thread
    /\ joinable' = joinable \ {k}
    /\ k' = k + 1
    /\ UNCHANGED <<main, ret, command, eof, sig, setupvars, servervars, held,
                   open>>

ThreadsJoined ==
    /\ main = "join" /\ k \notin Slots
    /\ main' = "destroy" /\ k' = 1
    /\ UNCHANGED <<ret, command, eof, sig, setupvars, servervars, thread,
                   joinable, held, open>>

\* servers.clear() runs ~Server for one after the other, which closes server_fd
\* and, through ~EPoll, the epoll object; the descriptors in
\* establishedClients stay open.  ~Server writes to the console: for ever, if
\* the signal handler runs on top of a line that is written to it.
DestroyServer ==
    /\ main = "destroy" /\ k \in Slots
    /\ IF sig = "console" /\ k \in objs
         THEN main' = "hung" /\ UNCHANGED <<k, objs, held>>
         ELSE /\ objs' = objs \ {k} /\ held' = [held EXCEPT ![k] = {}]
              /\ k' = k + 1 /\ UNCHANGED main
    /\ UNCHANGED <<ret, command, eof, sig, setupvars, fd, running, conf, smods,
                   thread, joinable, open>>

\* server_threads.clear() follows.
ServersDestroyed ==
    /\ main = "destroy" /\ k \notin Slots
    /\ main' = ret /\ k' = 1
    /\ UNCHANGED <<ret, command, eof, sig, setupvars, servervars, thread,
                   joinable, held, open>>

-----------------------------------------------------------------------------
(* Application::setup *)

\* The first half of setup_general: the configuration is replaced while the
\* workers are still running; they have copies.
SetupGeneral ==
    /\ main = "general"
    /\ cfg' = DefaultConfig
    /\ BeginReset("clear")
    /\ UNCHANGED <<command, eof, sig, loads, mods, tree, targets, servervars,
                   thread, joinable, held, open>>

\* Mutant: the route tree is not cleared.
Mut_ClearShared ==
    /\ main = "clear"
    /\ mods' = {} /\ targets' = {"console"} /\ UNCHANGED tree
    /\ main' = "config"
    /\ UNCHANGED <<ret, k, command, eof, sig, loads, cfg, servervars, thread,
                   joinable, held, open>>

\* The second half: modules, routes and log targets are cleared, the console
\* targets are created.
ClearShared ==
    /\ main = "clear"
    /\ mods' = {} /\ tree' = {} /\ targets' = {"console"}
    /\ main' = "config"
    /\ UNCHANGED <<ret, k, command, eof, sig, loads, cfg, servervars, thread,
                   joinable, held, open>>

\* What ./data/config may say: a missing file leaves the defaults, and of a
\* file with a syntax error the directives in front of it count (module
\* Config); "workers" must be positive, "wait_interval" is taken as it is.
SetupConfig ==
    /\ main = "config" /\ loads < MaxLoads
    /\ loads' = loads + 1
    /\ \E n \in Slots, s \in BOOLEAN :
         /\ s => MaySuspend
         /\ cfg' = [workers |-> n, suspend |-> s, load |-> loads + 1]
    /\ main' = "logger"
    /\ UNCHANGED <<ret, k, command, eof, sig, mods, tree, targets, servervars,
                   thread, joinable, held, open>>

SetupLogger ==
    /\ main = "logger"
    /\ targets' = targets \cup {"file"}
    /\ main' = "modules"
    /\ UNCHANGED <<ret, k, command, eof, sig, loads, cfg, mods, tree,
                   servervars, thread, joinable, held, open>>

\* setup_modules adds a route and registers a module for every usable
\* location; there may be none.
SetupModules ==
    /\ main = "modules"
    /\ \/ tree' = tree \cup {<<loads, "location">>} /\ mods' = mods \cup {loads}
       \/ UNCHANGED <<tree, mods>>
    /\ main' = "handlers"
    /\ UNCHANGED <<ret, k, command, eof, sig, loads, cfg, targets, servervars,
                   thread, joinable, held, open>>

\* setup_handlers, and the reset_servers that setup_servers starts with.
SetupHandlers ==
    /\ main = "handlers"
    /\ tree' = tree \cup {<<loads, "handler">>}
    /\ BeginReset("make")
    /\ UNCHANGED <<command, eof, sig, loads, cfg, mods, targets, servervars,
                   thread, joinable, held, open>>

\* The condition of the loop of setup_servers.
MoreServers == k <= cfg.workers

\* One iteration: a Server with copies of cfg_server and mods.  When bind
\* fails, setup() leaves it without a socket.
MakeServer ==
    /\ main = "make" /\ MoreServers
    /\ \E ok \in BOOLEAN : fd' = [fd EXCEPT ![k] = ok]
    /\ objs' = objs \cup {k}
    /\ running' = [running EXCEPT ![k] = TRUE]
    /\ conf' = [conf EXCEPT ![k] = cfg]
    /\ smods' = [smods EXCEPT ![k] = mods]
    /\ k' = k + 1
    /\ UNCHANGED <<main, ret, command, eof, sig, setupvars, thread, joinable, held, open>>

\* listen() fails: std::exit(-1).
ListenFails ==
    /\ main = "make" /\ MoreServers
    /\ BeginReset("farewell")
    /\ UNCHANGED <<command, eof, sig, setupvars, servervars, thread, joinable, held, open>>

ServersMade ==
    /\ main = "make" /\ ~MoreServers
    /\ main' = "start" /\ k' = 1
    /\ UNCHANGED <<ret, command, eof, sig, setupvars, servervars, thread, joinable,
                   held, open>>

\* server_threads.emplace_back(&Server::run,sv.get()): the thread runs as soon
\* as it is created, the vector has it later.
StartThread ==
    /\ main = "start" /\ k \in objs
    /\ thread' = [thread EXCEPT ![k] = "new"]
    /\ main' = "register"
    /\ UNCHANGED <<ret, k, command, eof, sig, setupvars, servervars, joinable,
                   held, open>>

RegisterThread ==
    /\ main = "register"
    /\ joinable' = joinable \cup {k}
    /\ k' = k + 1 /\ main' = "start"
    /\ UNCHANGED <<ret, command, eof, sig, setupvars, servervars, thread, held,
                   open>>

ThreadsStarted ==
    /\ main = "start" /\ k \notin objs
    /\ main' = "command"
    /\ UNCHANGED <<ret, k, command, eof, sig, setupvars, servervars, thread,
                   joinable, held, open>>

-----------------------------------------------------------------------------
(* The command loop of Application::run *)

Execute(c) ==
    \/ /\ c = "exit"
       /\ BeginReset("farewell")
    \/ /\ c = "reload" /\ loads < MaxLoads
       /\ main' = "general" /\ UNCHANGED <<ret, k>>
    \/ /\ c = "other"
       /\ UNCHANGED <<main, ret, k>>

\* A line, possibly the last one and then possibly without a newline.
ReadLine ==
    /\ main = "command" /\ ~eof
    /\ command' \in Commands
    /\ eof' \in BOOLEAN
    /\ Execute(command')
    /\ UNCHANGED <<sig, setupvars, servervars, thread, joinable, held, open>>

\* std::getline fails and leaves command as it was; the loop does not look at
\* the state of the stream and obeys the last line again.
ReadAtEnd ==
    /\ main = "command" /\ eof
    /\ Execute(command)
    /\ UNCHANGED <<command, eof, sig, setupvars, servervars, thread, joinable, held, open>>

-----------------------------------------------------------------------------
(* The end of the process *)

Ended == {"gone", "aborted"}
Exiting == main = "farewell" \/ (main \in {"stop", "join", "destroy"} /\ ret = "farewell")

\* The kernel ends the threads of the process and closes its descriptors.
EndProcess(how) ==
    /\ main' = how
    /\ thread' = [i \in Slots |-> "none"] /\ joinable' = {}
    /\ objs' = {} /\ open' = {} /\ held' = [i \in Slots |-> {}]
    /\ UNCHANGED <<ret, k, command, eof, setupvars, fd, running, conf, smods>>

\* The rest of ~Application after reset_servers.  Its last line goes to the
\* console.
Farewell ==
    /\ main = "farewell"
    /\ IF sig = "console"
         THEN /\ main' = "hung"
              /\ UNCHANGED <<ret, k, command, eof, setupvars, servervars, thread,
                             joinable, held, open>>
         ELSE EndProcess("gone")
    /\ UNCHANGED sig

\* std::exit on the main thread runs ~Application, which starts to stop and
\* join the workers.
Signal(found) ==
    /\ sig = "none" /\ sig' = found
    /\ main \notin Ended \cup {"hung"} /\ ~Exiting

\* Between two changes.
SigintExits ==
    /\ Signal("clean") /\ main \notin {"register", "destroy"}
    /\ ~(main = "join" /\ k \in joinable /\ thread[k] \in Live)
    /\ BeginReset("farewell")
    /\ UNCHANGED <<command, eof, setupvars, servervars, thread, joinable, held, open>>

\* Inside Console::write, with the lock of the Logger and global_lock: while the
\* configuration is read, a Server set up or destroyed, or an unknown command
\* reported.
SigintInLine ==
    /\ Signal("console") /\ "console" \in targets
    /\ main \in {"config", "make", "command"} \/ (main = "destroy" /\ k \in objs)
    /\ BeginReset("farewell")
    /\ UNCHANGED <<command, eof, setupvars, servervars, thread, joinable, held, open>>

\* In the middle of what the main thread does everywhere but in the loops that
\* stop and join: it changes a container that ~Application uses, or allocates.
\* Inside emplace_back the new thread is not in the vector yet, and the first
\* ones may have been moved out of it.
SigintInChange ==
    /\ Signal("torn") /\ main \notin {"stop", "join"}
    /\ joinable' \in IF main = "register" THEN {joinable \ (1..n) : n \in 0..MaxWorkers}
                     ELSE {joinable}
    /\ BeginReset("farewell")
    /\ UNCHANGED <<command, eof, setupvars, servervars, thread, held, open>>

\* What comes of it is undefined: the destructor gets through, as if nothing
\* were wrong, or it fails, or it waits for a lock of the allocator.
TornFails ==
    /\ sig = "torn" /\ Exiting
    /\ \/ EndProcess("aborted")
       \/ /\ main' = "hung"
          /\ UNCHANGED <<ret, k, command, eof, setupvars, servervars, thread,
                         joinable, held, open>>
    /\ UNCHANGED sig

\* The main thread is inside th.join(): the destructor joins the same thread
\* again, std::thread::join throws and std::terminate ends the process.
SigintInJoin ==
    /\ Signal("clean")
    /\ main = "join" /\ k \in joinable
    /\ EndProcess("aborted")

\* A second std::exit does not run the destructor again.
SigintExiting == sig = "none" /\ sig' = "clean" /\ Exiting /\ EndProcess("gone")

\* A thread uses its Server, which is gone.
UseAfterFree(i) ==
    /\ thread[i] \in Live /\ i \notin objs
    /\ EndProcess("aborted") /\ UNCHANGED sig

\* SIGINT came at a bad moment: the main thread was writing to the console, and
\* now it or the thread it joins waits for a lock it holds; or it was changing or
\* allocating something.
Interrupted ==
    \/ main = "hung" /\ sig \in {"console", "torn"}
    \/ /\ main = "join" /\ sig = "console"
       /\ \E i \in joinable : i = k /\ thread[i] = "blocked"

Terminated == (main \in Ended \/ Interrupted) /\ UNCHANGED vars

-----------------------------------------------------------------------------
(* A worker thread: Server::run.  It uses the objects of its Server, the   *)
(* route tree and the log targets in every state of Live.                  *)

Moves(i, to) ==
    /\ thread' = [thread EXCEPT ![i] = to]
    /\ UNCHANGED <<mainvars, setupvars, objs, fd, conf, smods, joinable>>

\* What it reads in its Server, or in the memory that was one.
Reads(i, flag) == IF i \in objs THEN {flag} ELSE BOOLEAN

\* if(server_fd < 0)return;
RunEnter(i) ==
    /\ thread[i] = "new"
    /\ \E ok \in Reads(i, fd[i]) : Moves(i, IF ok THEN "init" ELSE "done")
    /\ UNCHANGED <<running, held, open>>

\* The modules' init functions, clk.start(), running = true.
RunInit(i) ==
    /\ thread[i] = "init"
    /\ Moves(i, "check")
    /\ running' = [running EXCEPT ![i] = TRUE]
    /\ UNCHANGED <<held, open>>

\* Mutant: the flag is not looked at again.
Mut_RunCheck(i) ==
    /\ thread[i] = "check"
    /\ Moves(i, "wait")
    /\ UNCHANGED <<running, held, open>>

\* while(running)
RunCheck(i) ==
    /\ thread[i] = "check"
    /\ \E on \in Reads(i, running[i]) : Moves(i, IF on THEN "wait" ELSE "done")
    /\ UNCHANGED <<running, held, open>>

\* epoll_wait times out, unless its timeout is -1.  The timers and the ping
\* are part of the iteration.
RunTimeout(i) ==
    /\ thread[i] = "wait" /\ ~conf[i].suspend
    /\ Moves(i, "work")
    /\ UNCHANGED <<running, held, open>>

\* epoll_wait reports events; nobody promises that there are any.
RunEvent(i) ==
    /\ thread[i] = "wait"
    /\ Moves(i, "work")
    /\ UNCHANGED <<running, held, open>>

\* The rest of the iteration: it may accept or close connections.
RunWork(i) ==
    /\ thread[i] = "work"
    /\ Moves(i, "check")
    /\ \/ \E c \in Clients \ open : /\ held' = [held EXCEPT ![i] = @ \cup {c}]
                                    /\ open' = open \cup {c}
       \/ \E c \in held[i] : /\ held' = [held EXCEPT ![i] = @ \ {c}]
                             /\ open' = open \ {c}
       \/ UNCHANGED <<held, open>>
    /\ UNCHANGED running

\* A line for the log, and the main thread has its locks for ever.
RunLog(i) ==
    /\ thread[i] \in {"init", "work"} /\ sig = "console"
    /\ Moves(i, "blocked")
    /\ UNCHANGED <<running, held, open>>

-----------------------------------------------------------------------------
(* The specification *)

Reset == \/ StopServer \/ StopsSent \/ JoinThread \/ ThreadsJoined
         \/ DestroyServer \/ ServersDestroyed

Setup == \/ SetupGeneral \/ ClearShared \/ SetupConfig \/ SetupLogger
         \/ SetupModules \/ SetupHandlers
         \/ MakeServer \/ ListenFails \/ ServersMade
         \/ StartThread \/ RegisterThread \/ ThreadsStarted

Command == ReadLine \/ ReadAtEnd

Sigint == \/ SigintExits \/ SigintInLine \/ SigintInChange \/ TornFails
          \/ SigintInJoin \/ SigintExiting

Run(i) == RunEnter(i) \/ RunInit(i) \/ RunCheck(i) \/ RunTimeout(i) \/ RunWork(i)

Next == \/ Reset \/ Setup \/ Command \/ Sigint \/ Farewell \/ Terminated
        \/ \E i \in Slots : Run(i) \/ RunEvent(i) \/ RunLog(i) \/ UseAfterFree(i)

Spec == Init /\ [][Next]_vars

\* The main thread and every worker thread are scheduled again and again.
\* Nobody promises a command, a signal or an epoll event.
Fairness == /\ WF_vars(Reset \/ Setup \/ Farewell)
            /\ \A i \in Slots : WF_vars(Run(i))

FairSpec == Spec /\ Fairness

-----------------------------------------------------------------------------
(* Properties *)

Labels == {"general", "stop", "join", "destroy", "clear", "config", "logger",
           "modules", "handlers", "make", "start", "register", "command",
           "farewell", "hung"} \cup Ended

\* Every variable keeps its type; in particular setup_servers creates no more
\* Servers than the configuration asks for.
TypeOK ==
    /\ main \in Labels /\ ret \in {"clear", "make", "farewell"}
    /\ k \in 1..(MaxWorkers + 1)
    /\ command \in Commands /\ eof \in BOOLEAN /\ sig \in Signals
    /\ loads \in Loads /\ cfg \in Configs
    /\ mods \in SUBSET Loads
    /\ tree \in SUBSET Routes
    /\ targets \in SUBSET {"console", "file"}
    /\ objs \in SUBSET Slots
    /\ fd \in [Slots -> BOOLEAN] /\ running \in [Slots -> BOOLEAN]
    /\ conf \in [Slots -> Configs]
    /\ smods \in [Slots -> SUBSET Loads]
    /\ thread \in [Slots -> Live \cup {"none", "done"}]
    /\ joinable \in SUBSET Slots
    /\ held \in [Slots -> SUBSET Clients]
    /\ open \in SUBSET Clients

\* A Server is never destroyed under a thread that still runs in it, whatever
\* commands and signals arrive while the threads start and stop (reset_servers
\* joins before servers.clear()), but by one thing: a SIGINT inside emplace_back
\* leaves threads that run and that reset_servers does not know.
ServerOutlivesThread ==
    \A i \in Slots : thread[i] \in Live => i \in objs \/ (sig = "torn" /\ i \notin joinable)

\* The route tree and the log targets, which the workers read without a lock,
\* are only changed while no worker thread runs (the reset_servers in the
\* middle of setup_general).
SharedStable ==
    [][(tree' # tree \/ targets' # targets)
         => \A i \in Slots : thread[i] \notin Live]_vars

\* Whatever a worker does after a reload it does with the configuration, the
\* modules, the routes and the log targets of one and the same load, and the
\* route tree it dispatches on is complete.
OneGeneration ==
    \A i \in Slots : thread[i] \in Live =>
        /\ conf[i].load = loads
        /\ smods[i] \subseteq {loads}
        /\ <<loads, "handler">> \in tree
        /\ \A r \in tree : r[1] = loads
        /\ targets = {"console", "file"}

\* Hot reload terminates: setup() comes to the end, and commands are read
\* again, unless the process is told to end meanwhile.
ReloadCompletes ==
    main = "general" ~> (main = "command" \/ Exiting \/ main \in Ended)

\* The only two ways in which reset_servers waits for ever, when no signal came
\* at a bad moment: it joins a thread whose running flag was set again after the
\* stop, because the thread came to running = true only then, or one that may
\* wait in epoll_wait without a timeout.
Stuck ==
    main = "join" /\ \E i \in Slots :
        i = k /\ i \in joinable /\ thread[i] \in Live /\ (running[i] \/ conf[i].suspend)

\* A hot reload comes to the end of setup(), and "exit", SIGINT and a failing
\* listen() end the process, unless a stop was lost, a worker sleeps without
\* a timeout or SIGINT came at a bad moment: no other order of commands, signals
\* and threads that start and stop can keep the main thread waiting.
MainReturnsOrStuck ==
    /\ main = "general" ~> (main = "command" \/ Exiting \/ main \in Ended \/ Stuck)
    /\ Exiting ~> (main \in Ended \/ Stuck \/ Interrupted)
=============================================================================
