--------------------------- MODULE ApplicationInv ---------------------------
(***************************************************************************)
(* The inductive invariant behind the theorems about module Application.   *)
(***************************************************************************)
EXTENDS Application

NoThread == \A i \in Slots : thread[i] = "none"

\* The route tree and the log targets are those of the last load.
Complete ==
    /\ <<loads, "handler">> \in tree
    /\ \A r \in tree : r[1] = loads
    /\ targets = {"console", "file"}

\* reset_servers has returned once since the last thread ended.
Rebuilding ==
    \/ main \in {"clear", "config", "logger", "modules", "handlers", "make"}
    \/ main \in {"stop", "join", "destroy"} /\ ret = "make"

\* The handler of SIGINT never returns.
SignalInv == sig # "none" => Exiting \/ main \in Ended \cup {"hung"}

\* While setup() rebuilds there is no thread; the threads that are being
\* started are the ones below k; the ones below k are joined by now; and
\* server_threads knows every thread but the one that is being registered.
ThreadInv ==
    /\ Rebuilding \/ main \in Ended => NoThread
    /\ main = "start" => \A i \in Slots : i >= k => thread[i] = "none"
    /\ main = "register" => /\ k \in objs /\ thread[k] # "none"
                            /\ \A i \in Slots : i > k => thread[i] = "none"
    /\ main = "join" => \A i \in joinable : i >= k
    /\ main \in {"destroy", "farewell"} => joinable = {}
    /\ \A i \in joinable : thread[i] # "none"
    /\ \A i \in Slots : thread[i] # "none" =>
         i \in joinable \/ sig = "torn" \/ (main = "register" /\ i = k)

\* What setup() has built when, and what is destroyed.
BuildInv ==
    /\ main = "destroy" => \A i \in objs : i >= k
    /\ main \in {"config", "logger"} => tree = {} /\ mods = {} /\ targets = {"console"}
    /\ main \in {"clear", "config", "logger", "modules", "handlers"} => objs = {}
    /\ main = "modules" => tree = {} /\ mods = {} /\ targets = {"console", "file"}
    /\ main = "handlers" => /\ \A r \in tree : r[1] = loads
                            /\ mods \subseteq {loads}
                            /\ targets = {"console", "file"}
    /\ main \in {"stop", "join", "destroy"} /\ ret = "make" =>
         Complete /\ cfg.load = loads /\ mods \subseteq {loads}
    /\ main \in {"modules", "handlers", "logger"} => cfg.load = loads
    /\ main \in {"make", "start", "register"} =>
         /\ Complete
         /\ cfg.load = loads /\ mods \subseteq {loads}
         /\ \A i \in objs : conf[i].load = loads /\ smods[i] \subseteq {loads}

AInv == /\ TypeOK
        /\ ServerOutlivesThread
        /\ OneGeneration
        /\ SignalInv
        /\ ThreadInv
        /\ BuildInv
=============================================================================
