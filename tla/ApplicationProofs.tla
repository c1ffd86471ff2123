------------------------- MODULE ApplicationProofs -------------------------
(***************************************************************************)
(* For every number of workers, clients and reloads: no Server is destroyed*)
(* under a running thread, the shared structures only change while no      *)
(* thread runs, and a thread never sees two loads of the configuration.    *)
(***************************************************************************)
EXTENDS ApplicationInv, TLAPS

LEMMA AInit == Init => AInv
<1> SUFFICES ASSUME Init PROVE AInv
  OBVIOUS
<1> USE ApplicationConstants DEF Init
<1>1. TypeOK
  <2>1. cfg \in Configs /\ conf \in [Slots -> Configs]
    BY DEF Configs, DefaultConfig, Slots, Loads
  <2>2. loads \in Loads /\ k \in 1..(MaxWorkers + 1)
    BY DEF Loads
  <2> QED
    BY <2>1, <2>2 DEF TypeOK, Labels, Commands, Live, Signals
<1>2. ServerOutlivesThread /\ OneGeneration
  BY DEF ServerOutlivesThread, OneGeneration, Live
<1>3. ThreadInv
  BY DEF ThreadInv, NoThread, Rebuilding, Ended, Live, Slots
<1>4. BuildInv
  BY DEF BuildInv
<1> QED
  BY <1>1, <1>2, <1>3, <1>4 DEF AInv, SignalInv

LEMMA StopServerKeeps ==
    ASSUME AInv, StopServer
    PROVE  AInv'
<1> USE ApplicationConstants DEF AInv, StopServer,
       mainvars, setupvars, servervars
<1>1. TypeOK'
  <2>1. k' \in 1..(MaxWorkers + 1)
    BY DEF TypeOK, Slots
  <2>2. running' \in [Slots -> BOOLEAN]
    BY DEF TypeOK
  <2> QED
    BY <2>1, <2>2 DEF TypeOK
<1>2. ServerOutlivesThread'
  BY DEF ServerOutlivesThread
<1>3. OneGeneration'
  BY DEF OneGeneration
<1>4. ThreadInv'
  BY DEF ThreadInv, NoThread, Rebuilding
<1>5. BuildInv'
  BY DEF BuildInv, Complete
<1>6. SignalInv'
  BY DEF SignalInv, Exiting, Ended
<1> QED
  BY <1>1, <1>2, <1>3, <1>4, <1>5, <1>6

LEMMA StopsSentKeeps ==
    ASSUME AInv, StopsSent
    PROVE  AInv'
<1> USE ApplicationConstants DEF AInv, StopsSent,
       mainvars, setupvars, servervars
<1>1. TypeOK'
  BY DEF TypeOK, Labels
<1>2. ServerOutlivesThread'
  BY DEF ServerOutlivesThread
<1>3. OneGeneration'
  BY DEF OneGeneration
<1>4. ThreadInv'
  BY DEF ThreadInv, NoThread, Rebuilding, TypeOK, Slots, Ended
<1>5. BuildInv'
  BY DEF BuildInv, Complete
<1>6. SignalInv'
  BY DEF SignalInv, Exiting, Ended
<1> QED
  BY <1>1, <1>2, <1>3, <1>4, <1>5, <1>6

LEMMA JoinThreadKeeps ==
    ASSUME AInv, JoinThread
    PROVE  AInv'
<1> USE ApplicationConstants DEF AInv, JoinThread,
       mainvars, setupvars, servervars
<1>1. TypeOK'
  BY DEF TypeOK, Labels, Slots
<1>0. \A i \in Slots : /\ thread'[i] \in Live => thread[i] \in Live /\ (i \in joinable => i # k)
                       /\ thread'[i] # "none" => thread[i] # "none" /\ (i \in joinable => i # k)
                       /\ i # k => thread'[i] = thread[i]
  BY DEF TypeOK, Live
<1>2. ServerOutlivesThread'
  BY <1>0 DEF ServerOutlivesThread
<1>3. OneGeneration'
  BY <1>0 DEF OneGeneration
<1>4. ThreadInv'
  <2>1. k \in Nat /\ k' = k + 1 /\ joinable \subseteq Slots
    BY DEF TypeOK, Slots
  <2>2. \A i \in joinable' : i >= k'
    BY <2>1 DEF ThreadInv, Slots
  <2>3. NoThread => NoThread'
    BY <1>0 DEF NoThread
  <2>4. \A i \in joinable' : thread'[i] # "none"
    BY <1>0, <2>1 DEF ThreadInv
  <2>5. \A i \in Slots : thread'[i] # "none" => i \in joinable' \/ sig' = "torn"
    BY <1>0 DEF ThreadInv
  <2> QED
    BY <2>2, <2>3, <2>4, <2>5 DEF ThreadInv, Rebuilding, Ended
<1>5. BuildInv'
  BY DEF BuildInv, Complete
<1>6. SignalInv'
  BY DEF SignalInv, Exiting, Ended
<1> QED
  BY <1>1, <1>2, <1>3, <1>4, <1>5, <1>6

LEMMA ThreadsJoinedKeeps ==
    ASSUME AInv, ThreadsJoined
    PROVE  AInv'
<1> USE ApplicationConstants DEF AInv, ThreadsJoined,
       mainvars, setupvars, servervars
<1>1. TypeOK'
  BY DEF TypeOK, Labels
<1>2. ServerOutlivesThread'
  BY DEF ServerOutlivesThread
<1>3. OneGeneration'
  BY DEF OneGeneration
<1>4. ThreadInv'
  <2>1. joinable' = {}
    <3>1. \A i \in Slots : i < k
      BY DEF TypeOK, Slots
    <3> QED
      BY <3>1 DEF ThreadInv, TypeOK, Slots
  <2> QED
    BY <2>1 DEF ThreadInv, NoThread, Rebuilding, Ended
<1>5. BuildInv'
  <2>1. \A i \in objs' : i >= k'
    BY DEF TypeOK, Slots
  <2> QED
    BY <2>1 DEF BuildInv, Complete
<1>6. SignalInv'
  BY DEF SignalInv, Exiting, Ended
<1> QED
  BY <1>1, <1>2, <1>3, <1>4, <1>5, <1>6

LEMMA DestroyServerKeeps ==
    ASSUME AInv, DestroyServer
    PROVE  AInv'
<1> USE ApplicationConstants DEF AInv, DestroyServer,
       mainvars, setupvars, servervars
<1>0. /\ joinable = {} /\ main = "destroy"
      /\ \A i \in Slots : thread[i] # "none" => sig = "torn"
  BY DEF ThreadInv
<1>1. TypeOK'
  <2>1. objs' \in SUBSET Slots /\ held' \in [Slots -> SUBSET Clients]
    BY DEF TypeOK
  <2>2. k' \in 1..(MaxWorkers + 1) /\ main' \in Labels
    BY DEF TypeOK, Labels, Slots
  <2> QED
    BY <2>1, <2>2 DEF TypeOK
<1>2. ServerOutlivesThread'
  BY <1>0 DEF ServerOutlivesThread, Live
<1>3. OneGeneration'
  BY DEF OneGeneration
<1>4. ThreadInv'
  BY <1>0 DEF ThreadInv, NoThread, Rebuilding, Ended
<1>5. BuildInv'
  <2>1. main' = "destroy" => \A i \in objs' : i >= k'
    <3>1. \A i \in objs : i \in Nat /\ i >= k
      BY DEF BuildInv, TypeOK, Slots
    <3>2. ASSUME main' = "destroy" PROVE objs' = objs \ {k} /\ k' = k + 1
      BY <3>2
    <3>3. k \in Nat
      BY DEF Slots
    <3> HIDE DEF DestroyServer
    <3> QED
      BY <3>1, <3>2, <3>3
  <2> QED
    BY <2>1 DEF BuildInv, Complete
<1>6. SignalInv'
  BY DEF SignalInv, Exiting, Ended
<1> QED
  BY <1>1, <1>2, <1>3, <1>4, <1>5, <1>6

LEMMA ServersDestroyedKeeps ==
    ASSUME AInv, ServersDestroyed
    PROVE  AInv'
<1> USE ApplicationConstants DEF AInv, ServersDestroyed,
       mainvars, setupvars, servervars
<1>0. joinable = {} /\ main = "destroy" /\ main' \in {"clear", "make", "farewell"}
  BY DEF ThreadInv, TypeOK
<1>00. main' \in {"clear", "make"} => sig = "none" /\ NoThread
  BY <1>0 DEF ThreadInv, SignalInv, Exiting, Ended, NoThread
<1>1. TypeOK'
  BY DEF TypeOK, Labels
<1>2. ServerOutlivesThread'
  BY DEF ServerOutlivesThread
<1>3. OneGeneration'
  BY DEF OneGeneration
<1>4. ThreadInv'
  BY <1>0, <1>00 DEF ThreadInv, NoThread, Rebuilding, Ended
<1>5. BuildInv'
  <2>1. objs' = {}
    <3>1. \A i \in Slots : i < k
      BY DEF TypeOK, Slots
    <3> QED
      BY <1>0, <3>1 DEF BuildInv, TypeOK, Slots
  <2>2. main' = "make" => ret = "make"
    OBVIOUS
  <2>3. main' = "make" => Complete' /\ cfg'.load = loads' /\ mods' \subseteq {loads'}
    BY <1>0, <2>2 DEF BuildInv, Complete
  <2> QED
    BY <1>0, <2>1, <2>3 DEF BuildInv
<1>6. SignalInv'
  BY DEF SignalInv, Exiting, Ended
<1> QED
  BY <1>1, <1>2, <1>3, <1>4, <1>5, <1>6

LEMMA SetupGeneralKeeps ==
    ASSUME AInv, SetupGeneral
    PROVE  AInv'
<1> USE ApplicationConstants DEF AInv, SetupGeneral, BeginReset,
       mainvars, setupvars, servervars
<1>1. TypeOK'
  <2>1. cfg' \in Configs
    BY DEF Configs, DefaultConfig, Slots, Loads
  <2>2. k' \in 1..(MaxWorkers + 1)
    OBVIOUS
  <2> QED
    BY <2>1, <2>2 DEF TypeOK, Labels
<1>2. ServerOutlivesThread'
  BY DEF ServerOutlivesThread
<1>3. OneGeneration'
  BY DEF OneGeneration
<1>4. ThreadInv'
  BY DEF ThreadInv, NoThread, Rebuilding, Ended
<1>5. BuildInv'
  BY DEF BuildInv
<1>6. SignalInv'
  BY DEF SignalInv, Exiting, Ended
<1> QED
  BY <1>1, <1>2, <1>3, <1>4, <1>5, <1>6

LEMMA ClearSharedKeeps ==
    ASSUME AInv, ClearShared
    PROVE  AInv'
<1> USE ApplicationConstants DEF AInv, ClearShared,
       mainvars, setupvars, servervars
<1>1. TypeOK'
  BY DEF TypeOK, Labels
<1>2. ServerOutlivesThread'
  BY DEF ServerOutlivesThread
<1>3. OneGeneration'
  BY DEF OneGeneration, Live, ThreadInv, NoThread, Rebuilding
<1>4. ThreadInv'
  BY DEF ThreadInv, NoThread, Rebuilding
<1>5. BuildInv'
  BY DEF BuildInv
<1>6. SignalInv'
  BY DEF SignalInv, Exiting, Ended
<1> QED
  BY <1>1, <1>2, <1>3, <1>4, <1>5, <1>6

LEMMA SetupConfigKeeps ==
    ASSUME AInv, SetupConfig
    PROVE  AInv'
<1> USE ApplicationConstants DEF AInv, SetupConfig,
       mainvars, setupvars, servervars
<1>1. TypeOK'
  <2>1. loads' \in Loads
    BY DEF TypeOK, Loads
  <2>2. PICK n \in Slots, s \in BOOLEAN :
          cfg' = [workers |-> n, suspend |-> s, load |-> loads + 1]
    OBVIOUS
  <2>3. cfg' \in Configs
    BY <2>1, <2>2 DEF Configs
  <2> QED
    BY <2>1, <2>3 DEF TypeOK, Labels
<1>2. ServerOutlivesThread'
  BY DEF ServerOutlivesThread
<1>3. OneGeneration'
  BY DEF OneGeneration, Live, ThreadInv, NoThread, Rebuilding
<1>4. ThreadInv'
  BY DEF ThreadInv, NoThread, Rebuilding
<1>5. BuildInv'
  <2>1. cfg'.load = loads'
    OBVIOUS
  <2> QED
    BY <2>1 DEF BuildInv, Ended
<1>6. SignalInv'
  BY DEF SignalInv, Exiting, Ended
<1> QED
  BY <1>1, <1>2, <1>3, <1>4, <1>5, <1>6

LEMMA SetupLoggerKeeps ==
    ASSUME AInv, SetupLogger
    PROVE  AInv'
<1> USE ApplicationConstants DEF AInv, SetupLogger,
       mainvars, setupvars, servervars
<1>1. TypeOK'
  BY DEF TypeOK, Labels
<1>2. ServerOutlivesThread'
  BY DEF ServerOutlivesThread
<1>3. OneGeneration'
  BY DEF OneGeneration
<1>4. ThreadInv'
  BY DEF ThreadInv, NoThread, Rebuilding
<1>5. BuildInv'
  BY DEF BuildInv
<1>6. SignalInv'
  BY DEF SignalInv, Exiting, Ended
<1> QED
  BY <1>1, <1>2, <1>3, <1>4, <1>5, <1>6

LEMMA SetupModulesKeeps ==
    ASSUME AInv, SetupModules
    PROVE  AInv'
<1> USE ApplicationConstants DEF AInv, SetupModules,
       mainvars, setupvars, servervars
<1>1. TypeOK'
  <2>1. tree' \in SUBSET Routes
    BY DEF TypeOK, Routes
  <2>2. mods' \in SUBSET Loads
    BY DEF TypeOK
  <2> QED
    BY <2>1, <2>2 DEF TypeOK, Labels
<1>2. ServerOutlivesThread'
  BY DEF ServerOutlivesThread
<1>3. OneGeneration'
  BY DEF OneGeneration
<1>4. ThreadInv'
  BY DEF ThreadInv, NoThread, Rebuilding
<1>5. BuildInv'
  <2>1. /\ tree = {} /\ mods = {} /\ targets = {"console", "file"}
        /\ objs = {} /\ cfg.load = loads
    BY DEF BuildInv
  <2>2. (\A r \in tree' : r[1] = loads) /\ mods' \subseteq {loads}
    BY <2>1
  <2> QED
    BY <2>1, <2>2 DEF BuildInv
<1>6. SignalInv'
  BY DEF SignalInv, Exiting, Ended
<1> QED
  BY <1>1, <1>2, <1>3, <1>4, <1>5, <1>6

LEMMA SetupHandlersKeeps ==
    ASSUME AInv, SetupHandlers
    PROVE  AInv'
<1> USE ApplicationConstants DEF AInv, SetupHandlers, BeginReset,
       mainvars, setupvars, servervars
<1>1. TypeOK'
  <2>1. tree' \in SUBSET Routes
    BY DEF TypeOK, Routes
  <2>2. k' \in 1..(MaxWorkers + 1)
    OBVIOUS
  <2> QED
    BY <2>1, <2>2 DEF TypeOK, Labels
<1>2. ServerOutlivesThread'
  BY DEF ServerOutlivesThread
<1>3. OneGeneration'
  BY DEF OneGeneration
<1>4. ThreadInv'
  BY DEF ThreadInv, NoThread, Rebuilding
<1>5. BuildInv'
  <2>1. /\ \A r \in tree : r[1] = loads
        /\ mods \subseteq {loads} /\ targets = {"console", "file"}
        /\ objs = {} /\ cfg.load = loads
    BY DEF BuildInv
  <2>2. \A r \in tree' : r[1] = loads
    BY <2>1
  <2>3. Complete'
    BY <2>1, <2>2 DEF Complete
  <2> QED
    BY <2>1, <2>3 DEF BuildInv
<1>6. SignalInv'
  BY DEF SignalInv, Exiting, Ended
<1> QED
  BY <1>1, <1>2, <1>3, <1>4, <1>5, <1>6

LEMMA MakeServerKeeps ==
    ASSUME AInv, MakeServer
    PROVE  AInv'
<1> USE ApplicationConstants DEF AInv, MakeServer, MoreServers,
       mainvars, setupvars, servervars
<1>0. k \in Slots /\ k' \in 1..(MaxWorkers + 1)
  BY DEF TypeOK, Configs, Slots
<1>1. TypeOK'
  <2>1. fd' \in [Slots -> BOOLEAN] /\ running' \in [Slots -> BOOLEAN]
    BY <1>0 DEF TypeOK
  <2>2. conf' \in [Slots -> Configs] /\ smods' \in [Slots -> SUBSET Loads]
    BY <1>0 DEF TypeOK
  <2>3. objs' \in SUBSET Slots
    BY <1>0 DEF TypeOK
  <2> QED
    BY <1>0, <2>1, <2>2, <2>3 DEF TypeOK
<1>2. ServerOutlivesThread'
  BY DEF ServerOutlivesThread
<1>3. OneGeneration'
  BY DEF OneGeneration, Live, ThreadInv, NoThread, Rebuilding
<1>4. ThreadInv'
  BY DEF ThreadInv, NoThread, Rebuilding
<1>5. BuildInv'
  <2>1. /\ Complete
        /\ cfg.load = loads /\ mods \subseteq {loads}
        /\ \A i \in objs : conf[i].load = loads /\ smods[i] \subseteq {loads}
    BY DEF BuildInv
  <2>2. \A i \in objs' : conf'[i].load = loads /\ smods'[i] \subseteq {loads}
    BY <1>0, <2>1 DEF TypeOK
  <2>3. Complete'
    BY <2>1 DEF Complete
  <2> QED
    BY <2>1, <2>2, <2>3 DEF BuildInv
<1>6. SignalInv'
  BY DEF SignalInv, Exiting, Ended
<1> QED
  BY <1>1, <1>2, <1>3, <1>4, <1>5, <1>6

LEMMA ListenFailsKeeps ==
    ASSUME AInv, ListenFails
    PROVE  AInv'
<1> USE ApplicationConstants DEF AInv, ListenFails, BeginReset, MoreServers,
       mainvars, setupvars, servervars
<1>1. TypeOK'
  BY DEF TypeOK, Labels
<1>2. ServerOutlivesThread'
  BY DEF ServerOutlivesThread
<1>3. OneGeneration'
  BY DEF OneGeneration
<1>4. ThreadInv'
  BY DEF ThreadInv, NoThread, Rebuilding
<1>5. BuildInv'
  BY DEF BuildInv
<1>6. SignalInv'
  BY DEF SignalInv, Exiting, Ended
<1> QED
  BY <1>1, <1>2, <1>3, <1>4, <1>5, <1>6

LEMMA ServersMadeKeeps ==
    ASSUME AInv, ServersMade
    PROVE  AInv'
<1> USE ApplicationConstants DEF AInv, ServersMade, MoreServers,
       mainvars, setupvars, servervars
<1>1. TypeOK'
  BY DEF TypeOK, Labels
<1>2. ServerOutlivesThread'
  BY DEF ServerOutlivesThread
<1>3. OneGeneration'
  BY DEF OneGeneration
<1>4. ThreadInv'
  BY DEF ThreadInv, NoThread, Rebuilding
<1>5. BuildInv'
  BY DEF BuildInv, Complete
<1>6. SignalInv'
  BY DEF SignalInv, Exiting, Ended
<1> QED
  BY <1>1, <1>2, <1>3, <1>4, <1>5, <1>6

LEMMA StartThreadKeeps ==
    ASSUME AInv, StartThread
    PROVE  AInv'
<1> USE ApplicationConstants DEF AInv, StartThread,
       mainvars, setupvars, servervars
<1>1. TypeOK'
  <2>1. k \in Slots
    BY DEF TypeOK
  <2>2. thread' \in [Slots -> Live \cup {"none", "done"}]
    BY <2>1 DEF TypeOK, Live
  <2> QED
    BY <2>2 DEF TypeOK, Labels
<1>2. ServerOutlivesThread'
  BY DEF ServerOutlivesThread
<1>3. OneGeneration'
  <2>1. /\ Complete
        /\ \A i \in objs : conf[i].load = loads /\ smods[i] \subseteq {loads}
    BY DEF BuildInv
  <2> SUFFICES ASSUME NEW i \in Slots, thread'[i] \in Live
               PROVE  conf[i].load = loads /\ smods[i] \subseteq {loads}
    BY <2>1 DEF OneGeneration, Complete
  <2>2. i \in objs
    <3>1. sig = "none"
      BY DEF SignalInv, Exiting, Ended
    <3> QED
      BY <3>1 DEF ServerOutlivesThread, TypeOK
  <2> QED
    BY <2>1, <2>2
<1>4. ThreadInv'
  <2>1. k \in Slots /\ k \in Nat
    BY DEF TypeOK, Slots
  <2>2. \A i \in Slots : i # k => thread'[i] = thread[i]
    BY DEF TypeOK
  <2>3. thread'[k] = "new"
    BY <2>1 DEF TypeOK
  <2>4. \A i \in Slots : i > k => thread'[i] = "none"
    BY <2>1, <2>2 DEF ThreadInv, Slots
  <2> QED
    BY <2>1, <2>2, <2>3, <2>4 DEF ThreadInv, Rebuilding, Ended, TypeOK
<1>5. BuildInv'
  BY DEF BuildInv, Complete
<1>6. SignalInv'
  BY DEF SignalInv, Exiting, Ended
<1> QED
  BY <1>1, <1>2, <1>3, <1>4, <1>5, <1>6

LEMMA RegisterThreadKeeps ==
    ASSUME AInv, RegisterThread
    PROVE  AInv'
<1> USE ApplicationConstants DEF AInv, RegisterThread,
       mainvars, setupvars, servervars
<1>0. k \in Slots /\ k \in objs
  BY DEF TypeOK, ThreadInv
<1>00. sig = "none"
  BY DEF SignalInv, Exiting, Ended
<1>1. TypeOK'
  BY <1>0 DEF TypeOK, Labels, Slots
<1>2. ServerOutlivesThread'
  BY <1>00 DEF ServerOutlivesThread
<1>3. OneGeneration'
  BY DEF OneGeneration
<1>4. ThreadInv'
  <2>1. \A i \in Slots : i >= k' => thread'[i] = "none"
    BY <1>0 DEF ThreadInv, Slots
  <2>2. thread[k] # "none"
    BY DEF ThreadInv
  <2> QED
    BY <1>0, <2>1, <2>2 DEF ThreadInv, Rebuilding, Ended
<1>5. BuildInv'
  BY DEF BuildInv, Complete
<1>6. SignalInv'
  BY <1>00 DEF SignalInv
<1> QED
  BY <1>1, <1>2, <1>3, <1>4, <1>5, <1>6

LEMMA ThreadsStartedKeeps ==
    ASSUME AInv, ThreadsStarted
    PROVE  AInv'
<1> USE ApplicationConstants DEF AInv, ThreadsStarted,
       mainvars, setupvars, servervars
<1>1. TypeOK'
  BY DEF TypeOK, Labels
<1>2. ServerOutlivesThread'
  BY DEF ServerOutlivesThread
<1>3. OneGeneration'
  BY DEF OneGeneration
<1>4. ThreadInv'
  BY DEF ThreadInv, NoThread, Rebuilding, Ended
<1>5. BuildInv'
  BY DEF BuildInv
<1>6. SignalInv'
  BY DEF SignalInv, Exiting, Ended
<1> QED
  BY <1>1, <1>2, <1>3, <1>4, <1>5, <1>6

LEMMA ReadLineKeeps ==
    ASSUME AInv, ReadLine
    PROVE  AInv'
<1> USE ApplicationConstants DEF AInv, ReadLine, Execute, BeginReset,
       mainvars, setupvars, servervars
<1>1. TypeOK'
  BY DEF TypeOK, Labels
<1>2. ServerOutlivesThread'
  BY DEF ServerOutlivesThread
<1>3. OneGeneration'
  BY DEF OneGeneration
<1>4. ThreadInv'
  BY DEF ThreadInv, NoThread, Rebuilding, Ended
<1>5. BuildInv'
  BY DEF BuildInv
<1>6. SignalInv'
  BY DEF SignalInv, Exiting, Ended
<1> QED
  BY <1>1, <1>2, <1>3, <1>4, <1>5, <1>6

LEMMA ReadAtEndKeeps ==
    ASSUME AInv, ReadAtEnd
    PROVE  AInv'
<1> USE ApplicationConstants DEF AInv, ReadAtEnd, Execute, BeginReset,
       mainvars, setupvars, servervars
<1>1. TypeOK'
  BY DEF TypeOK, Labels
<1>2. ServerOutlivesThread'
  BY DEF ServerOutlivesThread
<1>3. OneGeneration'
  BY DEF OneGeneration
<1>4. ThreadInv'
  BY DEF ThreadInv, NoThread, Rebuilding, Ended
<1>5. BuildInv'
  BY DEF BuildInv
<1>6. SignalInv'
  BY DEF SignalInv, Exiting, Ended
<1> QED
  BY <1>1, <1>2, <1>3, <1>4, <1>5, <1>6

LEMMA EndProcessKeeps ==
    ASSUME AInv, NEW how \in Ended, EndProcess(how), sig' \in Signals
    PROVE  AInv'
<1> USE ApplicationConstants DEF AInv, EndProcess, mainvars, setupvars, servervars
<1>1. TypeOK'
  BY DEF TypeOK, Labels, Ended
<1>2. ServerOutlivesThread'
  BY DEF ServerOutlivesThread, Live
<1>3. OneGeneration'
  BY DEF OneGeneration, Live
<1>4. ThreadInv'
  BY DEF ThreadInv, NoThread, Rebuilding, Ended
<1>5. BuildInv'
  BY DEF BuildInv, Ended
<1>6. SignalInv'
  BY DEF SignalInv, Ended
<1> QED
  BY <1>1, <1>2, <1>3, <1>4, <1>5, <1>6

LEMMA HangKeeps ==
    ASSUME AInv, main' = "hung", main \in {"stop", "join", "destroy", "farewell"},
           UNCHANGED <<ret, k, command, eof, sig, setupvars, servervars, thread,
                       joinable, held, open>>
    PROVE  AInv'
<1> USE ApplicationConstants DEF AInv, mainvars, setupvars, servervars
<1>1. TypeOK'
  BY DEF TypeOK, Labels
<1>2. ServerOutlivesThread'
  BY DEF ServerOutlivesThread
<1>3. OneGeneration'
  BY DEF OneGeneration
<1>4. ThreadInv'
  BY DEF ThreadInv, NoThread, Rebuilding, Ended
<1>5. BuildInv'
  BY DEF BuildInv
<1>6. SignalInv'
  BY DEF SignalInv
<1> QED
  BY <1>1, <1>2, <1>3, <1>4, <1>5, <1>6

LEMMA SigintExitsKeeps ==
    ASSUME AInv, SigintExits
    PROVE  AInv'
<1> USE ApplicationConstants DEF AInv, SigintExits, BeginReset, Signal, Exiting,
       mainvars, setupvars, servervars
<1>1. TypeOK'
  BY DEF TypeOK, Labels, Signals
<1>2. ServerOutlivesThread'
  BY DEF ServerOutlivesThread
<1>3. OneGeneration'
  BY DEF OneGeneration
<1>4. ThreadInv'
  BY DEF ThreadInv, NoThread, Rebuilding, Ended
<1>5. BuildInv'
  BY DEF BuildInv
<1>6. SignalInv'
  BY DEF SignalInv, Exiting, Ended
<1> QED
  BY <1>1, <1>2, <1>3, <1>4, <1>5, <1>6

LEMMA SigintInLineKeeps ==
    ASSUME AInv, SigintInLine
    PROVE  AInv'
<1> USE ApplicationConstants DEF AInv, SigintInLine, BeginReset, Signal, Exiting,
       mainvars, setupvars, servervars
<1>1. TypeOK'
  BY DEF TypeOK, Labels, Signals
<1>2. ServerOutlivesThread'
  BY DEF ServerOutlivesThread
<1>3. OneGeneration'
  BY DEF OneGeneration
<1>4. ThreadInv'
  BY DEF ThreadInv, NoThread, Rebuilding, Ended
<1>5. BuildInv'
  BY DEF BuildInv
<1>6. SignalInv'
  BY DEF SignalInv, Exiting, Ended
<1> QED
  BY <1>1, <1>2, <1>3, <1>4, <1>5, <1>6

LEMMA SigintInChangeKeeps ==
    ASSUME AInv, SigintInChange
    PROVE  AInv'
<1> USE ApplicationConstants DEF AInv, SigintInChange, BeginReset, Signal,
       mainvars, setupvars, servervars
<1>0. joinable' \subseteq joinable /\ sig' = "torn" /\ sig = "none"
  OBVIOUS
<1>1. TypeOK'
  BY <1>0 DEF TypeOK, Labels, Signals
<1>2. ServerOutlivesThread'
  BY <1>0 DEF ServerOutlivesThread
<1>3. OneGeneration'
  BY DEF OneGeneration
<1>4. ThreadInv'
  BY <1>0 DEF ThreadInv, NoThread, Rebuilding, Ended
<1>5. BuildInv'
  BY DEF BuildInv
<1>6. SignalInv'
  BY DEF SignalInv, Exiting, Ended
<1> QED
  BY <1>1, <1>2, <1>3, <1>4, <1>5, <1>6

LEMMA TornFailsKeeps ==
    ASSUME AInv, TornFails
    PROVE  AInv'
<1>1. sig' \in Signals /\ "aborted" \in Ended
  BY DEF TornFails, AInv, TypeOK, Ended
<1>2. main \in {"stop", "join", "destroy", "farewell"}
  BY DEF TornFails, Exiting
<1>3. EndProcess("aborted") => AInv'
  BY <1>1, EndProcessKeeps
<1> QED
  BY <1>2, <1>3, HangKeeps DEF TornFails

LEMMA SigintInJoinKeeps ==
    ASSUME AInv, SigintInJoin
    PROVE  AInv'
<1>1. sig' \in Signals /\ "aborted" \in Ended
  BY DEF SigintInJoin, Signal, Signals, Ended
<1> QED
  BY <1>1, EndProcessKeeps DEF SigintInJoin

LEMMA SigintExitingKeeps ==
    ASSUME AInv, SigintExiting
    PROVE  AInv'
<1>1. sig' \in Signals /\ "gone" \in Ended
  BY DEF SigintExiting, Signals, Ended
<1> QED
  BY <1>1, EndProcessKeeps DEF SigintExiting

LEMMA FarewellKeeps ==
    ASSUME AInv, Farewell
    PROVE  AInv'
<1>1. sig' \in Signals /\ "gone" \in Ended
  BY DEF Farewell, AInv, TypeOK, Ended
<1>2. EndProcess("gone") => AInv'
  BY <1>1, EndProcessKeeps
<1> QED
  BY <1>2, HangKeeps DEF Farewell

LEMMA UseAfterFreeKeeps ==
    ASSUME AInv, NEW i \in Slots, UseAfterFree(i)
    PROVE  AInv'
<1>1. sig' \in Signals /\ "aborted" \in Ended
  BY DEF UseAfterFree, AInv, TypeOK, Ended
<1> QED
  BY <1>1, EndProcessKeeps DEF UseAfterFree

LEMMA StutterKeeps ==
    ASSUME AInv, UNCHANGED vars
    PROVE  AInv'
BY DEF vars, mainvars, setupvars, servervars, AInv, TypeOK, ServerOutlivesThread,
       OneGeneration, ThreadInv, BuildInv, NoThread, Complete, Rebuilding,
       SignalInv, Exiting

LEMMA ThreadMoves ==
    ASSUME AInv, NEW i \in Slots, thread[i] \in Live,
           NEW to \in Live \cup {"done"},
           thread' = [thread EXCEPT ![i] = to],
           UNCHANGED <<mainvars, objs, joinable>>
    PROVE  ThreadInv'
<1> USE DEF AInv, mainvars
<1>1. \A j \in Slots : thread[j] = "none" <=> thread'[j] = "none"
  BY DEF TypeOK, Live
<1>2. NoThread => NoThread'
  BY <1>1 DEF NoThread
<1>3. joinable \subseteq Slots /\ (main = "register" => k \in Slots)
  BY DEF TypeOK, ThreadInv
<1> QED
  BY <1>1, <1>2, <1>3 DEF ThreadInv, Rebuilding

LEMMA RunEnterKeeps ==
    ASSUME AInv, NEW i \in Slots, RunEnter(i)
    PROVE  AInv'
<1> USE ApplicationConstants DEF AInv, RunEnter, Moves,
       mainvars, setupvars, servervars
<1>0. \E to \in Live \cup {"done"} : thread' = [thread EXCEPT ![i] = to]
  BY DEF Live
<1>1. TypeOK'
  BY <1>0 DEF TypeOK, Live
<1>2. ServerOutlivesThread'
  BY DEF ServerOutlivesThread, Live
<1>3. OneGeneration'
  <2>1. \A j \in Slots : thread'[j] \in Live => thread[j] \in Live
    BY DEF TypeOK, Live
  <2> QED
    BY <2>1 DEF OneGeneration
<1>4. ThreadInv'
  BY <1>0, ThreadMoves DEF Live
<1>5. BuildInv'
  BY DEF BuildInv, Complete
<1>6. SignalInv'
  BY DEF SignalInv, Exiting, Ended
<1> QED
  BY <1>1, <1>2, <1>3, <1>4, <1>5, <1>6

LEMMA RunInitKeeps ==
    ASSUME AInv, NEW i \in Slots, RunInit(i)
    PROVE  AInv'
<1> USE ApplicationConstants DEF AInv, RunInit, Moves,
       mainvars, setupvars, servervars
<1>1. TypeOK'
  BY DEF TypeOK, Live
<1>2. ServerOutlivesThread'
  BY DEF ServerOutlivesThread, Live
<1>3. OneGeneration'
  BY DEF OneGeneration, Live, ThreadInv, NoThread, Rebuilding
<1>4. ThreadInv'
  BY ThreadMoves DEF Live
<1>5. BuildInv'
  BY DEF BuildInv, Complete
<1>6. SignalInv'
  BY DEF SignalInv, Exiting, Ended
<1> QED
  BY <1>1, <1>2, <1>3, <1>4, <1>5, <1>6

LEMMA RunCheckKeeps ==
    ASSUME AInv, NEW i \in Slots, RunCheck(i)
    PROVE  AInv'
<1> USE ApplicationConstants DEF AInv, RunCheck, Moves,
       mainvars, setupvars, servervars
<1>0. \E to \in Live \cup {"done"} : thread' = [thread EXCEPT ![i] = to]
  BY DEF Live
<1>1. TypeOK'
  BY <1>0 DEF TypeOK, Live
<1>2. ServerOutlivesThread'
  BY DEF ServerOutlivesThread, Live
<1>3. OneGeneration'
  <2>1. \A j \in Slots : thread'[j] \in Live => thread[j] \in Live
    BY DEF TypeOK, Live
  <2> QED
    BY <2>1 DEF OneGeneration
<1>4. ThreadInv'
  BY <1>0, ThreadMoves DEF Live
<1>5. BuildInv'
  BY DEF BuildInv, Complete
<1>6. SignalInv'
  BY DEF SignalInv, Exiting, Ended
<1> QED
  BY <1>1, <1>2, <1>3, <1>4, <1>5, <1>6

LEMMA RunTimeoutKeeps ==
    ASSUME AInv, NEW i \in Slots, RunTimeout(i)
    PROVE  AInv'
<1> USE ApplicationConstants DEF AInv, RunTimeout, Moves,
       mainvars, setupvars, servervars
<1>1. TypeOK'
  BY DEF TypeOK, Live
<1>2. ServerOutlivesThread'
  BY DEF ServerOutlivesThread, Live
<1>3. OneGeneration'
  <2>1. \A j \in Slots : thread'[j] \in Live => thread[j] \in Live
    BY DEF TypeOK, Live
  <2> QED
    BY <2>1 DEF OneGeneration
<1>4. ThreadInv'
  BY ThreadMoves DEF Live
<1>5. BuildInv'
  BY DEF BuildInv, Complete
<1>6. SignalInv'
  BY DEF SignalInv, Exiting, Ended
<1> QED
  BY <1>1, <1>2, <1>3, <1>4, <1>5, <1>6

LEMMA RunEventKeeps ==
    ASSUME AInv, NEW i \in Slots, RunEvent(i)
    PROVE  AInv'
<1> USE ApplicationConstants DEF AInv, RunEvent, Moves,
       mainvars, setupvars, servervars
<1>1. TypeOK'
  BY DEF TypeOK, Live
<1>2. ServerOutlivesThread'
  BY DEF ServerOutlivesThread, Live
<1>3. OneGeneration'
  <2>1. \A j \in Slots : thread'[j] \in Live => thread[j] \in Live
    BY DEF TypeOK, Live
  <2> QED
    BY <2>1 DEF OneGeneration
<1>4. ThreadInv'
  BY ThreadMoves DEF Live
<1>5. BuildInv'
  BY DEF BuildInv, Complete
<1>6. SignalInv'
  BY DEF SignalInv, Exiting, Ended
<1> QED
  BY <1>1, <1>2, <1>3, <1>4, <1>5, <1>6

LEMMA RunLogKeeps ==
    ASSUME AInv, NEW i \in Slots, RunLog(i)
    PROVE  AInv'
<1> USE ApplicationConstants DEF AInv, RunLog, Moves,
       mainvars, setupvars, servervars
<1>1. TypeOK'
  BY DEF TypeOK, Live
<1>2. ServerOutlivesThread'
  BY DEF ServerOutlivesThread, Live
<1>3. OneGeneration'
  <2>1. \A j \in Slots : thread'[j] \in Live => thread[j] \in Live
    BY DEF TypeOK, Live
  <2> QED
    BY <2>1 DEF OneGeneration
<1>4. ThreadInv'
  BY ThreadMoves DEF Live
<1>5. BuildInv'
  BY DEF BuildInv, Complete
<1>6. SignalInv'
  BY DEF SignalInv, Exiting, Ended
<1> QED
  BY <1>1, <1>2, <1>3, <1>4, <1>5, <1>6

LEMMA RunWorkKeeps ==
    ASSUME AInv, NEW i \in Slots, RunWork(i)
    PROVE  AInv'
<1> USE ApplicationConstants DEF AInv, RunWork, Moves,
       mainvars, setupvars, servervars
<1>1. TypeOK'
  <2>1. thread' \in [Slots -> Live \cup {"none", "done"}]
    BY DEF TypeOK, Live
  <2>2. held' \in [Slots -> SUBSET Clients] /\ open' \in SUBSET Clients
    BY DEF TypeOK
  <2> QED
    BY <2>1, <2>2 DEF TypeOK
<1>2. ServerOutlivesThread'
  BY DEF ServerOutlivesThread, Live
<1>3. OneGeneration'
  <2>1. \A j \in Slots : thread'[j] \in Live => thread[j] \in Live
    BY DEF TypeOK, Live
  <2> QED
    BY <2>1 DEF OneGeneration
<1>4. ThreadInv'
  BY ThreadMoves DEF Live
<1>5. BuildInv'
  BY DEF BuildInv, Complete
<1>6. SignalInv'
  BY DEF SignalInv, Exiting, Ended
<1> QED
  BY <1>1, <1>2, <1>3, <1>4, <1>5, <1>6

LEMMA AStep == AInv /\ [Next]_vars => AInv'
<1> SUFFICES ASSUME AInv, [Next]_vars PROVE AInv'
  OBVIOUS
<1>1. CASE Reset
  BY <1>1, StopServerKeeps, StopsSentKeeps, JoinThreadKeeps, ThreadsJoinedKeeps,
     DestroyServerKeeps, ServersDestroyedKeeps
     DEF Reset
<1>2. CASE Setup
  BY <1>2, SetupGeneralKeeps, ClearSharedKeeps, SetupConfigKeeps,
     SetupLoggerKeeps, SetupModulesKeeps, SetupHandlersKeeps, MakeServerKeeps,
     ListenFailsKeeps, ServersMadeKeeps, StartThreadKeeps, RegisterThreadKeeps, ThreadsStartedKeeps
     DEF Setup
<1>3. CASE Command
  BY <1>3, ReadLineKeeps, ReadAtEndKeeps DEF Command
<1>4. CASE Sigint
  BY <1>4, SigintExitsKeeps, SigintInLineKeeps, SigintInChangeKeeps, TornFailsKeeps,
     SigintInJoinKeeps, SigintExitingKeeps DEF Sigint
<1>5. CASE Farewell
  BY <1>5, FarewellKeeps
<1>6. CASE Terminated
  BY <1>6, StutterKeeps DEF Terminated
<1>7. CASE \E i \in Slots : Run(i) \/ RunEvent(i) \/ RunLog(i) \/ UseAfterFree(i)
  BY <1>7, RunEnterKeeps, RunInitKeeps, RunCheckKeeps, RunTimeoutKeeps,
     RunEventKeeps, RunWorkKeeps, RunLogKeeps, UseAfterFreeKeeps DEF Run
<1>8. CASE UNCHANGED vars
  BY <1>8, StutterKeeps
<1> QED
  BY <1>1, <1>2, <1>3, <1>4, <1>5, <1>6, <1>7, <1>8 DEF Next

-----------------------------------------------------------------------------

\* The inductive invariant holds in every reachable state.
THEOREM ApplicationInvariant == Spec => []AInv
<1> QED
  BY AInit, AStep, PTL DEF Spec

\* Every variable of the process keeps its type.
THEOREM ApplicationTypeCorrect == Spec => []TypeOK
<1>1. AInv => TypeOK
  BY DEF AInv
<1> QED
  BY <1>1, ApplicationInvariant, PTL

\* No Server is destroyed under a thread that runs in it, whatever commands
\* and signals arrive, at whatever moment: reset_servers joins before it clears
\* all that server_threads knows, and only a SIGINT inside emplace_back makes
\* a thread that it does not know.
THEOREM ServersOutliveThreads == Spec => []ServerOutlivesThread
<1>1. AInv => ServerOutlivesThread
  BY DEF AInv
<1> QED
  BY <1>1, ApplicationInvariant, PTL

\* A worker thread sees one load of the configuration, and all of it.
THEOREM AlwaysOneGeneration == Spec => []OneGeneration
<1>1. AInv => OneGeneration
  BY DEF AInv
<1> QED
  BY <1>1, ApplicationInvariant, PTL

\* The route tree and the log targets only change while no worker runs.
THEOREM SharedAlwaysStable == Spec => SharedStable
<1> DEFINE Stable == (tree' # tree \/ targets' # targets)
                       => \A i \in Slots : thread[i] \notin Live
<1>1. AInv /\ [Next]_vars => [Stable]_vars
  <2> SUFFICES ASSUME AInv, Next PROVE Stable
    OBVIOUS
  <2>1. CASE ClearShared \/ SetupLogger \/ SetupModules \/ SetupHandlers
    BY <2>1 DEF ClearShared, SetupLogger, SetupModules, SetupHandlers, AInv,
       ThreadInv, Rebuilding, NoThread, Live
  <2>2. CASE UNCHANGED <<tree, targets>>
    BY <2>2
  <2>3. Next => \/ ClearShared \/ SetupLogger \/ SetupModules \/ SetupHandlers
                \/ UNCHANGED <<tree, targets>>
    <3>1. Reset => UNCHANGED <<tree, targets>>
      BY DEF Reset, StopServer, StopsSent, JoinThread, ThreadsJoined,
         DestroyServer, ServersDestroyed, setupvars
    <3>2. Setup => \/ ClearShared \/ SetupLogger \/ SetupModules \/ SetupHandlers
                   \/ UNCHANGED <<tree, targets>>
      BY DEF Setup, SetupGeneral, SetupConfig, MakeServer, ListenFails,
         ServersMade, StartThread, RegisterThread, ThreadsStarted, setupvars
    <3>3. Command \/ Sigint \/ Farewell \/ Terminated
             => UNCHANGED <<tree, targets>>
      BY DEF Command, ReadLine, ReadAtEnd, Sigint, SigintExits, SigintInLine,
         SigintInChange, TornFails, SigintInJoin,
         SigintExiting, Farewell, Terminated, EndProcess, setupvars, vars
    <3>4. (\E i \in Slots : Run(i) \/ RunEvent(i) \/ RunLog(i) \/ UseAfterFree(i))
             => UNCHANGED <<tree, targets>>
      BY DEF Run, RunEnter, RunInit, RunCheck, RunTimeout, RunEvent, RunWork,
         RunLog, UseAfterFree, EndProcess, Moves, setupvars
    <3> QED
      BY <3>1, <3>2, <3>3, <3>4 DEF Next
  <2> QED
    BY <2>1, <2>2, <2>3
<1> QED
  BY <1>1, ApplicationInvariant, PTL DEF Spec, SharedStable
=============================================================================
