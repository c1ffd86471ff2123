------------------------------- MODULE Logger -------------------------------
(***************************************************************************)
(* The access log (src/alib-g3/alogger.cpp): one LogFactory and one Logger *)
(* that every worker thread uses, with the targets "console" and "file",   *)
(* the latter a SplittedFiles that goes on to a new file when one is full. *)
(*                                                                         *)
(* A statement lg(LOG_INFO) << text << endlog sets the level in the shared *)
(* factory, collects its text in thread-local storage, and at endlog reads *)
(* the level back and writes the line to each target, one target at a time *)
(* under the lock of the Logger.  No filter is installed by the program.   *)
(***************************************************************************)
EXTENDS Integers, Sequences

CONSTANTS
    Threads,    \* the worker threads
    MaxBytes,   \* SplittedFiles::maxBytes
    Width,      \* the values of an unsigned int: 0 .. Width - 1
    MaxIndex    \* bound: the highest index of a log file

ASSUME LoggerConstants ==
    /\ MaxBytes \in Nat \ {0}
    /\ Width \in Nat /\ MaxBytes < Width
    /\ MaxIndex \in Nat \ {0}
    /\ "main" \notin Threads

VARIABLES
    defLogType, \* LogFactory::defLogType, shared by the threads
    call,       \* per thread: the log statement it is in
    console,    \* the lines on the console
    files,      \* the log files by index
    split,      \* SplittedFiles: splitIndex and currentBytes, whether its
                \* stream is good, and which files it has opened (ghost)
    said,       \* ghost, per thread: how many statements it has begun
    era         \* ghost: how often setup_logger ran, and said at that time

logVars == <<defLogType, call, console, files, split, said, era>>

Targets == {"console", "file"}
Indices == 0..MaxIndex
NoCall == [phase |-> "none", want |-> "trace", level |-> "trace", size |-> 0,
           todo |-> {}, raced |-> FALSE]

\* A line: who wrote it, as which of its statements, in which era, how long
\* it is, with which level, which one was asked for, and whether another
\* thread used the factory in the meantime.
Line(t) ==
    [by |-> t, n |-> said[t], era |-> era.n, size |-> call[t].size,
     level |-> call[t].level, want |-> call[t].want, raced |-> call[t].raced]

\* The line setup_logger writes, by the main thread while no worker runs.
Banner(n) ==
    [by |-> "main", n |-> 0, era |-> n, size |-> 1, level |-> "info",
     want |-> "info", raced |-> FALSE]

-----------------------------------------------------------------------------
(* SplittedFiles *)

\* A file that is opened for writing is emptied; if it cannot be opened the
\* stream is left in a failed, not in a bad state, so nice becomes true all
\* the same and what is written is lost until the next file.  opens are the
\* outcomes that are possible, counts the values memory may hold.
Opened(fs, k, ok) == IF ok THEN [fs EXCEPT ![k] = <<>>] ELSE fs

\* mutant: the index stays, and the full file is opened again.
Mut_SameFile(line, opens) ==
    LET written == IF split.good
                   THEN [files EXCEPT ![split.splitIndex] = Append(@, line)]
                   ELSE files
        bytes == (split.currentBytes + line.size) % Width
        next == split.splitIndex
    IN  IF bytes < MaxBytes
        THEN /\ files' = written
             /\ split' = [split EXCEPT !.currentBytes = bytes]
        ELSE \E ok \in opens :
             /\ next \in Indices
             /\ files' = Opened(written, next, ok)
             /\ split' = [splitIndex |-> next, currentBytes |-> 0, good |-> ok,
                          opened |-> split.opened \cup
                                     (IF ok THEN {next} ELSE {})]

\* mutant: the counter is not reset.
Mut_NoReset(line, opens) ==
    LET written == IF split.good
                   THEN [files EXCEPT ![split.splitIndex] = Append(@, line)]
                   ELSE files
        bytes == (split.currentBytes + line.size) % Width
        next == split.splitIndex + 1
    IN  IF bytes < MaxBytes
        THEN /\ files' = written
             /\ split' = [split EXCEPT !.currentBytes = bytes]
        ELSE \E ok \in opens :
             /\ next \in Indices
             /\ files' = Opened(written, next, ok)
             /\ split' = [splitIndex |-> next, currentBytes |-> bytes, good |-> ok,
                          opened |-> split.opened \cup
                                     (IF ok THEN {next} ELSE {})]

\* SplittedFiles::write and testSwapFile: the bytes are counted whether or
\* not they could be written.
SplitWrite(line, opens) ==
    LET written == IF split.good
                   THEN [files EXCEPT ![split.splitIndex] = Append(@, line)]
                   ELSE files
        bytes == (split.currentBytes + line.size) % Width
        next == split.splitIndex + 1
    IN  IF bytes < MaxBytes
        THEN /\ files' = written
             /\ split' = [split EXCEPT !.currentBytes = bytes]
        ELSE \E ok \in opens :
             /\ next \in Indices
             /\ files' = Opened(written, next, ok)
             /\ split' = [splitIndex |-> next, currentBytes |-> 0, good |-> ok,
                          opened |-> split.opened \cup
                                     (IF ok THEN {next} ELSE {})]

\* Application::setup_logger: a new SplittedFiles, which begins at index 0
\* with a counter that its constructor leaves uninitialised, and the line
\* that only goes to the file.
FreshFile(fs, n, ok, count, opens) ==
    LET bytes == (count + Banner(n).size) % Width
        first == IF ok THEN [Opened(fs, 0, ok) EXCEPT ![0] = Append(@, Banner(n))]
                 ELSE fs
        opened == IF ok THEN {0} ELSE {}
    IN  IF bytes < MaxBytes
        THEN {[files |-> first,
               split |-> [splitIndex |-> 0, currentBytes |-> bytes,
                          good |-> ok, opened |-> opened]]}
        ELSE {[files |-> Opened(first, 1, ok1),
               split |-> [splitIndex |-> 1, currentBytes |-> 0, good |-> ok1,
                          opened |-> opened \cup (IF ok1 THEN {1} ELSE {})]]
              : ok1 \in opens}

FreshFiles(fs, n, opens, counts) ==
    UNION {FreshFile(fs, n, ok, count, opens) : ok \in opens, count \in counts}

-----------------------------------------------------------------------------
(* LogFactory and Logger *)

\* Another thread in the middle of a statement finds the level changed.
Disturbed(t) ==
    [u \in Threads |-> IF u # t /\ call[u].phase = "text"
                       THEN [call[u] EXCEPT !.raced = TRUE] ELSE call[u]]

\* LogFactory::operator()(level) and operator<<(text).
LogCall(t, level, size) ==
    /\ call[t].phase = "none"
    /\ defLogType' = level
    /\ said' = [said EXCEPT ![t] = @ + 1]
    /\ call' = [Disturbed(t) EXCEPT
                    ![t] = [NoCall EXCEPT !.phase = "text", !.want = level,
                                          !.size = size]]
    /\ UNCHANGED <<console, files, split, era>>

\* operator<<(endlog) reads the level and enters Logger::log, in which both
\* targets are enabled and no filter is installed.
EndLog(t) ==
    /\ call[t].phase = "text"
    /\ call' = [call EXCEPT ![t].phase = "out", ![t].level = defLogType,
                            ![t].todo = Targets]
    /\ UNCHANGED <<defLogType, console, files, split, said, era>>

\* Console::write under the lock; the order of the unordered_map is open.
WriteConsole(t) ==
    /\ "console" \in call[t].todo
    /\ console' = Append(console, Line(t))
    /\ call' = [call EXCEPT ![t].todo = @ \ {"console"}]
    /\ UNCHANGED <<defLogType, files, split, said, era>>

\* SplittedFiles::write under the lock.
WriteFile(t, opens) ==
    /\ "file" \in call[t].todo
    /\ SplitWrite(Line(t), opens)
    /\ call' = [call EXCEPT ![t].todo = @ \ {"file"}]
    /\ UNCHANGED <<defLogType, console, said, era>>

\* The rest of operator<<(endlog): the level back to LOG_TRACE, the text
\* cleared.
LogReturn(t) ==
    /\ call[t].phase = "out" /\ call[t].todo = {}
    /\ defLogType' = "trace"
    /\ call' = [Disturbed(t) EXCEPT ![t] = NoCall]
    /\ UNCHANGED <<console, files, split, said, era>>

\* The reload command: reset_servers has joined the worker threads before
\* setup_general drops the targets and setup_logger makes new ones.
SetupLogger(opens, counts) ==
    /\ \A t \in Threads : call[t].phase = "none"
    /\ defLogType' = "trace"
    /\ era' = [n |-> era.n + 1, since |-> said]
    /\ \E f \in FreshFiles(files, era.n + 1, opens, counts) :
        files' = f.files /\ split' = f.split
    /\ UNCHANGED <<call, console, said>>

LogInit(opens, counts) ==
    /\ defLogType = "trace"
    /\ call = [t \in Threads |-> NoCall]
    /\ console = <<>>
    /\ said = [t \in Threads |-> 0]
    /\ era = [n |-> 1, since |-> said]
    /\ \E f \in FreshFiles([k \in Indices |-> <<>>], 1, opens, counts) :
        files = f.files /\ split = f.split

LogStep(t, opens) ==
    EndLog(t) \/ WriteConsole(t) \/ WriteFile(t, opens) \/ LogReturn(t)

-----------------------------------------------------------------------------
(* Properties *)

\* The lines of the files 0 .. last by their places: the file, the position.
LogOf(fs, last) ==
    [p \in UNION {{k} \X DOMAIN fs[k] : k \in 0..last} |-> fs[p[1]][p[2]]]

ConsoleLog == LogOf([k \in {0} |-> console], 0)
FileLog == LogOf(files, split.splitIndex)

Precedes(p, q) == p[1] < q[1] \/ (p[1] = q[1] /\ p[2] < q[2])

\* The lines of t in a log are its statements from + 1 .. to, in this order.
InOrder(t, log, from, to) ==
    LET mine == {p \in DOMAIN log : log[p].by = t}
    IN  /\ \A p, q \in mine : Precedes(p, q) => log[p].n < log[q].n
        /\ {log[p].n : p \in mine} = (from + 1)..to

\* How many of its statements a thread has written to a target.
Written(t, x) ==
    IF call[t].phase = "text" \/ x \in call[t].todo THEN said[t] - 1 ELSE said[t]

LevelRight(l) == l.level = l.want \/ (l.raced /\ l.level = "trace")

\* Whatever the threads interleave, each statement gives one line in each
\* target, and the lines of a thread stay in the order in which it wrote
\* them, across the changes of file; only a file that could not be opened
\* loses lines (Logger::log, SplittedFiles::write).  A line shows another level
\* than its statement asked for only if another thread used the shared factory
\* in the meantime, and then LOG_TRACE, which that thread's endlog left.
LinesKept ==
    /\ \A t \in Threads :
        /\ InOrder(t, ConsoleLog, 0, Written(t, "console"))
        /\ split.opened = 0..split.splitIndex =>
            InOrder(t, FileLog, era.since[t], Written(t, "file"))
    /\ \A p \in DOMAIN ConsoleLog : LevelRight(ConsoleLog[p])
    /\ \A p \in DOMAIN FileLog : LevelRight(FileLog[p])

\* The bytes in the first n of some lines.
Bytes(lines, n) ==
    LET upto[m \in 0..Len(lines)] ==
            IF m = 0 THEN 0 ELSE upto[m - 1] + lines[m].size
    IN  upto[n]

\* A file the logger has left is full and was not full before its last line.
\* The first file of an era is the exception: its counter starts at whatever
\* the memory held, so that it may be left early, or one line too late.  A
\* reload starts again at file 0 and empties what it opens: no file mixes the
\* lines of two eras, and the files above the current one are older.
FilesBounded ==
    /\ \A k \in split.opened :
        LET f == files[k]
            left == k < split.splitIndex
            last == IF left THEN Len(f) - 1 ELSE Len(f)
        IN  /\ left => f # <<>>
            /\ k > 0 => Bytes(f, last) < MaxBytes
            /\ k > 0 /\ left => Bytes(f, Len(f)) >= MaxBytes
            /\ k = 0 /\ last > 0 => Bytes(f, last) - f[1].size < MaxBytes
    /\ \A k \in split.opened : \A i \in DOMAIN files[k] : files[k][i].era = era.n
    /\ \A k \in Indices \ 0..split.splitIndex :
        \A i \in DOMAIN files[k] : files[k][i].era < era.n
=============================================================================
