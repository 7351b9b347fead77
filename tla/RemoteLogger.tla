---------------------------- MODULE RemoteLogger ----------------------------
(***************************************************************************)
(* logger and cli_manager: every task logs through the LOG_* macros, which *)
(* hold the logger's mutex and write a message, in parts, to each file of  *)
(* a table.  cli_accept_task adds a file to the table for each TCP client; *)
(* it takes the mutex for its own messages and not for the table, and no   *)
(* file is ever closed.  logger_init and logger_set_log_level have run     *)
(* before.                                                                 *)
(***************************************************************************)
EXTENDS Naturals, FiniteSets

CONSTANTS
    Writers,       \* the tasks that log, besides cli_accept_task
    Accepter,      \* app_main's last call, then the cli_accept_task it creates
    Clients,       \* clients of the TCP log server; each connects once
    MaxFiles,      \* LOGGER_MAX_OUTPUT_FILES
    MaxSockets,    \* sockets the TCP/IP stack has
    SetupMayFail,  \* may a socket call of the setup, or fdopen, fail?
    PeerMayLeave,  \* may a client be gone before its address is logged?
    NoFile         \* NULL

ASSUME LoggerAssumption ==
    /\ Accepter \notin Writers
    /\ NoFile \notin Clients
    /\ MaxFiles \in Nat \ {0}
    /\ MaxSockets \in Nat
    /\ SetupMayFail \in BOOLEAN
    /\ PeerMayLeave \in BOOLEAN

VARIABLES
    mutex,         \* the set of tasks that hold logger.mutex
    logfiles,      \* logger.logfiles; the file of a client is the client
    logfiles_num,  \* logger.logfiles_num
    log,           \* where each task is in a LOG_* macro
    acc,           \* where cli_accept_task is
    file,          \* its local new_logfile
    listen,        \* the listening socket
    sockets,       \* clients whose socket is open
    heard,         \* the last part each client's file was given (history)
    crashed        \* a NULL file was written to

vars == <<mutex, logfiles, logfiles_num, log, acc, file, listen, sockets,
          heard, crashed>>

Tasks == Writers \cup {Accepter}
Slots == 0..(MaxFiles - 1)

\* A message is written in three parts (time and place, text, line end), then
\* flushed.
Parts == 1..3
Flush == 4

\* In a macro: at the lock, at an index of the table in one of the loops, or in a
\* write of the loop that does not return.
Idle == [at |-> "idle", part |-> 1, i |-> 0]
Waiting == [at |-> "lock", part |-> 1, i |-> 0]
Looping(part, i) == [at |-> "loop", part |-> part, i |-> i]
Positions == [at : {"idle", "lock", "loop", "blocked"}, part : Parts \cup {Flush}, i : 0..MaxFiles]

Silence == [task |-> Accepter, part |-> 0]

AcceptSteps == {"none", "failed", "deaf", "accept", "open", "add", "count", "clear", "reset",
                "add_again", "count_again", "lost"}

TypeOK ==
    /\ mutex \subseteq Tasks
    /\ logfiles \in [Slots -> Clients \cup {NoFile}]
    /\ logfiles_num \in 0..MaxFiles
    /\ log \in [Tasks -> Positions]
    /\ acc \in AcceptSteps
    /\ file \in Clients \cup {NoFile}
    /\ listen \in {"none", "open", "closed"}
    /\ sockets \subseteq Clients
    /\ heard \in [Clients -> [task : Tasks, part : 0..3]]
    /\ crashed \in BOOLEAN

Init ==
    /\ mutex = {}
    /\ logfiles = [i \in Slots |-> NoFile]
    /\ logfiles_num = 0
    /\ log = [t \in Tasks |-> Idle]
    /\ acc = "none"
    /\ file = NoFile
    /\ listen = "none"
    /\ sockets = {}
    /\ heard = [c \in Clients |-> Silence]
    /\ crashed = FALSE

tableVars == <<logfiles, logfiles_num>>
accVars == <<acc, file, listen, sockets>>

-----------------------------------------------------------------------------
(***************************************************************************)
(* LOG_FATAL .. LOG_VERBOSE: logger_get_lock, logger_write three times,    *)
(* logger_flush_logs, logger_return_lock                                   *)
(***************************************************************************)

LogAt(t, where) == ~crashed /\ log[t].at = where
LogGoto(t, position) == log' = [log EXCEPT ![t] = position]

LogCall(t) ==
    /\ LogAt(t, "idle")
    /\ t # Accepter
    /\ LogGoto(t, Waiting)
    /\ UNCHANGED <<mutex, tableVars, accVars, heard, crashed>>

\* Mutant: the mutex is not taken.
LockSkipped(t) ==
    /\ LogAt(t, "lock")
    /\ mutex' = mutex \cup {t}
    /\ \E part \in {1, Flush} : LogGoto(t, Looping(part, 0))
    /\ UNCHANGED <<tableVars, accVars, heard, crashed>>

\* A message above the log level is only flushed.
Lock(t) ==
    /\ LogAt(t, "lock")
    /\ mutex = {}
    /\ mutex' = {t}
    /\ \E part \in {1, Flush} : LogGoto(t, Looping(part, 0))
    /\ UNCHANGED <<tableVars, accVars, heard, crashed>>

\* One turn of the loop over the files: the number of files is read anew each
\* time.  fflush of NULL is defined.  The stream is a blocking socket without a
\* time limit: the write stays in the call when the client does not read.
WriteFile(t) ==
    /\ LogAt(t, "loop")
    /\ log[t].i < logfiles_num
    /\ LET out == logfiles[log[t].i]
           part == log[t].part
       IN /\ \E at \in {"loop", "blocked"} :
                /\ at = "blocked" => out # NoFile
                /\ LogGoto(t, [log[t] EXCEPT !.at = at, !.i = @ + 1])
          /\ crashed' = (out = NoFile /\ part \in Parts)
          /\ heard' = IF out \in Clients /\ part \in Parts
                      THEN [heard EXCEPT ![out] = [task |-> t, part |-> part]]
                      ELSE heard
    /\ UNCHANGED <<mutex, tableVars, accVars>>

\* The client that held up the write reads again, or its connection is reset.
WriteReturns(t) ==
    /\ LogAt(t, "blocked")
    /\ LogGoto(t, [log[t] EXCEPT !.at = "loop"])
    /\ UNCHANGED <<mutex, tableVars, accVars, heard, crashed>>

\* Mutant: the lock is returned before the line end is written.
LoopEndsEarly(t) ==
    /\ LogAt(t, "loop")
    /\ log[t].i >= logfiles_num
    /\ \/ /\ log[t].part = 1
          /\ LogGoto(t, Looping(2, 0))
          /\ UNCHANGED mutex
       \/ /\ log[t].part = 2
          /\ LogGoto(t, Looping(3, 0))
          /\ mutex' = mutex \ {t}
       \/ /\ log[t].part = 3
          /\ LogGoto(t, Looping(Flush, 0))
          /\ UNCHANGED mutex
       \/ /\ log[t].part = Flush
          /\ LogGoto(t, Idle)
          /\ UNCHANGED mutex
    /\ UNCHANGED <<tableVars, accVars, heard, crashed>>

\* Mutant: the lock is returned only after a message that was written to a file.
LoopEndsKeepsLock(t) ==
    /\ LogAt(t, "loop")
    /\ log[t].i >= logfiles_num
    /\ \/ /\ log[t].part \in Parts
          /\ LogGoto(t, Looping(log[t].part + 1, 0))
          /\ UNCHANGED mutex
       \/ /\ log[t].part = Flush
          /\ LogGoto(t, Idle)
          /\ mutex' = IF log[t].i = 0 THEN mutex ELSE mutex \ {t}
    /\ UNCHANGED <<tableVars, accVars, heard, crashed>>

\* The loop ends: the next part, the flush, or the end of the macro.
LoopEnds(t) ==
    /\ LogAt(t, "loop")
    /\ log[t].i >= logfiles_num
    /\ \/ /\ log[t].part \in Parts
          /\ LogGoto(t, Looping(log[t].part + 1, 0))
          /\ UNCHANGED mutex
       \/ /\ log[t].part = Flush
          /\ LogGoto(t, Idle)
          /\ mutex' = mutex \ {t}
    /\ UNCHANGED <<tableVars, accVars, heard, crashed>>

Logging(t) == LogCall(t) \/ Lock(t) \/ WriteFile(t) \/ LoopEnds(t)

-----------------------------------------------------------------------------
(***************************************************************************)
(* cli_set_remote_logging, cli_accept_task                                 *)
(***************************************************************************)

\* The task is at a step of its own, in no LOG_* macro.
AccAt(label) == acc = label /\ LogAt(Accepter, "idle")
AccGoto(label) == acc' = label
AccLogs == LogGoto(Accepter, Waiting)

\* Called once, at the end of app_main.  A socket that cannot be bound or
\* listened on ("deaf") is closed; a missing address or socket leaves nothing.
SetRemoteLogging ==
    /\ AccAt("none")
    /\ \/ listen' = "open" /\ AccGoto("accept")
       \/ SetupMayFail /\ listen' = "closed" /\ acc' \in {"failed", "deaf"}
       \/ SetupMayFail /\ listen' = "none" /\ AccGoto("failed")
    /\ AccLogs
    /\ UNCHANGED <<mutex, tableVars, file, sockets, heard, crashed>>

SocketsLeft == Cardinality(sockets) + 1 < MaxSockets

\* tcp_accept_client: a client that waits is accepted if there is a socket for it.
AcceptClient(c) ==
    /\ AccAt("accept")
    /\ listen = "open" /\ SocketsLeft
    /\ c \notin sockets
    /\ sockets' = sockets \cup {c}
    /\ file' = c
    /\ AccGoto("open")
    /\ AccLogs
    /\ UNCHANGED <<mutex, tableVars, listen, heard, crashed>>

\* The LOG_INFO of tcp_accept_client and tcp_socket_listen asks for the address
\* of the socket while it holds the mutex.  For a client that is gone, or a
\* socket that was closed, this fails, and tcp_get_client_socket_ip logs that:
\* the task waits for the mutex it has.  Not modelled: INFO is above the level.
AddressUnknown ==
    /\ acc = "deaf" \/ (acc = "open" /\ PeerMayLeave)
    /\ LogAt(Accepter, "loop") /\ log[Accepter] = Looping(2, 0)
    /\ LogGoto(Accepter, Waiting)
    /\ UNCHANGED <<mutex, tableVars, accVars, heard, crashed>>

\* A failed accept closes the listening socket; the task tries again with its
\* number.  That another socket may be given this number is not modelled.
AcceptFails ==
    /\ AccAt("accept")
    /\ listen = "closed" \/ (~SocketsLeft /\ Clients \ sockets # {})
    /\ listen' = "closed"
    /\ AccLogs
    /\ UNCHANGED <<mutex, tableVars, acc, file, sockets, heard, crashed>>

\* Mutant: a NULL file is not refused.
OpenFileUnchecked ==
    /\ AccAt("open")
    /\ AccGoto("add")
    /\ \/ UNCHANGED file
       \/ SetupMayFail /\ file' = NoFile
    /\ UNCHANGED <<mutex, tableVars, log, listen, sockets, heard, crashed>>

\* fdopen, after a delay; logger_add_log_file refuses a NULL file.
OpenFile ==
    /\ AccAt("open")
    /\ \/ /\ AccGoto("add")
          /\ UNCHANGED file
       \/ /\ SetupMayFail
          /\ file' = NoFile
          /\ AccGoto("accept")
    /\ UNCHANGED <<mutex, tableVars, log, listen, sockets, heard, crashed>>

\* Mutant: the test of the table's size is off by one.
AddFileOneMore(from, to, full) ==
    /\ AccAt(from)
    /\ \/ /\ logfiles_num <= MaxFiles
          /\ logfiles' = [logfiles EXCEPT ![logfiles_num] = file]
          /\ AccGoto(to)
          /\ UNCHANGED log
       \/ /\ logfiles_num > MaxFiles
          /\ AccGoto(full)
          /\ AccLogs
          /\ UNCHANGED logfiles
    /\ UNCHANGED <<mutex, logfiles_num, file, listen, sockets, heard, crashed>>

\* logger_add_log_file: the entry, or the refusal, which the task logs.  The
\* second refusal ends in "lost".
AddFile(from, to, full) ==
    /\ AccAt(from)
    /\ \/ /\ logfiles_num # MaxFiles
          /\ logfiles' = [logfiles EXCEPT ![logfiles_num] = file]
          /\ AccGoto(to)
          /\ UNCHANGED log
       \/ /\ logfiles_num = MaxFiles
          /\ AccGoto(full)
          /\ AccLogs
          /\ UNCHANGED logfiles
    /\ UNCHANGED <<mutex, logfiles_num, file, listen, sockets, heard, crashed>>

\* The number of files.
CountFile(from) ==
    /\ AccAt(from)
    /\ logfiles_num' = logfiles_num + 1
    /\ AccGoto("accept")
    /\ AccLogs
    /\ UNCHANGED <<mutex, logfiles, file, listen, sockets, heard, crashed>>

\* logger_clear_all_log_files: no file is closed.
ClearFiles ==
    /\ AccAt("clear")
    /\ logfiles' = [i \in Slots |-> NoFile]
    /\ AccGoto("reset")
    /\ UNCHANGED <<mutex, logfiles_num, log, file, listen, sockets, heard, crashed>>

\* Mutant: the task forgets the client for which it cleared the table.
ResetEnds ==
    /\ AccAt("reset")
    /\ logfiles_num' = 0
    /\ AccGoto("accept")
    /\ UNCHANGED <<mutex, logfiles, log, file, listen, sockets, heard, crashed>>

\* Mutant: the number of files stays.
ResetForgotten ==
    /\ AccAt("reset")
    /\ AccGoto("add_again")
    /\ UNCHANGED <<mutex, tableVars, log, file, listen, sockets, heard, crashed>>

ResetNumber ==
    /\ AccAt("reset")
    /\ logfiles_num' = 0
    /\ AccGoto("add_again")
    /\ UNCHANGED <<mutex, logfiles, log, file, listen, sockets, heard, crashed>>

Accepting ==
    \/ SetRemoteLogging
    \/ \E c \in Clients : AcceptClient(c)
    \/ AddressUnknown \/ AcceptFails \/ OpenFile
    \/ AddFile("add", "count", "clear") \/ CountFile("count")
    \/ ClearFiles \/ ResetNumber
    \/ AddFile("add_again", "count_again", "lost") \/ CountFile("count_again")

Next == Accepting \/ \E t \in Tasks : Logging(t) \/ WriteReturns(t)

Spec == Init /\ [][Next]_vars

\* Tasks run; a write that waits for a client need not return.  The mutex goes
\* to the waiting task of the highest priority, and the tasks of higher priority
\* delay between their messages, so that a task that waits while the mutex is
\* returned again and again gets it.
FairSpec ==
    /\ Spec
    /\ \A t \in Tasks : WF_vars(Logging(t)) /\ SF_vars(Lock(t))

-----------------------------------------------------------------------------
(***************************************************************************)
(* Properties                                                              *)
(***************************************************************************)

\* The files the loops of a LOG_* macro reach are there, but for the two steps
\* of a clearing; a client that is being added is not yet among them, and no
\* client is in the table twice.
TableInStep ==
    /\ acc # "reset" => \A i \in 0..(logfiles_num - 1) : logfiles[i] # NoFile
    /\ acc = "reset" => logfiles_num = MaxFiles
    /\ \A i, j \in Slots : logfiles[i] = logfiles[j] /\ i # j => logfiles[i] = NoFile

\* Each file is given whole messages: a part follows the part before it of the
\* same message, a message begins when the last one has ended, and only a
\* client's first message may have begun before the client came.
MessagesWhole ==
    [][ \A c \in Clients :
          LET last == heard[c]
              next == heard'[c]
          IN next # last /\ last.part # 0 =>
               \/ next.part = 1 /\ last.part = 3
               \/ next.part = last.part + 1 /\ next.task = last.task ]_vars

\* The clients that the loops write to.
Served == {logfiles[i] : i \in 0..(logfiles_num - 1)} \ {NoFile}

\* From the first attempt to add a client's file to the last step of its adding.
Adding == {"add", "count", "clear", "reset", "add_again", "count_again"}

\* A client is served until a newcomer finds the table full, which drops all of
\* them at once; and each newcomer whose file was opened ends among the served.
ClientKept ==
    [][ /\ Served \subseteq Served' \/ (acc = "clear" /\ logfiles_num = MaxFiles)
        /\ acc \in Adding /\ acc' \notin Adding => file \in Served' ]_vars

\* A write to NULL takes a clearing, and a clearing more clients in the device's
\* life than the table has entries: up to there no order of the steps of
\* cli_accept_task and of the tasks that log leads to one.
NullNeedsFullTable == crashed => Cardinality(sockets) > MaxFiles

\* Whatever clients come and leave, each LOG_* macro that a task enters ends,
\* unless the task that has the mutex is held up by a client that does not read,
\* has come to wait for itself, or the program has crashed.
LoggingReturns ==
    \A t \in Writers :
        log[t].at # "idle" ~>
            log[t].at = "idle" \/ crashed \/ \E s \in mutex : log[s].at \in {"lock", "blocked"}

-----------------------------------------------------------------------------
(***************************************************************************)
(* Statements of comments and documentation                                *)
(***************************************************************************)

\* logger.h: logger_get_lock gets the mutex; a task that has it does not wait
\* for it, or no task logs again.
NeverWaitsForItself == \A t \in mutex : log[t].at # "lock"

\* logger.c: the mutex is "used to synchronize logging"; a file that a task
\* writes to is not taken from it.
NeverWritesToNull == ~crashed
=============================================================================
