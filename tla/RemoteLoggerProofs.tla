------------------------- MODULE RemoteLoggerProofs -------------------------
(***************************************************************************)
(* What TLAPS proves of RemoteLogger, for any number of tasks, clients,    *)
(* files and sockets.                                                      *)
(***************************************************************************)
EXTENDS RemoteLogger, FiniteSetTheorems, TLAPS

\* The second attempt to add a file finds room.
Added == acc # "lost"

\* A task in the loops of a LOG_* macro holds the mutex, one that is in no macro
\* does not, and no two tasks hold it.
MutexHeld ==
    /\ \A t \in Tasks : log[t].at \in {"loop", "blocked"} => t \in mutex
    /\ \A t \in mutex : log[t].at # "idle"
    /\ \A t, u \in mutex : t = u

\* The slots from the number of files on are empty, but for the file that is
\* being added; the table is empty when it was cleared.
TableFilled ==
    /\ \A i \in Slots : i > logfiles_num => logfiles[i] = NoFile
    /\ logfiles_num \in Slots /\ acc \notin {"count", "count_again", "reset"} =>
          logfiles[logfiles_num] = NoFile
    /\ acc \in {"count", "count_again"} =>
          logfiles_num \in Slots /\ logfiles[logfiles_num] = file
    /\ acc \in {"clear", "reset"} => logfiles_num = MaxFiles
    /\ acc \in {"reset", "add_again", "count_again"} =>
          \A i \in Slots : i # logfiles_num => logfiles[i] = NoFile
    /\ acc \in {"add_again", "count_again"} => logfiles_num = 0

\* The client that is being added has an open socket, and is in no slot that
\* counts; only clients with an open socket are in the table.
Newcomer ==
    /\ \A i \in Slots : logfiles[i] \in sockets \cup {NoFile}
    /\ acc \in {"open", "add", "clear", "reset", "add_again", "count", "count_again"} =>
          file \in sockets
    /\ acc \in {"open", "add", "clear", "reset", "add_again"} =>
          \A i \in Slots : logfiles[i] # file

\* Clients that are not yet among the files have heard nothing.
NothingHeard ==
    /\ \A c \in Clients \ sockets : heard[c] = Silence
    /\ acc \in {"open", "add", "clear", "reset", "add_again", "count", "count_again"} =>
          heard[file] = Silence

\* What client c, the file of slot i, has heard last when task t is in the loop:
\* the part that t writes if the loop has passed the slot, else the part before.
HeardFrom(t, c, i) ==
    IF log[t].part \in Parts /\ i < log[t].i
    THEN heard[c] = [task |-> t, part |-> log[t].part]
    ELSE IF log[t].part \in {2, 3}
         THEN heard[c] = [task |-> t, part |-> log[t].part - 1]
         ELSE heard[c].part = 3

\* A client among the files that has heard anything has heard a whole message,
\* or is at the part of the task in the loop.
HeardInStep ==
    \A i \in Slots :
        i < logfiles_num /\ logfiles[i] # NoFile /\ heard[logfiles[i]].part # 0 =>
            /\ mutex = {} => heard[logfiles[i]].part = 3
            /\ \A t \in Tasks : log[t].at \in {"loop", "blocked"} => HeardFrom(t, logfiles[i], i)

TableInv == TypeOK /\ TableFilled /\ Newcomer /\ TableInStep /\ Added
LoggerInv == TableInv /\ MutexHeld /\ NothingHeard /\ HeardInStep

-----------------------------------------------------------------------------
(***************************************************************************)
(* The table                                                               *)
(***************************************************************************)

\* A position in a macro stays a position.
LEMMA PositionTypes ==
  /\ Idle \in Positions /\ Waiting \in Positions
  /\ \A part \in Parts \cup {Flush} : Looping(part, 0) \in Positions
  /\ \A p \in Positions : p.i < logfiles_num /\ logfiles_num \in 0..MaxFiles
        => \A at \in {"loop", "blocked"} : [p EXCEPT !.at = at, !.i = @ + 1] \in Positions
  /\ \A p \in Positions : [p EXCEPT !.at = "loop"] \in Positions
<1>1. /\ Idle \in Positions /\ Waiting \in Positions
      /\ \A part \in Parts \cup {Flush} : Looping(part, 0) \in Positions
  BY LoggerAssumption DEF Positions, Idle, Waiting, Looping, Parts, Flush
<1>2. ASSUME NEW p \in Positions, p.i < logfiles_num, logfiles_num \in 0..MaxFiles,
             NEW at \in {"loop", "blocked"}
      PROVE  [p EXCEPT !.at = at, !.i = @ + 1] \in Positions
  <2>1. p.i + 1 \in 0..MaxFiles
    BY <1>2, LoggerAssumption DEF Positions
  <2>. QED
    BY <2>1 DEF Positions
<1>3. ASSUME NEW p \in Positions PROVE [p EXCEPT !.at = "loop"] \in Positions
  BY DEF Positions
<1>. QED
  BY <1>1, <1>2, <1>3

\* The table is in step from the start.
LEMMA TableInit == ASSUME Init PROVE TableInv
<1>1. [i \in Slots |-> NoFile] \in [Slots -> Clients \cup {NoFile}]
  OBVIOUS
<1>2. [t \in Tasks |-> Idle] \in [Tasks -> Positions]
  BY PositionTypes
<1>3. Silence \in [task : Tasks, part : 0..3]
  BY DEF Silence, Tasks
<1>4. TypeOK
  <2>1. heard \in [Clients -> [task : Tasks, part : 0..3]]
    BY <1>3 DEF Init
  <2>2. log \in [Tasks -> Positions] /\ logfiles \in [Slots -> Clients \cup {NoFile}]
    BY <1>1, <1>2 DEF Init
  <2>3. logfiles_num \in 0..MaxFiles /\ acc \in AcceptSteps
    BY LoggerAssumption DEF Init, AcceptSteps
  <2>. QED
    BY <2>1, <2>2, <2>3 DEF Init, TypeOK
<1>5. TableFilled /\ Newcomer /\ TableInStep /\ Added
  BY LoggerAssumption
  DEF Init, TableFilled, Newcomer, TableInStep, Added, Slots
<1>. QED
  BY <1>4, <1>5 DEF TableInv

\* A step of a macro leaves the table and cli_accept_task where they are, and
\* keeps the types of what it changes.
LEMMA LoggingTypes ==
  ASSUME TypeOK, NEW t \in Tasks, Logging(t) \/ WriteReturns(t)
  PROVE  /\ TypeOK'
         /\ UNCHANGED <<logfiles, logfiles_num, acc, file, listen, sockets>>
<1>. USE DEF tableVars, accVars, LogAt, LogGoto
<1>1. CASE LogCall(t)
  BY <1>1, PositionTypes DEF LogCall, TypeOK
<1>2. CASE Lock(t)
  <2>1. PICK part \in {1, Flush} : log' = [log EXCEPT ![t] = Looping(part, 0)]
    BY <1>2 DEF Lock
  <2>2. part \in Parts \cup {Flush}
    BY DEF Parts
  <2>3. Looping(part, 0) \in Positions
    BY <2>2, PositionTypes
  <2>4. log' \in [Tasks -> Positions]
    BY <2>1, <2>3 DEF TypeOK
  <2>. QED
    BY <1>2, <2>4 DEF Lock, TypeOK
<1>3. CASE WriteFile(t)
  <2>1. log[t] \in Positions
    BY DEF TypeOK
  <2>2. PICK at \in {"loop", "blocked"} :
          log' = [log EXCEPT ![t] = [log[t] EXCEPT !.at = at, !.i = @ + 1]]
    BY <1>3 DEF WriteFile
  <2>3. [log[t] EXCEPT !.at = at, !.i = @ + 1] \in Positions
    BY <1>3, <2>1, PositionTypes DEF WriteFile, TypeOK
  <2>4. log' \in [Tasks -> Positions]
    BY <2>2, <2>3 DEF TypeOK
  <2>5. log[t].part \in Parts => [task |-> t, part |-> log[t].part] \in [task : Tasks, part : 0..3]
    BY DEF Parts
  <2>6. heard' \in [Clients -> [task : Tasks, part : 0..3]]
    BY <1>3, <2>5 DEF WriteFile, TypeOK
  <2>7. crashed' \in BOOLEAN
    BY <1>3 DEF WriteFile
  <2>. QED
    BY <1>3, <2>4, <2>6, <2>7 DEF WriteFile, TypeOK
<1>4. CASE LoopEnds(t)
  <2>1. log[t].part \in Parts => log[t].part + 1 \in Parts \cup {Flush}
    BY DEF Parts, Flush
  <2>2. log' \in [Tasks -> Positions]
    BY <1>4, <2>1, PositionTypes DEF LoopEnds, TypeOK
  <2>. QED
    BY <1>4, <2>2 DEF LoopEnds, TypeOK
<1>5. CASE WriteReturns(t)
  <2>1. [log[t] EXCEPT !.at = "loop"] \in Positions
    BY PositionTypes DEF TypeOK
  <2>. QED
    BY <1>5, <2>1 DEF WriteReturns, TypeOK
<1>. QED
  BY <1>1, <1>2, <1>3, <1>4, <1>5 DEF Logging

\* A step of cli_accept_task keeps the table in step.
LEMMA AcceptingTable == ASSUME TableInv, Accepting PROVE TableInv'
<1>. USE DEF AccAt, AccGoto, LogAt
<1>1. AccLogs => log' \in [Tasks -> Positions]
  BY PositionTypes DEF AccLogs, LogGoto, TableInv, TypeOK
<1>. USE DEF tableVars
<1>2. CASE SetRemoteLogging
  <2>1. TypeOK'
    BY <1>1, <1>2 DEF SetRemoteLogging, TableInv, TypeOK, AcceptSteps
  <2>2. /\ acc = "none" /\ acc' \in {"accept", "failed", "deaf"}
        /\ UNCHANGED <<logfiles, logfiles_num, file, sockets>>
    BY <1>2 DEF SetRemoteLogging
  <2>. QED
    BY <2>1, <2>2
    DEF TableInv, TableFilled, Newcomer, TableInStep, Added
<1>3. ASSUME NEW c \in Clients, AcceptClient(c) PROVE TableInv'
  <2>1. TypeOK'
    BY <1>1, <1>3 DEF AcceptClient, TableInv, TypeOK, AcceptSteps
  <2>2. Newcomer'
    BY <1>3, LoggerAssumption DEF AcceptClient, TableInv, TypeOK, Newcomer
  <2>. QED
    BY <1>3, <2>1, <2>2 DEF AcceptClient, TableInv, TableFilled, TableInStep, Added
<1>10. CASE AddressUnknown
  <2>1. /\ AccLogs
        /\ UNCHANGED <<mutex, logfiles, logfiles_num, acc, file, listen, sockets, heard, crashed>>
    BY <1>10 DEF AddressUnknown, AccLogs, accVars
  <2>2. TypeOK'
    BY <1>1, <2>1 DEF TableInv, TypeOK
  <2>. QED
    BY <2>1, <2>2 DEF TableInv, TableFilled, Newcomer, TableInStep, Added
<1>4. CASE AcceptFails
  <2>1. TypeOK'
    BY <1>1, <1>4 DEF AcceptFails, TableInv, TypeOK, AcceptSteps
  <2>. QED
    BY <1>4, <2>1
    DEF AcceptFails, TableInv, TableFilled, Newcomer, TableInStep, Added
<1>5. CASE OpenFile
  <2>1. TypeOK'
    BY <1>5 DEF OpenFile, TableInv, TypeOK, AcceptSteps
  <2>. QED
    BY <1>5, <2>1
    DEF OpenFile, TableInv, TableFilled, Newcomer, TableInStep, Added
<1>6. ASSUME NEW from \in {"add", "add_again"}, NEW to, NEW full, AddFile(from, to, full),
             from = "add" => to = "count" /\ full = "clear",
             from = "add_again" => to = "count_again" /\ full = "lost"
      PROVE  TableInv'
  <2>1. CASE logfiles_num = MaxFiles
    <3>1. acc = "add" /\ acc' = "clear" /\ AccLogs
      BY <1>6, <2>1, LoggerAssumption DEF AddFile, TableInv, TableFilled
    <3>2. UNCHANGED <<mutex, logfiles, logfiles_num, file, listen, sockets, heard, crashed>>
      BY <1>6, <2>1 DEF AddFile
    <3>3. TypeOK'
      BY <1>1, <3>1, <3>2 DEF TableInv, TypeOK, AcceptSteps
    <3>. QED
      BY <2>1, <3>1, <3>2, <3>3
      DEF TableInv, TableFilled, Newcomer, TableInStep, Added
  <2>2. CASE logfiles_num # MaxFiles
    <3>1. /\ acc = from /\ acc' = to
          /\ logfiles' = [logfiles EXCEPT ![logfiles_num] = file]
      BY <1>6, <2>2 DEF AddFile
    <3>2. UNCHANGED <<mutex, logfiles_num, log, file, listen, sockets, heard, crashed>>
      BY <1>6, <2>2 DEF AddFile
    <3>3. /\ logfiles_num \in Slots /\ logfiles \in [Slots -> Clients \cup {NoFile}]
          /\ file \in sockets /\ sockets \subseteq Clients
          /\ \A i \in Slots : logfiles[i] # file
      BY <1>6, <2>2, <3>1, LoggerAssumption DEF TableInv, TypeOK, Newcomer, Slots
    <3>4. /\ logfiles'[logfiles_num] = file
          /\ \A i \in Slots : i # logfiles_num => logfiles'[i] = logfiles[i]
      BY <3>1, <3>3
    <3>5. logfiles' \in [Slots -> Clients \cup {NoFile}]
      BY <3>1, <3>3
    <3>6. to \in AcceptSteps
      BY <1>6 DEF AcceptSteps
    <3>7. TypeOK'
      BY <3>1, <3>2, <3>5, <3>6 DEF TableInv, TypeOK
    <3>8. TableFilled'
      <4>1. \A i \in Slots : i > logfiles_num => logfiles'[i] = NoFile
        BY <3>3, <3>4, LoggerAssumption DEF TableInv, TableFilled, Slots
      <4>2. from = "add_again" =>
               logfiles_num = 0 /\ \A i \in Slots : i # logfiles_num => logfiles'[i] = NoFile
        BY <3>1, <3>4 DEF TableInv, TableFilled
      <4>. QED
        BY <1>6, <3>1, <3>2, <3>3, <3>4, <4>1, <4>2 DEF TableFilled
    <3>9. Newcomer'
      BY <1>6, <3>1, <3>2, <3>3, <3>4 DEF TableInv, Newcomer
    <3>10. TableInStep'
      <4>1. acc # "reset" /\ acc' # "reset"
        BY <1>6, <3>1
      <4>2. \A i \in 0..(logfiles_num - 1) : i \in Slots /\ i # logfiles_num
        BY <3>3, LoggerAssumption DEF Slots
      <4>3. \A i \in 0..(logfiles_num - 1) : logfiles'[i] # NoFile
        BY <3>4, <4>1, <4>2 DEF TableInv, TableInStep
      <4>4. \A i, j \in Slots : logfiles'[i] = logfiles'[j] /\ i # j => logfiles'[i] = NoFile
        BY <3>3, <3>4 DEF TableInv, TableInStep
      <4>. QED
        BY <3>2, <4>1, <4>3, <4>4 DEF TableInStep
    <3>11. Added'
      BY <1>6, <3>1 DEF Added
    <3>. QED
      BY <3>7, <3>8, <3>9, <3>10, <3>11 DEF TableInv
  <2>. QED
    BY <2>1, <2>2
<1>7. ASSUME NEW from \in {"count", "count_again"}, CountFile(from) PROVE TableInv'
  <2>1. /\ acc = from /\ acc' = "accept" /\ logfiles_num' = logfiles_num + 1
        /\ AccLogs /\ UNCHANGED <<mutex, logfiles, file, listen, sockets, heard, crashed>>
    BY <1>7 DEF CountFile
  <2>2. /\ logfiles_num \in Slots /\ logfiles[logfiles_num] = file
        /\ file \in sockets /\ sockets \subseteq Clients
    BY <1>7, <2>1 DEF TableInv, TypeOK, TableFilled, Newcomer
  <2>3. TypeOK'
    BY <1>1, <2>1, <2>2, LoggerAssumption DEF TableInv, TypeOK, AcceptSteps, Slots
  <2>4. \A i \in Slots : i > logfiles_num => logfiles[i] = NoFile
    BY DEF TableInv, TableFilled
  <2>5. TableFilled'
    BY <2>1, <2>2, <2>4, LoggerAssumption DEF TableFilled, Slots
  <2>6. \A i \in 0..logfiles_num : logfiles[i] # NoFile
    BY <1>7, <2>1, <2>2, LoggerAssumption DEF TableInv, TableInStep, Slots
  <2>7. TableInStep'
    BY <2>1, <2>2, <2>6, LoggerAssumption DEF TableInv, TableInStep, Slots
  <2>. QED
    BY <2>1, <2>3, <2>5, <2>7 DEF TableInv, Newcomer, Added
<1>8. CASE ClearFiles
  <2>1. /\ acc = "clear" /\ acc' = "reset" /\ logfiles' = [i \in Slots |-> NoFile]
        /\ UNCHANGED <<mutex, logfiles_num, log, file, listen, sockets, heard, crashed>>
    BY <1>8 DEF ClearFiles
  <2>2. TypeOK'
    BY <2>1 DEF TableInv, TypeOK, AcceptSteps
  <2>3. logfiles_num = MaxFiles /\ file \in sockets /\ sockets \subseteq Clients
    BY <2>1 DEF TableInv, TypeOK, TableFilled, Newcomer
  <2>4. TableFilled' /\ TableInStep'
    BY <2>1, <2>3, LoggerAssumption DEF TableFilled, TableInStep, Slots
  <2>5. Newcomer'
    BY <2>1, <2>3, LoggerAssumption DEF Newcomer
  <2>. QED
    BY <2>1, <2>2, <2>4, <2>5 DEF TableInv, Added
<1>9. CASE ResetNumber
  <2>1. /\ acc = "reset" /\ acc' = "add_again" /\ logfiles_num' = 0
        /\ UNCHANGED <<mutex, logfiles, log, file, listen, sockets, heard, crashed>>
    BY <1>9 DEF ResetNumber
  <2>2. TypeOK'
    BY <2>1, LoggerAssumption DEF TableInv, TypeOK, AcceptSteps
  <2>3. \A i \in Slots : logfiles[i] = NoFile
    BY <2>1, LoggerAssumption DEF TableInv, TableFilled, Slots
  <2>4. TableFilled' /\ TableInStep'
    BY <2>1, <2>3, LoggerAssumption DEF TableFilled, TableInStep, Slots
  <2>. QED
    BY <2>1, <2>2, <2>4 DEF TableInv, Newcomer, Added
<1>. QED
  BY <1>2, <1>3, <1>4, <1>5, <1>6, <1>7, <1>8, <1>9, <1>10 DEF Accepting

\* Every step keeps the table in step.
LEMMA TableNext == ASSUME TableInv, [Next]_vars PROVE TableInv'
<1>1. CASE Accepting
  BY <1>1, AcceptingTable
<1>2. ASSUME NEW t \in Tasks, Logging(t) \/ WriteReturns(t) PROVE TableInv'
  BY <1>2, LoggingTypes DEF TableInv, TableFilled, Newcomer, TableInStep, Added
<1>3. CASE UNCHANGED vars
  BY <1>3 DEF vars, TableInv, TypeOK, TableFilled, Newcomer, TableInStep, Added
<1>. QED
  BY <1>1, <1>2, <1>3 DEF Next

\* The table agrees with its number of files at every step, and a client that is
\* added has room.
THEOREM TableCorrect == Spec => []TableInv
BY TableInit, TableNext, PTL DEF Spec

\* Every variable keeps its type.
THEOREM LoggerTypes == Spec => []TypeOK
<1>1. TableInv => TypeOK
  BY DEF TableInv
<1>. QED
  BY <1>1, TableCorrect, PTL

\* The files that are counted are there, and none twice.
THEOREM TableStaysInStep == Spec => []TableInStep
<1>1. TableInv => TableInStep
  BY DEF TableInv
<1>. QED
  BY <1>1, TableCorrect, PTL

\* A client is served until a newcomer finds the table full, and each newcomer
\* whose file was opened ends among the served.
THEOREM ClientsKept == Spec => ClientKept
<1>. DEFINE Dropped == acc = "clear" /\ logfiles_num = MaxFiles
            Kept == /\ Served \subseteq Served' \/ Dropped
                    /\ acc \in Adding /\ acc' \notin Adding => file \in Served'
<1>1. TableInv /\ [Next]_vars => [Kept]_vars
  <2>. SUFFICES ASSUME TableInv, Next PROVE Kept
    OBVIOUS
  <2>. USE DEF AccAt, AccGoto
  <2>1. TypeOK /\ logfiles_num \in 0..MaxFiles /\ MaxFiles \in Nat
    BY LoggerAssumption DEF TableInv, TypeOK
  <2>2. ASSUME UNCHANGED <<logfiles, logfiles_num>>, acc \in Adding => acc' \in Adding
        PROVE  Kept
    BY <2>2 DEF Served
  <2>3. CASE SetRemoteLogging \/ (\E c \in Clients : AcceptClient(c)) \/ AcceptFails \/ OpenFile
    <3>1. UNCHANGED <<logfiles, logfiles_num>> /\ acc \notin Adding
      BY <2>3
      DEF SetRemoteLogging, AcceptClient, AcceptFails, OpenFile, tableVars, Adding
    <3>. QED
      BY <2>2, <3>1
  <2>4. CASE AddressUnknown \/ \E t \in Tasks : Logging(t) \/ WriteReturns(t)
    <3>1. UNCHANGED <<logfiles, logfiles_num, acc>>
      BY <2>1, <2>4, LoggingTypes DEF AddressUnknown, tableVars, accVars
    <3>. QED
      BY <2>2, <3>1
  <2>5. ASSUME NEW from, NEW to, NEW full, AddFile(from, to, full),
               <<from, to, full>> \in {<<"add", "count", "clear">>,
                                      <<"add_again", "count_again", "lost">>}
        PROVE  Kept
    <3>1. acc = from /\ logfiles_num' = logfiles_num
      BY <2>5 DEF AddFile
    <3>2. acc' \in Adding
      BY <2>1, <2>5, <3>1, LoggerAssumption DEF AddFile, Adding, TableInv, TableFilled
    <3>3. logfiles' = logfiles \/ logfiles' = [logfiles EXCEPT ![logfiles_num] = file]
      BY <2>5 DEF AddFile
    <3>4. \A i \in 0..(logfiles_num - 1) : logfiles'[i] = logfiles[i]
      BY <2>1, <3>3 DEF TypeOK, Slots
    <3>. QED
      BY <3>1, <3>2, <3>4 DEF Served
  <2>6. ASSUME NEW from \in {"count", "count_again"}, CountFile(from)
        PROVE  Kept
    <3>1. acc = from /\ logfiles' = logfiles /\ logfiles_num' = logfiles_num + 1
      BY <2>6 DEF CountFile
    <3>2. logfiles[logfiles_num] = file /\ file # NoFile
      BY <3>1, LoggerAssumption DEF TableInv, TypeOK, TableFilled, Newcomer
    <3>3. logfiles_num \in 0..(logfiles_num' - 1)
      BY <2>1, <3>1
    <3>4. file \in Served'
      BY <3>1, <3>2, <3>3 DEF Served
    <3>5. 0..(logfiles_num - 1) \subseteq 0..(logfiles_num' - 1)
      BY <2>1, <3>1
    <3>. QED
      BY <3>1, <3>4, <3>5 DEF Served
  <2>7. CASE ClearFiles
    <3>1. acc = "clear" /\ acc' = "reset"
      BY <2>7 DEF ClearFiles
    <3>. QED
      BY <3>1 DEF Adding, TableInv, TableFilled
  <2>8. CASE ResetNumber
    <3>1. acc = "reset" /\ acc' = "add_again"
      BY <2>8 DEF ResetNumber
    <3>2. \A i \in Slots : logfiles[i] = NoFile
      BY <3>1, <2>1 DEF TableInv, TableFilled, Slots
    <3>3. Served = {}
      BY <2>1, <3>2 DEF Served, Slots
    <3>. QED
      BY <3>1, <3>3 DEF Adding
  <2>. QED
    BY <2>3, <2>4, <2>5, <2>6, <2>7, <2>8 DEF Next, Accepting
<1>. QED
  BY <1>1, TableCorrect, PTL DEF Spec, ClientKept

-----------------------------------------------------------------------------
(***************************************************************************)
(* The messages                                                            *)
(***************************************************************************)

\* What the loop does to a task's position, and to what the clients heard.
LEMMA LoopFacts ==
  ASSUME TypeOK, NEW t \in Tasks, log[t].at = "loop"
  PROVE  /\ log[t].i \in Nat /\ log[t].part \in Parts \cup {Flush}
         /\ WriteFile(t) =>
              LET k == log[t].i
                  out == logfiles[k]
                  part == log[t].part
              IN /\ k \in Slots /\ k < logfiles_num
                 /\ log'[t].at \in {"loop", "blocked"}
                 /\ log'[t].part = part /\ log'[t].i = k + 1
                 /\ \A u \in Tasks : u # t => log'[u] = log[u]
                 /\ out \in Clients /\ part \in Parts =>
                      /\ heard'[out] = [task |-> t, part |-> part]
                      /\ \A c \in Clients : c # out => heard'[c] = heard[c]
                 /\ ~(out \in Clients /\ part \in Parts) => heard' = heard
<1>1. log[t] \in Positions /\ logfiles_num \in 0..MaxFiles
  BY DEF TypeOK
<1>2. log[t].i \in Nat /\ log[t].part \in Parts \cup {Flush}
  BY <1>1, LoggerAssumption DEF Positions
<1>3. ASSUME WriteFile(t)
      PROVE  /\ log[t].i \in Slots /\ log[t].i < logfiles_num
             /\ \E at \in {"loop", "blocked"} : log'[t] = [log[t] EXCEPT !.at = at, !.i = @ + 1]
             /\ \A u \in Tasks : u # t => log'[u] = log[u]
  <2>1. PICK at \in {"loop", "blocked"} :
          log' = [log EXCEPT ![t] = [log[t] EXCEPT !.at = at, !.i = @ + 1]]
    BY <1>3 DEF WriteFile, LogGoto
  <2>2. log[t].i < logfiles_num /\ log[t].i \in Slots
    BY <1>1, <1>2, <1>3, LoggerAssumption DEF WriteFile, Slots
  <2>3. /\ log'[t] = [log[t] EXCEPT !.at = at, !.i = @ + 1]
        /\ \A u \in Tasks : u # t => log'[u] = log[u]
    BY <2>1 DEF TypeOK
  <2>. QED
    BY <2>2, <2>3
<1>4. ASSUME WriteFile(t)
      PROVE  /\ log'[t].at \in {"loop", "blocked"}
             /\ log'[t].part = log[t].part /\ log'[t].i = log[t].i + 1
  BY <1>1, <1>3, <1>4 DEF Positions
<1>5. ASSUME WriteFile(t)
      PROVE  heard' = IF logfiles[log[t].i] \in Clients /\ log[t].part \in Parts
                      THEN [heard EXCEPT ![logfiles[log[t].i]] =
                              [task |-> t, part |-> log[t].part]]
                      ELSE heard
  BY <1>5 DEF WriteFile
<1>6. heard \in [Clients -> [task : Tasks, part : 0..3]]
  BY DEF TypeOK
<1>. QED
  BY <1>2, <1>3, <1>4, <1>5, <1>6

\* Only the holder of the mutex is in the loops, and it keeps it.
LEMMA MutexNext == ASSUME TypeOK, MutexHeld, [Next]_vars PROVE MutexHeld'
<1>. USE DEF LogAt, LogGoto
<1>1. Accepter \in Tasks
  BY DEF Tasks
<1>2. CASE Accepting
  <2>1. CASE UNCHANGED <<mutex, log>>
    BY <2>1 DEF MutexHeld
  <2>2. CASE UNCHANGED mutex /\ AccLogs /\ log[Accepter].at \in {"idle", "loop"}
    <3>1. log' = [log EXCEPT ![Accepter] = Waiting] /\ Waiting.at = "lock"
      BY <2>2 DEF AccLogs, Waiting
    <3>. QED
      BY <1>1, <2>2, <3>1 DEF MutexHeld, TypeOK
  <2>. QED
    BY <1>2, <2>1, <2>2
    DEF Accepting, SetRemoteLogging, AcceptClient, AddressUnknown, AcceptFails, OpenFile,
        AddFile, CountFile, ClearFiles, ResetNumber, AccAt, AccLogs
<1>3. ASSUME NEW t \in Tasks, Logging(t) \/ WriteReturns(t) PROVE MutexHeld'
  <2>1. CASE LogCall(t)
    <3>1. log' = [log EXCEPT ![t] = Waiting] /\ Waiting.at = "lock"
      BY <2>1 DEF LogCall, Waiting
    <3>. QED
      BY <2>1, <3>1 DEF LogCall, MutexHeld, TypeOK
  <2>2. CASE Lock(t)
    <3>1. PICK part \in {1, Flush} : log' = [log EXCEPT ![t] = Looping(part, 0)]
      BY <2>2 DEF Lock
    <3>2. Looping(part, 0).at = "loop"
      BY DEF Looping
    <3>. QED
      BY <2>2, <3>1, <3>2 DEF Lock, MutexHeld, TypeOK
  <2>3. CASE WriteFile(t)
    <3>1. /\ log[t].at = "loop" /\ log'[t].at \in {"loop", "blocked"} /\ mutex' = mutex
          /\ \A u \in Tasks : u # t => log'[u] = log[u]
      BY <2>3, LoopFacts DEF WriteFile
    <3>. QED
      BY <3>1 DEF MutexHeld, TypeOK
  <2>4. CASE LoopEnds(t)
    <3>1. log[t].at = "loop" /\ t \in mutex /\ mutex = {t}
      BY <2>4 DEF LoopEnds, MutexHeld
    <3>2. CASE mutex' = mutex /\ log' = [log EXCEPT ![t] = Looping(log[t].part + 1, 0)]
      <4>1. log'[t].at = "loop"
        BY <3>2 DEF TypeOK, Looping
      <4>. QED
        BY <3>1, <3>2, <4>1 DEF MutexHeld, TypeOK
    <3>3. CASE mutex' = mutex \ {t} /\ log' = [log EXCEPT ![t] = Idle]
      <4>1. log'[t].at = "idle" /\ mutex' = {}
        BY <3>1, <3>3 DEF TypeOK, Idle
      <4>. QED
        BY <3>1, <3>3, <4>1 DEF MutexHeld, TypeOK
    <3>. QED
      BY <2>4, <3>2, <3>3 DEF LoopEnds
  <2>5. CASE WriteReturns(t)
    <3>1. /\ log[t].at = "blocked" /\ log'[t].at = "loop" /\ mutex' = mutex
          /\ \A u \in Tasks : u # t => log'[u] = log[u]
      BY <2>5 DEF WriteReturns, TypeOK, Positions
    <3>. QED
      BY <3>1 DEF MutexHeld, TypeOK
  <2>. QED
    BY <1>3, <2>1, <2>2, <2>3, <2>4, <2>5 DEF Logging
<1>4. CASE UNCHANGED vars
  BY <1>4 DEF vars, MutexHeld
<1>. QED
  BY <1>2, <1>3, <1>4 DEF Next

\* A client hears nothing before its file counts.
LEMMA NothingNext ==
  ASSUME TableInv, NothingHeard, [Next]_vars PROVE NothingHeard'
<1>1. CASE Accepting
  <2>1. heard' = heard
    BY <1>1
    DEF Accepting, SetRemoteLogging, AcceptClient, AddressUnknown, AcceptFails, OpenFile,
        AddFile, CountFile, ClearFiles, ResetNumber
  <2>2. CASE \E c \in Clients : AcceptClient(c)
    <3>1. PICK c \in Clients : AcceptClient(c)
      BY <2>2
    <3>2. c \notin sockets /\ sockets' = sockets \cup {c} /\ file' = c
      BY <3>1 DEF AcceptClient
    <3>. QED
      BY <2>1, <3>2 DEF NothingHeard
  <2>3. CASE ~\E c \in Clients : AcceptClient(c)
    <3>1. sockets' = sockets
      BY <1>1, <2>3
      DEF Accepting, SetRemoteLogging, AddressUnknown, AcceptFails, OpenFile,
          AddFile, CountFile, ClearFiles, ResetNumber, accVars
    <3>2. acc' \in {"open", "add", "clear", "reset", "add_again", "count", "count_again"} =>
            /\ acc \in {"open", "add", "clear", "reset", "add_again", "count", "count_again"}
            /\ file' = file
      BY <1>1, <2>3
      DEF Accepting, SetRemoteLogging, AddressUnknown, AcceptFails, OpenFile,
          AddFile, CountFile, ClearFiles, ResetNumber, accVars, AccAt, AccGoto
    <3>. QED
      BY <2>1, <3>1, <3>2 DEF NothingHeard
  <2>. QED
    BY <2>2, <2>3
<1>2. ASSUME NEW t \in Tasks, Logging(t) \/ WriteReturns(t) PROVE NothingHeard'
  <2>1. TypeOK /\ UNCHANGED <<acc, file, sockets>>
    BY <1>2, LoggingTypes DEF TableInv
  <2>2. CASE ~WriteFile(t)
    <3>1. heard' = heard
      BY <1>2, <2>2 DEF Logging, LogCall, Lock, LoopEnds, WriteReturns
    <3>. QED
      BY <2>1, <3>1 DEF NothingHeard
  <2>3. CASE WriteFile(t)
    <3>. DEFINE k == log[t].i
    <3>1. /\ k \in Slots /\ k < logfiles_num
          /\ \A c \in Clients : c # logfiles[k] => heard'[c] = heard[c]
      BY <2>1, <2>3, LoopFacts DEF WriteFile, LogAt
    <3>2. logfiles[k] \in sockets \cup {NoFile} /\ sockets \subseteq Clients
      BY <3>1 DEF TableInv, TypeOK, Newcomer
    <3>3. \A c \in Clients \ sockets : heard'[c] = Silence
      BY <3>1, <3>2, LoggerAssumption DEF NothingHeard
    <3>4. ASSUME acc \in {"open", "add", "clear", "reset", "add_again", "count", "count_again"}
          PROVE  heard'[file] = Silence
      <4>1. file \in Clients /\ file # NoFile
        BY <3>2, <3>4, LoggerAssumption DEF TableInv, Newcomer
      <4>2. logfiles[k] # file
        <5>1. CASE acc \in {"count", "count_again"}
          <6>1. logfiles_num \in Slots /\ logfiles[logfiles_num] = file /\ k # logfiles_num
            BY <3>1, <5>1, LoggerAssumption DEF TableInv, TableFilled, Slots
          <6>. QED
            BY <3>1, <4>1, <6>1 DEF TableInv, TableInStep
        <5>2. CASE acc \notin {"count", "count_again"}
          BY <3>1, <3>4, <5>2 DEF TableInv, Newcomer
        <5>. QED
          BY <5>1, <5>2
      <4>. QED
        BY <3>1, <3>4, <4>1, <4>2 DEF NothingHeard
    <3>. QED
      BY <2>1, <3>3, <3>4 DEF NothingHeard
  <2>. QED
    BY <2>2, <2>3
<1>3. CASE UNCHANGED vars
  BY <1>3 DEF vars, NothingHeard
<1>. QED
  BY <1>1, <1>2, <1>3 DEF Next

\* A step of a macro keeps what the clients heard in step with it.
LEMMA HeardLogging ==
  ASSUME TableInv, MutexHeld, HeardInStep, NEW t \in Tasks,
         Logging(t) \/ WriteReturns(t)
  PROVE  HeardInStep'
<1>. USE DEF LogAt, LogGoto
<1>1. TypeOK /\ UNCHANGED <<logfiles, logfiles_num>>
  BY LoggingTypes DEF TableInv
<1>. SUFFICES ASSUME NEW i \in Slots, i < logfiles_num, logfiles[i] # NoFile,
                     heard'[logfiles[i]].part # 0
              PROVE  /\ mutex' = {} => heard'[logfiles[i]].part = 3
                     /\ \A u \in Tasks :
                          log'[u].at \in {"loop", "blocked"} => HeardFrom(u, logfiles[i], i)'
  BY <1>1 DEF HeardInStep, HeardFrom
<1>. DEFINE c == logfiles[i]
<1>2. c \in Clients /\ heard[c] \in [task : Tasks, part : 0..3]
  BY <1>1 DEF TypeOK
<1>3. CASE LogCall(t)
  <2>1. log' = [log EXCEPT ![t] = Waiting] /\ Waiting.at = "lock"
    BY <1>3 DEF LogCall, Waiting
  <2>2. \A u \in Tasks : log'[u].at \in {"loop", "blocked"} =>
          log'[u] = log[u] /\ log[u].at \in {"loop", "blocked"}
    BY <1>1, <2>1 DEF TypeOK
  <2>3. heard' = heard /\ mutex' = mutex
    BY <1>3 DEF LogCall
  <2>4. \A u \in Tasks : log[u].at \in {"loop", "blocked"} => HeardFrom(u, c, i)
    BY <2>3 DEF HeardInStep
  <2>5. \A u \in Tasks : log'[u].at \in {"loop", "blocked"} => HeardFrom(u, c, i)'
    BY <1>1, <2>2, <2>3, <2>4 DEF HeardFrom
  <2>. QED
    BY <2>3, <2>5 DEF HeardInStep
<1>4. CASE Lock(t)
  <2>1. PICK part \in {1, Flush} : log' = [log EXCEPT ![t] = Looping(part, 0)]
    BY <1>4 DEF Lock
  <2>2. log'[t].part \in {1, Flush} /\ log'[t].i = 0
    BY <1>1, <2>1 DEF TypeOK, Looping
  <2>3. \A u \in Tasks : u # t => log'[u].at \notin {"loop", "blocked"}
    BY <1>1, <1>4, <2>1 DEF Lock, MutexHeld, TypeOK
  <2>4. heard' = heard /\ heard[c].part = 3 /\ mutex' # {}
    BY <1>4 DEF Lock, HeardInStep
  <2>5. HeardFrom(t, c, i)'
    BY <1>1, <2>2, <2>4 DEF HeardFrom, Slots, Flush
  <2>. QED
    BY <2>3, <2>4, <2>5
<1>5. CASE WriteFile(t)
  <2>. DEFINE k == log[t].i
              out == logfiles[k]
              part == log[t].part
  <2>1. log[t].at = "loop" /\ mutex' = mutex /\ t \in mutex
    BY <1>5 DEF WriteFile, MutexHeld
  <2>2. /\ k \in Nat /\ part \in Parts \cup {Flush} /\ k \in Slots /\ k < logfiles_num
        /\ log'[t].part = part /\ log'[t].i = k + 1
        /\ \A u \in Tasks : u # t => log'[u] = log[u]
        /\ out \in Clients /\ part \in Parts =>
             /\ heard'[out] = [task |-> t, part |-> part]
             /\ \A d \in Clients : d # out => heard'[d] = heard[d]
        /\ ~(out \in Clients /\ part \in Parts) => heard' = heard
    BY <1>1, <1>5, <2>1, LoopFacts
  <2>3. \A u \in Tasks : u # t => log'[u].at \notin {"loop", "blocked"}
    BY <2>1, <2>2 DEF MutexHeld
  <2>4. HeardFrom(t, c, i)'
    <3>1. CASE i = k /\ part \in Parts
      BY <1>1, <1>2, <2>2, <3>1 DEF HeardFrom, Slots
    <3>2. CASE i # k \/ part \notin Parts
      <4>1. i # k => out # c
        BY <2>2 DEF TableInv, TableInStep
      <4>2. heard'[c] = heard[c]
        BY <1>2, <2>2, <3>2, <4>1
      <4>3. HeardFrom(t, c, i)
        BY <2>1, <4>2 DEF HeardInStep
      <4>. QED
        BY <1>1, <2>2, <3>2, <4>2, <4>3 DEF HeardFrom, Slots
    <3>. QED
      BY <3>1, <3>2
  <2>. QED
    BY <2>1, <2>3, <2>4
<1>6. CASE LoopEnds(t)
  <2>1. /\ log[t].at = "loop" /\ mutex = {t} /\ heard' = heard
        /\ log[t].i >= logfiles_num
    BY <1>6 DEF LoopEnds, MutexHeld
  <2>2. log[t].i \in Nat /\ log[t].part \in Parts \cup {Flush}
    BY <1>1, <2>1, LoopFacts
  <2>3. HeardFrom(t, c, i)
    BY <2>1 DEF HeardInStep
  <2>4. i < log[t].i
    BY <1>1, <2>1, <2>2, LoggerAssumption DEF TypeOK, Slots
  <2>5. \A u \in Tasks : u # t => log'[u].at \notin {"loop", "blocked"}
    BY <1>1, <1>6, <2>1 DEF LoopEnds, MutexHeld, TypeOK
  <2>6. CASE log[t].part \in Parts
    <3>1. log'[t] = Looping(log[t].part + 1, 0) /\ mutex' = mutex
      BY <1>1, <1>6, <2>6 DEF LoopEnds, TypeOK, Parts, Flush
    <3>2. log'[t].part = log[t].part + 1 /\ log'[t].i = 0
      BY <3>1 DEF Looping
    <3>3. heard[c] = [task |-> t, part |-> log[t].part]
      BY <2>3, <2>4, <2>6 DEF HeardFrom
    <3>4. HeardFrom(t, c, i)'
      BY <1>1, <2>1, <2>6, <3>2, <3>3 DEF HeardFrom, Parts, Slots
    <3>. QED
      BY <2>1, <2>5, <3>1, <3>4
  <2>7. CASE log[t].part = Flush
    <3>1. log'[t] = Idle /\ Idle.at = "idle"
      BY <1>1, <1>6, <2>7 DEF LoopEnds, TypeOK, Idle, Parts, Flush
    <3>2. heard[c].part = 3
      BY <2>3, <2>7 DEF HeardFrom, Parts, Flush
    <3>. QED
      BY <2>1, <2>5, <3>1, <3>2
  <2>. QED
    BY <2>2, <2>6, <2>7
<1>7. CASE WriteReturns(t)
  <2>1. /\ log[t].at = "blocked" /\ heard' = heard /\ mutex' = mutex
        /\ log'[t].part = log[t].part /\ log'[t].i = log[t].i
        /\ \A u \in Tasks : u # t => log'[u] = log[u]
    BY <1>1, <1>7 DEF WriteReturns, TypeOK, Positions
  <2>2. \A u \in Tasks : log'[u].at \in {"loop", "blocked"} => HeardFrom(u, c, i)
    BY <2>1 DEF HeardInStep
  <2>3. \A u \in Tasks : HeardFrom(u, c, i)' = HeardFrom(u, c, i)
    BY <1>1, <2>1 DEF HeardFrom
  <2>. QED
    BY <2>1, <2>2, <2>3 DEF HeardInStep
<1>. QED
  BY <1>3, <1>4, <1>5, <1>6, <1>7 DEF Logging

\* A step of cli_accept_task counts no file that has heard anything.
LEMMA HeardAccepting ==
  ASSUME TableInv, MutexHeld, NothingHeard, HeardInStep, Accepting
  PROVE  HeardInStep'
<1>. USE DEF AccAt, AccGoto, AccLogs, LogAt, LogGoto, accVars, tableVars
<1>1. Accepter \in Tasks /\ TypeOK
  BY DEF Tasks, TableInv
<1>2. heard' = heard /\ mutex' = mutex
  BY DEF Accepting, SetRemoteLogging, AcceptClient, AddressUnknown, AcceptFails, OpenFile,
         AddFile, CountFile, ClearFiles, ResetNumber
<1>3. log' = log \/ log' = [log EXCEPT ![Accepter] = Waiting]
  BY DEF Accepting, SetRemoteLogging, AcceptClient, AddressUnknown, AcceptFails, OpenFile,
         AddFile, CountFile, ClearFiles, ResetNumber
<1>4. \A u \in Tasks : log'[u].at \in {"loop", "blocked"} =>
          log'[u] = log[u] /\ log[u].at \in {"loop", "blocked"}
  BY <1>1, <1>3 DEF TypeOK, Waiting
<1>5. ASSUME NEW i \in Slots, i < logfiles_num', logfiles'[i] # NoFile,
             heard[logfiles'[i]].part # 0
      PROVE  i < logfiles_num /\ logfiles'[i] = logfiles[i]
  <2>1. CASE UNCHANGED <<logfiles, logfiles_num>>
    BY <1>5, <2>1
  <2>2. ASSUME NEW from, NEW to, NEW full, AddFile(from, to, full)
        PROVE  i < logfiles_num /\ logfiles'[i] = logfiles[i]
    <3>1. /\ logfiles_num' = logfiles_num
          /\ logfiles' = logfiles \/ logfiles' = [logfiles EXCEPT ![logfiles_num] = file]
      BY <2>2 DEF AddFile
    <3>. QED
      BY <1>1, <1>5, <3>1, LoggerAssumption DEF TypeOK, Slots
  <2>3. ASSUME NEW from \in {"count", "count_again"}, CountFile(from)
        PROVE  i < logfiles_num /\ logfiles'[i] = logfiles[i]
    <3>1. acc = from /\ logfiles' = logfiles /\ logfiles_num' = logfiles_num + 1
      BY <2>3 DEF CountFile
    <3>2. logfiles[logfiles_num] = file /\ heard[file] = Silence /\ Silence.part = 0
      BY <2>3, <3>1 DEF TableInv, TableFilled, NothingHeard, Silence
    <3>3. i # logfiles_num
      BY <1>5, <3>1, <3>2
    <3>. QED
      BY <1>1, <1>5, <3>1, <3>3, LoggerAssumption DEF TypeOK, Slots
  <2>4. CASE ClearFiles
    BY <1>5, <2>4 DEF ClearFiles
  <2>5. CASE ResetNumber
    BY <1>5, <2>5, LoggerAssumption DEF ResetNumber, Slots
  <2>. QED
    BY <2>1, <2>2, <2>3, <2>4, <2>5
    DEF Accepting, SetRemoteLogging, AcceptClient, AddressUnknown, AcceptFails, OpenFile
<1>. QED
  BY <1>2, <1>4, <1>5 DEF HeardInStep, HeardFrom

\* The invariant of the logger holds at every step: the mutex, the table and
\* what the clients heard.
THEOREM LoggerCorrect == Spec => []LoggerInv
<1>1. Init => LoggerInv
  <2>1. Init => MutexHeld /\ NothingHeard /\ HeardInStep
    BY DEF Init, MutexHeld, NothingHeard, HeardInStep, Idle, Tasks, Slots
  <2>. QED
    BY <2>1, TableInit DEF LoggerInv
<1>2. LoggerInv /\ [Next]_vars => LoggerInv'
  <2>1. SUFFICES ASSUME LoggerInv, [Next]_vars PROVE HeardInStep'
    BY TableNext, MutexNext, NothingNext DEF LoggerInv, TableInv
  <2>2. CASE UNCHANGED vars
    BY <2>1, <2>2 DEF vars, LoggerInv, HeardInStep, HeardFrom
  <2>. QED
    BY <2>1, <2>2, HeardLogging, HeardAccepting DEF LoggerInv, Next
<1>. QED
  BY <1>1, <1>2, PTL DEF Spec

\* Each file is given whole messages, for any number of writers and clients.
THEOREM MessagesStayWhole == Spec => MessagesWhole
<1>. DEFINE Whole == \A c \in Clients :
                       LET last == heard[c]
                           next == heard'[c]
                       IN next # last /\ last.part # 0 =>
                            \/ next.part = 1 /\ last.part = 3
                            \/ next.part = last.part + 1 /\ next.task = last.task
<1>1. ASSUME LoggerInv, [Next]_vars PROVE heard' = heard \/ Whole
  <2>1. CASE Accepting \/ UNCHANGED vars
    BY <2>1
    DEF Accepting, SetRemoteLogging, AcceptClient, AddressUnknown, AcceptFails, OpenFile,
        AddFile, CountFile, ClearFiles, ResetNumber, vars
  <2>2. ASSUME NEW t \in Tasks, Logging(t) \/ WriteReturns(t) PROVE heard' = heard \/ Whole
    <3>1. CASE ~WriteFile(t)
      BY <2>2, <3>1 DEF Logging, LogCall, Lock, LoopEnds, WriteReturns
    <3>2. CASE WriteFile(t)
      <4>. DEFINE k == log[t].i
                  out == logfiles[k]
                  part == log[t].part
      <4>1. log[t].at = "loop" /\ TypeOK
        BY <1>1, <3>2 DEF WriteFile, LogAt, LoggerInv, TableInv
      <4>2. /\ k \in Slots /\ k < logfiles_num
            /\ out \in Clients /\ part \in Parts =>
                 /\ heard'[out] = [task |-> t, part |-> part]
                 /\ \A c \in Clients : c # out => heard'[c] = heard[c]
            /\ ~(out \in Clients /\ part \in Parts) => heard' = heard
        BY <3>2, <4>1, LoopFacts
      <4>3. CASE out \in Clients /\ part \in Parts
        <5>1. heard[out].part # 0 => HeardFrom(t, out, k)
          BY <1>1, <4>1, <4>2, <4>3, LoggerAssumption DEF LoggerInv, HeardInStep
        <5>2. ~(k < k)
          BY <4>2 DEF Slots
        <5>3. heard[out].part # 0 =>
                \/ part = 1 /\ heard[out].part = 3
                \/ part = heard[out].part + 1 /\ heard[out].task = t
          BY <4>3, <5>1, <5>2 DEF HeardFrom, Parts
        <5>. QED
          BY <4>2, <4>3, <5>3
      <4>4. CASE ~(out \in Clients /\ part \in Parts)
        BY <4>2, <4>4
      <4>. QED
        BY <4>3, <4>4
    <3>. QED
      BY <3>1, <3>2
  <2>. QED
    BY <1>1, <2>1, <2>2 DEF Next
<1>2. LoggerInv /\ [Next]_vars => [Whole]_vars
  <2>1. heard' = heard => Whole
    OBVIOUS
  <2>. QED
    BY <1>1, <2>1
<1>. QED
  BY <1>2, LoggerCorrect, PTL DEF Spec, MessagesWhole

-----------------------------------------------------------------------------
(***************************************************************************)
(* What the two faults that the runs show need                             *)
(***************************************************************************)

\* The files that count, and the one that is being added, are of clients of
\* different sockets; without more sockets than entries nothing is cleared.
RoomForAll ==
    /\ IsFiniteSet(sockets)
    /\ acc \in {"open", "add", "count"} => logfiles_num + 1 <= Cardinality(sockets)
    /\ logfiles_num <= Cardinality(sockets) \/ Cardinality(sockets) > MaxFiles
    /\ acc \in {"clear", "reset", "add_again", "count_again"} \/ crashed =>
         Cardinality(sockets) > MaxFiles

\* Every step keeps RoomForAll.
LEMMA RoomNext == ASSUME TableInv, RoomForAll, [Next]_vars PROVE RoomForAll'
<1>. USE DEF AccAt, AccGoto
<1>1. TypeOK /\ logfiles_num \in 0..MaxFiles /\ MaxFiles \in Nat
  BY LoggerAssumption DEF TableInv, TypeOK
<1>2. IsFiniteSet(sockets) /\ Cardinality(sockets) \in Nat
  BY FS_CardinalityType DEF RoomForAll
<1>3. ASSUME NEW c \in Clients, AcceptClient(c) PROVE RoomForAll'
  <2>1. /\ acc = "accept" /\ acc' = "open" /\ c \notin sockets
        /\ sockets' = sockets \cup {c} /\ UNCHANGED <<logfiles_num, crashed>>
    BY <1>3 DEF AcceptClient, tableVars
  <2>2. IsFiniteSet(sockets') /\ Cardinality(sockets') = Cardinality(sockets) + 1
    BY <1>2, <2>1, FS_AddElement
  <2>. QED
    BY <1>1, <1>2, <2>1, <2>2 DEF RoomForAll
<1>4. ASSUME NEW from, NEW to, NEW full, AddFile(from, to, full),
             <<from, to, full>> \in {<<"add", "count", "clear">>,
                                    <<"add_again", "count_again", "lost">>}
      PROVE  RoomForAll'
  <2>1. acc = from /\ UNCHANGED <<logfiles_num, sockets, crashed>>
    BY <1>4 DEF AddFile
  <2>2. acc' = to \/ (acc' = full /\ logfiles_num = MaxFiles)
    BY <1>4 DEF AddFile
  <2>. QED
    BY <1>1, <1>2, <1>4, <2>1, <2>2 DEF RoomForAll
<1>5. ASSUME NEW from \in {"count", "count_again"}, CountFile(from) PROVE RoomForAll'
  <2>1. /\ acc = from /\ acc' = "accept" /\ logfiles_num' = logfiles_num + 1
        /\ UNCHANGED <<sockets, crashed>>
    BY <1>5 DEF CountFile
  <2>. QED
    BY <1>1, <1>2, <1>5, <2>1 DEF RoomForAll
<1>6. CASE ClearFiles \/ ResetNumber
  <2>1. /\ acc \in {"clear", "reset"} /\ acc' \in {"reset", "add_again"}
        /\ UNCHANGED <<sockets, crashed>>
    BY <1>6 DEF ClearFiles, ResetNumber
  <2>. QED
    BY <2>1 DEF RoomForAll
<1>7. CASE SetRemoteLogging \/ AddressUnknown \/ AcceptFails \/ OpenFile
  <2>1. /\ UNCHANGED <<logfiles_num, sockets, crashed>>
        /\ acc' # acc => /\ acc' \notin {"clear", "reset", "add_again", "count_again",
                                         "open", "count"}
                         /\ acc' = "add" => acc = "open"
    BY <1>7 DEF SetRemoteLogging, AddressUnknown, AcceptFails, OpenFile, tableVars, accVars
  <2>. QED
    BY <2>1 DEF RoomForAll
<1>8. ASSUME NEW t \in Tasks, Logging(t) \/ WriteReturns(t) PROVE RoomForAll'
  <2>1. UNCHANGED <<acc, logfiles_num, sockets>>
    BY <1>8 DEF Logging, LogCall, Lock, WriteFile, LoopEnds, WriteReturns, tableVars, accVars
  <2>2. CASE WriteFile(t)
    <3>1. /\ log[t].at = "loop" /\ log[t].i < logfiles_num
          /\ crashed' => logfiles[log[t].i] = NoFile
      BY <2>2 DEF WriteFile, LogAt
    <3>2. log[t].i \in Nat
      BY <1>1, <3>1, LoopFacts
    <3>3. log[t].i \in 0..(logfiles_num - 1)
      BY <1>1, <3>1, <3>2
    <3>4. crashed' => acc = "reset"
      BY <3>1, <3>3 DEF TableInv, TableInStep
    <3>. QED
      BY <2>1, <3>4 DEF RoomForAll
  <2>3. CASE ~WriteFile(t)
    <3>1. crashed' = crashed
      BY <1>8, <2>3 DEF Logging, LogCall, Lock, LoopEnds, WriteReturns
    <3>. QED
      BY <2>1, <3>1 DEF RoomForAll
  <2>. QED
    BY <2>2, <2>3
<1>9. CASE UNCHANGED vars
  BY <1>9 DEF vars, RoomForAll
<1>. QED
  BY <1>3, <1>4, <1>5, <1>6, <1>7, <1>8, <1>9 DEF Next, Accepting

\* While no more clients have come than the table has entries nothing is written
\* to NULL, in whatever order the tasks run.
THEOREM NullAfterFullTable == Spec => []NullNeedsFullTable
<1>1. Init => RoomForAll
  BY FS_EmptySet, LoggerAssumption DEF Init, RoomForAll
<1>2. TableInv /\ RoomForAll /\ [Next]_vars => RoomForAll'
  BY RoomNext
<1>3. RoomForAll => NullNeedsFullTable
  BY DEF RoomForAll, NullNeedsFullTable
<1>. QED
  BY <1>1, <1>2, <1>3, TableCorrect, PTL DEF Spec

\* With no more clients than entries a log file is never taken from a writer.
THEOREM NoNullWithFewClients ==
  ASSUME IsFiniteSet(Clients), Cardinality(Clients) <= MaxFiles
  PROVE  Spec => []NeverWritesToNull
<1>1. TypeOK /\ NullNeedsFullTable => NeverWritesToNull
  <2> SUFFICES ASSUME TypeOK, NullNeedsFullTable PROVE ~crashed
    BY DEF NeverWritesToNull
  <2>1. /\ Cardinality(sockets) \in Nat /\ Cardinality(Clients) \in Nat
        /\ Cardinality(sockets) <= Cardinality(Clients)
    BY FS_Subset, FS_CardinalityType DEF TypeOK
  <2>. QED
    BY <2>1, LoggerAssumption DEF NullNeedsFullTable
<1>. QED
  BY <1>1, LoggerTypes, NullAfterFullTable, PTL

\* No task waits for the mutex it has, and the task has not logged about a
\* closed listening socket.
HoldersWrite == NeverWaitsForItself /\ acc # "deaf"

\* If no client is gone before its address is logged and the listening socket
\* can be set up, no task waits for itself: AddressUnknown is the only way to it.
THEOREM NoSelfWaitWithLastingClients ==
  ASSUME ~PeerMayLeave, ~SetupMayFail
  PROVE  Spec => []NeverWaitsForItself
<1>1. Init => HoldersWrite
  BY DEF Init, HoldersWrite, NeverWaitsForItself
<1>2. LoggerInv /\ HoldersWrite /\ [Next]_vars => HoldersWrite'
  <2> SUFFICES ASSUME LoggerInv, HoldersWrite, [Next]_vars
               PROVE  HoldersWrite'
    OBVIOUS
  <2>1. TypeOK /\ MutexHeld /\ Accepter \in Tasks
    BY DEF LoggerInv, TableInv, Tasks
  <2> USE DEF HoldersWrite, NeverWaitsForItself, LogAt, LogGoto
  <2>2. CASE Accepting
    <3>1. mutex' = mutex /\ acc' # "deaf"
      BY <2>2
      DEF Accepting, SetRemoteLogging, AcceptClient, AddressUnknown, AcceptFails, OpenFile,
          AddFile, CountFile, ClearFiles, ResetNumber, accVars, AccGoto
    <3>2. log' = log \/ (log[Accepter].at = "idle" /\ log' = [log EXCEPT ![Accepter] = Waiting])
      BY <2>2
      DEF Accepting, SetRemoteLogging, AcceptClient, AddressUnknown, AcceptFails, OpenFile,
          AddFile, CountFile, ClearFiles, ResetNumber, AccLogs, AccAt
    <3>3. log[Accepter].at = "idle" => Accepter \notin mutex
      BY <2>1 DEF MutexHeld
    <3>. QED
      BY <2>1, <3>1, <3>2, <3>3 DEF TypeOK
  <2>3. ASSUME NEW t \in Tasks, Logging(t) \/ WriteReturns(t) PROVE HoldersWrite'
    <3>1. acc' = acc
      BY <2>3 DEF Logging, LogCall, Lock, WriteFile, LoopEnds, WriteReturns, accVars
    <3>2. CASE LogCall(t)
      <4>1. t \notin mutex /\ log' = [log EXCEPT ![t] = Waiting] /\ mutex' = mutex
        BY <2>1, <3>2 DEF LogCall, MutexHeld
      <4>. QED
        BY <2>1, <3>1, <4>1 DEF TypeOK
    <3>3. CASE Lock(t)
      <4>1. PICK part \in {1, Flush} : log' = [log EXCEPT ![t] = Looping(part, 0)]
        BY <3>3 DEF Lock
      <4>2. log'[t].at = "loop" /\ mutex' = {t}
        BY <2>1, <3>3, <4>1 DEF Lock, Looping, TypeOK
      <4>. QED
        BY <3>1, <4>2
    <3>4. CASE WriteFile(t)
      <4>1. /\ log'[t].at \in {"loop", "blocked"} /\ mutex' = mutex
            /\ \A u \in Tasks : u # t => log'[u] = log[u]
        BY <2>1, <3>4, LoopFacts DEF WriteFile
      <4>. QED
        BY <2>1, <3>1, <4>1 DEF TypeOK
    <3>5. CASE LoopEnds(t)
      <4>1. log'[t].at # "lock" /\ mutex' \subseteq mutex
        BY <2>1, <3>5 DEF LoopEnds, TypeOK, Looping, Idle
      <4>2. \A u \in Tasks : u # t => log'[u] = log[u]
        BY <2>1, <3>5 DEF LoopEnds, TypeOK
      <4>. QED
        BY <2>1, <3>1, <4>1, <4>2 DEF TypeOK
    <3>6. CASE WriteReturns(t)
      <4>1. /\ log'[t].at = "loop" /\ mutex' = mutex
            /\ \A u \in Tasks : u # t => log'[u] = log[u]
        BY <2>1, <3>6 DEF WriteReturns, TypeOK, Positions
      <4>. QED
        BY <2>1, <3>1, <4>1 DEF TypeOK
    <3>. QED
      BY <2>3, <3>2, <3>3, <3>4, <3>5, <3>6 DEF Logging
  <2>4. CASE UNCHANGED vars
    BY <2>4 DEF vars
  <2>. QED
    BY <2>2, <2>3, <2>4 DEF Next
<1>3. HoldersWrite => NeverWaitsForItself
  BY DEF HoldersWrite
<1>. QED
  BY <1>1, <1>2, <1>3, LoggerCorrect, PTL DEF Spec
=============================================================================
