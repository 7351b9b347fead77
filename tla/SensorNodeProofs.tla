-------------------------- MODULE SensorNodeProofs --------------------------
(***************************************************************************)
(* The safety properties of SensorNode for any number of connections, of   *)
(* samples, of lost command links and of image pieces.  The invariant has  *)
(* a part for each thing the tasks share: the update, the HTTP handles,    *)
(* the bus, and what a task collects and uploads in a cycle.  A separate   *)
(* one, about the handler and the update, shows that the update implements *)
(* ImageSlots.                                                             *)
(***************************************************************************)
EXTENDS SensorNode, TLAPS

\* An image is written only for another version, the restart is for a whole
\* image, and the handle of the update lives until it is finished.
UpdateInv ==
    /\ OtaTypeOK
    /\ ota \in {"perform", "complete", "finish", "done"} => newer
    /\ ota = "done" => switch /\ other
    /\ ota \in {"describe", "perform", "complete", "finish"} => updates > 0

\* The steps of a sampling task at which it has no handle.
Clientless == {"none", "start", "describe", "client", "init"}

\* A handle is made only by a task that has none.
ClientInv ==
    /\ HttpTypeOK
    /\ HandlesAccounted
    /\ \A n \in Tasks : at[n] \in Clientless => client[Sampler(n)] = "null"

\* The types of what the handler and the start of a task change.
StartTypes ==
    /\ handler \in {"idle", "ota", "ntp", "wait", "bus", "create"}
    /\ connections \in 0..Connections
    /\ pending \in 0..Connections
    /\ connections + pending <= Connections
    /\ sntp \in BOOLEAN /\ clock \in BOOLEAN /\ driver \in BOOLEAN
    /\ links \in 0..HeapLinks
    /\ bus \in [Tasks -> BOOLEAN]
    /\ at \in [Tasks -> {"none", "start", "describe", "client"} \cup Looping]
    /\ device \in [Tasks -> {"null", "raw", "ready"}]

\* Only the connection that installed the driver has a bus, only its task has
\* a sensor, and without a sensor no task reaches its loop.
BusInv ==
    /\ \A n \in Tasks : bus[n] => driver
    /\ \A m, n \in Tasks : bus[m] /\ bus[n] => m = n
    /\ \A n \in Tasks : device[n] # "null" => bus[n] /\ at[n] \notin {"none", "start"}
    /\ \A n \in Tasks : at[n] \in {"client"} \cup Looping => device[n] # "null"
    /\ \A n \in Tasks : n > connections => at[n] = "none"
    /\ handler # "idle" => connections \in Tasks /\ at[connections] = "none"

\* The steps of a sampling task before its loop.
Starting == {"none", "start", "describe", "client"}

\* What a task has collected, by the step it is at.
CycleInv(n) ==
    /\ at[n] \in Starting =>
         slots[n] = {} /\ good[n] = {} /\ avg[n] = NoSum /\ upload[n] = NoUpload
    /\ at[n] \in {"read", "average"} =>
         /\ slots[n] = good[n]
         /\ avg[n].old # {} \/ avg[n].own # {} => upload[n].failed
    /\ at[n] \in Uploading =>
         /\ slots[n] = {}
         /\ avg[n].own = good[n] \ {Samples}
         /\ avg[n].old # {} => upload[n].failed
    /\ at[n] \in {"read", "average", "post"} => upload[n].copies = 0 /\ upload[n].unknown = 0
    /\ at[n] \in {"deinit", "init", "repost"} =>
         upload[n].copies <= 1 /\ upload[n].copies = upload[n].unknown
    /\ at[n] \in {"sent", "unsent"} => slots[n] = {}
    /\ at[n] = "sent" => avg[n] = NoSum
    /\ upload[n].copies <= upload[n].unknown + 1

\* The types of what the tasks collect.
CycleTypes ==
    /\ iteration \in [Tasks -> 0..Samples]
    /\ slots \in [Tasks -> SUBSET (0..Samples)]
    /\ good \in [Tasks -> SUBSET (0..Samples)]
    /\ avg \in [Tasks -> Sums]
    /\ upload \in [Tasks -> Uploads]

NodeInv ==
    /\ UpdateInv
    /\ StartTypes
    /\ ClientInv
    /\ BusInv
    /\ CycleTypes
    /\ \A n \in Tasks : CycleInv(n)

-----------------------------------------------------------------------------

\* The parts of the invariant give the type invariant.
LEMMA TypesOfNode == ASSUME NodeInv PROVE TypeOK
BY DEF NodeInv, UpdateInv, ClientInv, StartTypes, CycleTypes, TypeOK

-----------------------------------------------------------------------------
(* The update *)

\* A step of the update, its start, a publication and a restart keep its part.
LEMMA UpdateKeeps ==
    ASSUME UpdateInv, OtaStart \/ OtaStep \/ Publish \/ OtaReset \/ UNCHANGED otaVars
    PROVE  UpdateInv'
<1>. USE PiecesAssumption DEF UpdateInv, OtaTypeOK
<1>1. CASE OtaStart
  BY <1>1 DEF OtaStart
<1>2. CASE OtaBegin
  BY <1>2 DEF OtaBegin
<1>3. CASE OtaDescribe
  BY <1>3 DEF OtaDescribe, Validates
<1>4. CASE OtaPerform
  <2>1. left' \in 0..Pieces
    BY <1>4 DEF OtaPerform
  <2>2. received' \in BOOLEAN /\ other' \in BOOLEAN /\ ota' \in {"perform", "complete"}
    BY <1>4, Zenon DEF OtaPerform
  <2>3. newer' = newer /\ switch' = switch /\ updates' = updates /\ ota = "perform"
    BY <1>4, Zenon DEF OtaPerform
  <2>. QED BY <2>1, <2>2, <2>3
<1>5. CASE OtaComplete
  BY <1>5 DEF OtaComplete
<1>6. CASE OtaFinish
  <2>1. updates' \in Nat
    BY <1>6 DEF OtaFinish
  <2>2. ota' \in {"done", "no"} /\ (ota' = "done" => switch' /\ other' /\ newer')
    BY <1>6, Zenon DEF OtaFinish
  <2>3. other' \in BOOLEAN /\ switch' \in BOOLEAN /\ newer' \in BOOLEAN
    BY <1>6, Zenon DEF OtaFinish
  <2>4. left' \in 0..Pieces /\ received' \in BOOLEAN
    BY <1>6 DEF OtaFinish
  <2>. QED BY <2>1, <2>2, <2>3, <2>4
<1>7. CASE Publish
  BY <1>7 DEF Publish
<1>8. CASE OtaReset
  <2>1. other' \in BOOLEAN /\ switch' \in BOOLEAN /\ newer' \in BOOLEAN /\ received' \in BOOLEAN
    BY <1>8, Zenon DEF OtaReset
  <2>2. ota' = "no" /\ left' \in 0..Pieces /\ updates' \in Nat
    BY <1>8 DEF OtaReset
  <2>. QED BY <2>1, <2>2
<1>9. CASE UNCHANGED otaVars
  BY <1>9 DEF otaVars
<1>. QED BY <1>1, <1>2, <1>3, <1>4, <1>5, <1>6, <1>7, <1>8, <1>9 DEF OtaStep

\* A step of a task leaves update and handler alone unless it is a panic.
LEMMA SampleLeavesUpdate ==
    ASSUME NEW n \in Tasks, Sample(n)
    PROVE  Restart \/ UNCHANGED <<otaVars, nodeVars>>
<1>1. CASE Panic(n)
  BY <1>1 DEF Panic
<1>2. CASE InitSensor(n) \/ Describe(n) \/ InitClient(n) \/ ReadSample(n) \/ Average(n) \/ NextCycle(n)
  BY <1>2 DEF InitSensor, Describe, InitClient, ReadSample, Average, NextCycle
<1>3. CASE Post(n) \/ DeinitClient(n) \/ ReinitClient(n) \/ PostAgain(n)
  BY <1>3 DEF Post, DeinitClient, ReinitClient, PostAgain
<1>. QED BY <1>1, <1>2, <1>3 DEF Sample

\* Every step keeps the update's part.
LEMMA UpdateStep == ASSUME UpdateInv, [Next]_vars PROVE UpdateInv'
<1>1. CASE GotIp \/ SetupNtp \/ WaitForNtp \/ InitBus \/ CreateTasks \/ ClockSet
  BY <1>1, UpdateKeeps DEF GotIp, SetupNtp, WaitForNtp, InitBus, CreateTasks, ClockSet
<1>2. CASE OnConnect \/ Update \/ NewVersion
  BY <1>2, UpdateKeeps DEF OnConnect, Update, NewVersion
<1>3. CASE OtaRestart \/ InspectHeap \/ PowerLoss
  BY <1>3, UpdateKeeps DEF OtaRestart, InspectHeap, PowerLoss, Restart
<1>4. ASSUME NEW n \in Tasks, Sample(n) PROVE UpdateInv'
  BY <1>4, UpdateKeeps, SampleLeavesUpdate DEF Restart
<1>5. ASSUME NEW n \in Tasks, Report(n) PROVE UpdateInv'
  BY <1>5, UpdateKeeps DEF Report
<1>6. CASE UNCHANGED vars
  BY <1>6, UpdateKeeps DEF vars
<1>. QED BY <1>1, <1>2, <1>3, <1>4, <1>5, <1>6 DEF Next, Handler

-----------------------------------------------------------------------------
(* The update implements ImageSlots *)

\* Only the handler updates, and a slot that is marked waits for the restart:
\* another update cannot begin before it.
UpdateInHandler ==
    /\ handler # "ota" => ota = "no"
    /\ switch => ota = "done"

SlotStep == Slots!Next \/ UNCHANGED Slots!slotVars

\* A step of the update writes the slot, marks it, or does neither.
LEMMA UpdateStepsSlots ==
    ASSUME UpdateInv, UpdateInHandler, Update
    PROVE  SlotStep /\ UpdateInHandler'
<1>. USE DEF SlotStep, Slots!Next, Slots!slotVars
<1>1. handler = "ota" /\ (handler' # "ota" => ota' = "no")
  BY DEF Update
<1>2. CASE OtaBegin \/ OtaDescribe \/ OtaComplete
  <2>1. UNCHANGED <<other, switch, newer>> /\ ota # "done"
    BY <1>2 DEF OtaBegin, OtaDescribe, OtaComplete
  <2>. QED BY <1>1, <2>1 DEF UpdateInHandler
<1>3. CASE OtaPerform
  <2>1. /\ ota = "perform" /\ newer /\ ~switch
        /\ other' \in BOOLEAN /\ switch' = switch /\ newer' = newer
    <3>1. ota = "perform" /\ UNCHANGED <<switch, newer>>
      BY <1>3 DEF OtaPerform
    <3>2. other' \in BOOLEAN
      BY <1>3, Zenon DEF OtaPerform, UpdateInv, OtaTypeOK
    <3>. QED BY <3>1, <3>2 DEF UpdateInv, UpdateInHandler
  <2>2. Slots!Write
    BY <2>1 DEF Slots!Write
  <2>. QED BY <1>1, <2>1, <2>2 DEF UpdateInHandler
<1>4. CASE OtaFinish
  <2>1. ota = "finish" /\ newer /\ ~switch /\ UNCHANGED <<other, newer>>
    BY <1>4 DEF OtaFinish, UpdateInv, UpdateInHandler
  <2>2. CASE other /\ switch' = TRUE /\ ota' = "done"
    <3>1. Slots!Mark
      BY <2>1, <2>2 DEF Slots!Mark
    <3>. QED BY <1>1, <2>2, <3>1 DEF UpdateInHandler
  <2>3. CASE ota' = "no" /\ UNCHANGED switch
    BY <2>1, <2>3 DEF UpdateInHandler
  <2>. QED BY <1>4, <2>2, <2>3 DEF OtaFinish
<1>. QED BY <1>2, <1>3, <1>4 DEF Update, OtaStep

\* A restart starts the marked slot, which holds a whole image by then.
LEMMA RestartBoots ==
    ASSUME UpdateInv, UpdateInHandler, Restart
    PROVE  SlotStep /\ UpdateInHandler'
<1>1. OtaReset /\ handler' = "idle"
  BY DEF Restart
<1>2. ota' = "no" /\ switch' = FALSE /\ newer' = (newer /\ ~switch) /\ UNCHANGED other
  BY <1>1 DEF OtaReset
<1>3. switch => newer /\ other
  BY DEF UpdateInv, UpdateInHandler
<1>4. Slots!Boot
  BY <1>2, <1>3, Zenon DEF Slots!Boot
<1>. QED BY <1>1, <1>2, <1>4 DEF UpdateInHandler, SlotStep, Slots!Next

\* Every step of the firmware is a step of the slots, or none of theirs.
LEMMA NodeStepsSlots ==
    ASSUME UpdateInv, UpdateInHandler, [Next]_vars
    PROVE  SlotStep /\ UpdateInHandler'
<1>. DEFINE Steps == SlotStep /\ UpdateInHandler'
<1>1. ASSUME UNCHANGED otaVars, handler' = "ota" => handler = "ota" \/ ota = "no",
             handler' # "ota" => handler # "ota"
      PROVE  Steps
  BY <1>1 DEF otaVars, UpdateInHandler, SlotStep, Slots!slotVars
<1>2. CASE GotIp \/ SetupNtp \/ WaitForNtp \/ InitBus \/ CreateTasks \/ ClockSet
  BY <1>1, <1>2 DEF GotIp, SetupNtp, WaitForNtp, InitBus, CreateTasks, ClockSet
<1>3. CASE OnConnect
  BY <1>3 DEF OnConnect, OtaStart, UpdateInHandler, SlotStep, Slots!slotVars
<1>4. CASE Update
  BY <1>4, UpdateStepsSlots
<1>5. CASE NewVersion
  <2>1. Slots!Publish /\ ota' = ota /\ switch' = switch /\ handler' = handler
    BY <1>5 DEF NewVersion, Publish, Slots!Publish, nodeVars
  <2>. QED BY <2>1 DEF UpdateInHandler, SlotStep, Slots!Next
<1>6. CASE OtaRestart \/ InspectHeap \/ PowerLoss
  BY <1>6, RestartBoots DEF OtaRestart, InspectHeap, PowerLoss
<1>7. ASSUME NEW n \in Tasks, Sample(n) PROVE Steps
  BY <1>1, <1>7, SampleLeavesUpdate, RestartBoots DEF nodeVars
<1>8. ASSUME NEW n \in Tasks, Report(n) PROVE Steps
  BY <1>1, <1>8 DEF Report, nodeVars
<1>9. CASE UNCHANGED vars
  BY <1>1, <1>9 DEF vars, nodeVars
<1>. QED BY <1>2, <1>3, <1>4, <1>5, <1>6, <1>7, <1>8, <1>9 DEF Next, Handler

-----------------------------------------------------------------------------
(* The HTTP handles *)

\* The requesters of different tasks are different.
LEMMA RequestersDiffer ==
    ASSUME NEW m \in Tasks, NEW n \in Tasks
    PROVE  /\ Sampler(n) \in Requesters /\ Reporter(n) \in Requesters
           /\ Sampler(m) # Reporter(n)
           /\ Sampler(m) = Sampler(n) => m = n
BY DEF Sampler, Reporter, Requesters

\* A handle made by a requester without one keeps the account.
LEMMA OpenKeeps ==
    ASSUME HttpTypeOK, HandlesAccounted, NEW c \in Requesters, client[c] = "null", OpenHandle(c)
    PROVE  /\ HttpTypeOK' /\ HandlesAccounted'
           /\ \A d \in Requesters : d # c => client'[d] = client[d]
BY DEF HttpTypeOK, HandlesAccounted, OpenHandle

\* So does one that is cleaned up, and its requester has none afterwards.
LEMMA CloseKeeps ==
    ASSUME HttpTypeOK, HandlesAccounted, NEW c \in Requesters, CloseHandle(c)
    PROVE  /\ HttpTypeOK' /\ HandlesAccounted'
           /\ client'[c] = "null"
           /\ \A d \in Requesters : d # c => client'[d] = client[d]
BY DEF HttpTypeOK, HandlesAccounted, CloseHandle

\* A restart leaves no handle, and no task.
LEMMA ClientReset == ASSUME HttpReset, TasksReset PROVE ClientInv'
<1>1. \A n \in Tasks : Sampler(n) \in Requesters
  BY RequestersDiffer
<1>. QED BY <1>1 DEF HttpReset, TasksReset, ClientInv, HttpTypeOK, HandlesAccounted

\* A task that moves without touching its handle keeps the account, unless it
\* comes to a step without a handle.
LEMMA GotoKeepsClient ==
    ASSUME ClientInv, StartTypes, NEW n \in Tasks, NEW step, Goto(n, step),
           UNCHANGED httpVars, step \in Clientless => at[n] \in Clientless
    PROVE  ClientInv'
<1>1. \A m \in Tasks : at'[m] = IF m = n THEN step ELSE at[m]
  BY DEF Goto, StartTypes
<1>2. HttpTypeOK' /\ HandlesAccounted' /\ client' = client
  BY DEF ClientInv, HttpTypeOK, HandlesAccounted, httpVars
<1>. QED BY <1>1, <1>2 DEF ClientInv

\* A sampling task keeps the account.
LEMMA SampleKeepsClient ==
    ASSUME ClientInv, StartTypes, NEW n \in Tasks, Sample(n)
    PROVE  ClientInv'
<1>. USE DEF ClientInv, Clientless
<1>1. CASE Panic(n)
  BY <1>1, ClientReset DEF Panic, Restart
<1>2. CASE InitSensor(n) \/ Describe(n)
  <2>1. PICK step \in Clientless : Goto(n, step)
    BY <1>2 DEF InitSensor, Describe
  <2>. QED BY <1>2, <2>1, GotoKeepsClient DEF InitSensor, Describe, httpVars
<1>3. ASSUME client[Sampler(n)] = "null", InitReuse(Sampler(n)),
             \E step \in {"read", "repost"} : Goto(n, step)
      PROVE  ClientInv'
  <2>1. PICK step \in {"read", "repost"} : Goto(n, step)
    BY <1>3
  <2>2. \A m \in Tasks : m # n => at'[m] = at[m]
    BY <2>1 DEF Goto, StartTypes
  <2>3. at'[n] = step
    BY <2>1 DEF Goto, StartTypes
  <2>4. /\ HttpTypeOK' /\ HandlesAccounted'
        /\ \A d \in Requesters : d # Sampler(n) => client'[d] = client[d]
    BY <1>3, RequestersDiffer, OpenKeeps DEF InitReuse
  <2>5. \A m \in Tasks : m # n => client'[Sampler(m)] = client[Sampler(m)]
    BY <2>4, RequestersDiffer
  <2>. QED BY <2>2, <2>3, <2>4, <2>5
<1>4. CASE InitClient(n)
  BY <1>3, <1>4 DEF InitClient
<1>5. CASE ReinitClient(n)
  BY <1>3, <1>5 DEF ReinitClient
<1>6. CASE ReadSample(n)
  <2>1. at[n] = "read" /\ UNCHANGED httpVars
    BY <1>6 DEF ReadSample, httpVars
  <2>2. CASE Goto(n, "average")
    BY <2>1, <2>2, GotoKeepsClient
  <2>3. CASE UNCHANGED at
    BY <2>1, <2>3 DEF httpVars, HttpTypeOK, HandlesAccounted
  <2>. QED BY <1>6, <2>2, <2>3 DEF ReadSample
<1>7. CASE Average(n) \/ NextCycle(n)
  <2>1. PICK step \in {"post", "read"} : Goto(n, step)
    BY <1>7 DEF Average, NextCycle
  <2>2. UNCHANGED httpVars
    BY <1>7 DEF Average, NextCycle, httpVars
  <2>. QED BY <2>1, <2>2, GotoKeepsClient
<1>8. CASE Post(n) \/ PostAgain(n)
  <2>1. PICK step \in {"sent", "deinit", "unsent"} : Goto(n, step)
    BY <1>8 DEF Post, PostAgain
  <2>2. UNCHANGED httpVars
    BY <1>8 DEF Post, PostAgain, httpVars
  <2>. QED BY <2>1, <2>2, GotoKeepsClient
<1>9. CASE DeinitClient(n)
  <2>1. \A m \in Tasks : m # n => at'[m] = at[m]
    BY <1>9 DEF DeinitClient, Goto, StartTypes
  <2>2. /\ HttpTypeOK' /\ HandlesAccounted' /\ client'[Sampler(n)] = "null"
        /\ \A d \in Requesters : d # Sampler(n) => client'[d] = client[d]
    BY <1>9, RequestersDiffer, CloseKeeps DEF DeinitClient, DeinitReuse
  <2>3. \A m \in Tasks : m # n => client'[Sampler(m)] = client[Sampler(m)]
    BY <2>2, RequestersDiffer
  <2>. QED BY <2>1, <2>2, <2>3
<1>. QED BY <1>1, <1>2, <1>4, <1>5, <1>6, <1>7, <1>8, <1>9 DEF Sample

\* A reporting task keeps the account.
LEMMA ReportKeepsClient ==
    ASSUME ClientInv, NEW n \in Tasks, Report(n)
    PROVE  ClientInv'
<1>. USE DEF ClientInv
<1>1. UNCHANGED at
  BY DEF Report, taskVars
<1>2. CASE PostEnd(Reporter(n))
  <2>1. /\ HttpTypeOK' /\ HandlesAccounted'
        /\ \A d \in Requesters : d # Reporter(n) => client'[d] = client[d]
    BY <1>2, RequestersDiffer, CloseKeeps DEF PostEnd
  <2>. QED BY <1>1, <2>1, RequestersDiffer
<1>3. CASE PostBegin(Reporter(n))
  <2>1. client[Reporter(n)] = "null" /\ OpenHandle(Reporter(n))
    BY <1>3 DEF PostBegin, OpenHandle
  <2>2. /\ HttpTypeOK' /\ HandlesAccounted'
        /\ \A d \in Requesters : d # Reporter(n) => client'[d] = client[d]
    BY <2>1, RequestersDiffer, OpenKeeps
  <2>. QED BY <1>1, <2>2, RequestersDiffer
<1>. QED BY <1>2, <1>3 DEF Report

\* Every step keeps the account.
LEMMA ClientStep == ASSUME ClientInv, StartTypes, BusInv, [Next]_vars PROVE ClientInv'
<1>1. CASE UNCHANGED <<client, handles, at>>
  BY <1>1 DEF ClientInv, HttpTypeOK, HandlesAccounted
<1>2. CASE GotIp \/ SetupNtp \/ WaitForNtp \/ InitBus \/ ClockSet
  BY <1>1, <1>2 DEF GotIp, SetupNtp, WaitForNtp, InitBus, ClockSet, taskVars
<1>3. CASE OnConnect \/ Update \/ NewVersion
  BY <1>1, <1>3 DEF OnConnect, Update, NewVersion, taskVars
<1>4. CASE OtaRestart \/ InspectHeap \/ PowerLoss
  BY <1>4, ClientReset DEF OtaRestart, InspectHeap, PowerLoss, Restart
<1>5. CASE CreateTasks
  <2>1. connections \in Tasks /\ at[connections] = "none"
    BY <1>5 DEF CreateTasks, BusInv
  <2>2. Goto(connections, "start") /\ UNCHANGED httpVars
    BY <1>5 DEF CreateTasks, Goto, httpVars
  <2>. QED BY <2>1, <2>2, GotoKeepsClient DEF Clientless
<1>6. ASSUME NEW n \in Tasks, Sample(n) PROVE ClientInv'
  BY <1>6, SampleKeepsClient
<1>7. ASSUME NEW n \in Tasks, Report(n) PROVE ClientInv'
  BY <1>7, ReportKeepsClient
<1>8. CASE UNCHANGED vars
  BY <1>1, <1>8 DEF vars, taskVars
<1>. QED BY <1>2, <1>3, <1>4, <1>5, <1>6, <1>7, <1>8 DEF Next, Handler

-----------------------------------------------------------------------------
(* The handler, the bus and the start of a task *)

startVars == <<handler, pending, connections, sntp, clock, driver, links, bus, at, device>>

\* What no step of the handler and no sensor changes.
LEMMA StartUnchanged ==
    ASSUME StartTypes, BusInv, UNCHANGED startVars
    PROVE  StartTypes' /\ BusInv'
BY DEF StartTypes, BusInv, startVars

\* A restart.
LEMMA StartReset == ASSUME Restart PROVE StartTypes' /\ BusInv'
<1>1. /\ handler' = "idle" /\ pending' = 0 /\ connections' = 0 /\ links' = 0
      /\ sntp' = FALSE /\ clock' = FALSE /\ driver' = FALSE
      /\ bus' = [n \in Tasks |-> FALSE]
      /\ at' = [n \in Tasks |-> "none"] /\ device' = [n \in Tasks |-> "null"]
  BY Zenon DEF Restart, TasksReset
<1>2. 0 \in 0..Connections /\ 0 + 0 <= Connections /\ 0 \in 0..HeapLinks
  BY NodeAssumption
<1>3. bus' \in [Tasks -> BOOLEAN]
  BY <1>1, Zenon
<1>4. StartTypes'
  BY <1>1, <1>2, <1>3 DEF StartTypes
<1>5. \A n \in Tasks : ~bus'[n] /\ at'[n] = "none" /\ device'[n] = "null"
  BY <1>1, Zenon
<1>. QED BY <1>1, <1>4, <1>5 DEF BusInv, Looping, Uploading

\* The handler, and what happens outside, keep types and bus.
LEMMA HandlerKeepsStart ==
    ASSUME StartTypes, BusInv,
           GotIp \/ OnConnect \/ Update \/ SetupNtp \/ WaitForNtp \/ InitBus \/ CreateTasks
           \/ ClockSet
    PROVE  StartTypes' /\ BusInv'
<1>. USE NodeAssumption DEF Tasks
<1>1. CASE GotIp
  BY <1>1 DEF GotIp, StartTypes, BusInv, taskVars
<1>2. CASE OnConnect
  BY <1>2 DEF OnConnect, StartTypes, BusInv, taskVars
<1>3. CASE Update
  <2>1. handler' \in {"ota", "ntp"} /\ handler = "ota"
    BY <1>3 DEF Update
  <2>. QED BY <1>3, <2>1 DEF Update, StartTypes, BusInv, taskVars
<1>4. CASE SetupNtp
  <2>1. handler' \in {"bus", "wait"} /\ handler = "ntp"
    BY <1>4 DEF SetupNtp
  <2>. QED BY <1>4, <2>1 DEF SetupNtp, StartTypes, BusInv, taskVars
<1>5. CASE WaitForNtp
  BY <1>5 DEF WaitForNtp, StartTypes, BusInv, taskVars
<1>6. CASE ClockSet
  BY <1>6 DEF ClockSet, StartTypes, BusInv, taskVars
<1>7. CASE InitBus
  <2>1. connections \in Tasks /\ at[connections] = "none" /\ handler' = "create"
    BY <1>7 DEF InitBus, BusInv
  <2>2. UNCHANGED <<pending, connections, sntp, clock, links, at, device>>
    BY <1>7 DEF InitBus, taskVars
  <2>3. CASE UNCHANGED <<driver, bus>>
    BY <2>1, <2>2, <2>3 DEF StartTypes, BusInv
  <2>4. CASE ~driver /\ driver' = TRUE /\ bus' = [bus EXCEPT ![connections] = TRUE]
    <3>1. driver' = TRUE
      BY <2>4, Zenon
    <3>2. \A n \in Tasks : n # connections => bus'[n] = bus[n] /\ ~bus[n]
      BY <2>1, <2>4 DEF StartTypes, BusInv
    <3>3. bus' \in [Tasks -> BOOLEAN]
      BY <2>4, Zenon DEF StartTypes
    <3>4. StartTypes'
      BY <2>1, <2>2, <3>1, <3>3 DEF StartTypes
    <3>5. \A m, n \in Tasks : bus'[m] /\ bus'[n] => m = n
      BY <3>2, Zenon
    <3>6. \A n \in Tasks : device'[n] # "null" => bus'[n] /\ at'[n] \notin {"none", "start"}
      <4>1. device[connections] = "null"
        BY <2>1 DEF BusInv
      <4>. QED BY <2>2, <3>2, <4>1 DEF BusInv
    <3>. QED BY <2>1, <2>2, <3>1, <3>4, <3>5, <3>6 DEF BusInv
  <2>. QED BY <1>7, <2>3, <2>4 DEF InitBus
<1>8. CASE CreateTasks
  <2>1. connections \in Tasks /\ at[connections] = "none" /\ handler' = "idle"
    BY <1>8 DEF CreateTasks, BusInv
  <2>2. UNCHANGED <<pending, connections, sntp, clock, driver, links, bus, device>>
    BY <1>8 DEF CreateTasks
  <2>3. \A n \in Tasks : at'[n] = IF n = connections THEN "start" ELSE at[n]
    BY <1>8, <2>1 DEF CreateTasks, StartTypes
  <2>4. StartTypes'
    BY <1>8, <2>1, <2>2 DEF CreateTasks, StartTypes
  <2>5. device[connections] = "null"
    BY <2>1 DEF BusInv
  <2>. QED BY <2>1, <2>2, <2>3, <2>4, <2>5 DEF BusInv, Looping, Uploading, StartTypes
<1>. QED BY <1>1, <1>2, <1>3, <1>4, <1>5, <1>6, <1>7, <1>8

\* A sampling task that has a sensor, or does not enter its loop, may go on.
LEMMA GotoKeepsStart ==
    ASSUME StartTypes, BusInv, NEW n \in Tasks, NEW step \in {"describe", "client"} \cup Looping,
           Goto(n, step), UNCHANGED <<nodeVars, device>>, links' \in 0..HeapLinks,
           at[n] # "none", step # "describe" => device[n] # "null"
    PROVE  StartTypes' /\ BusInv'
<1>1. \A m \in Tasks : at'[m] = IF m = n THEN step ELSE at[m]
  BY DEF Goto, StartTypes
<1>2. at' \in [Tasks -> {"none", "start", "describe", "client"} \cup Looping]
  BY DEF Goto, StartTypes
<1>3. StartTypes'
  BY <1>2 DEF StartTypes, nodeVars
<1>4. n <= connections /\ (handler # "idle" => n # connections)
  BY NodeAssumption DEF BusInv, Tasks, StartTypes
<1>5. step \notin {"none", "start"}
  BY DEF Looping, Uploading
<1>6. UNCHANGED <<handler, connections, driver, bus, device>>
  BY DEF nodeVars
<1>7. \A m \in Tasks : device'[m] # "null" => bus'[m] /\ at'[m] \notin {"none", "start"}
  BY <1>1, <1>5, <1>6 DEF BusInv
<1>8. \A m \in Tasks : at'[m] \in {"client"} \cup Looping => device'[m] # "null"
  BY <1>1, <1>6 DEF BusInv, Looping, Uploading
<1>9. \A m \in Tasks : m > connections' => at'[m] = "none"
  BY <1>1, <1>4, <1>6 DEF BusInv, Tasks, StartTypes
<1>10. handler' # "idle" => connections' \in Tasks /\ at'[connections'] = "none"
  BY <1>1, <1>4, <1>6 DEF BusInv
<1>. QED BY <1>3, <1>6, <1>7, <1>8, <1>9, <1>10 DEF BusInv

\* Lost command links stay within the limit.
LEMMA LinksWithin ==
    ASSUME StartTypes, NEW k \in Nat, LoseLinks(k)
    PROVE  links' \in 0..HeapLinks
BY NodeAssumption DEF StartTypes, LoseLinks

\* A sampling task keeps types and bus.
LEMMA SampleKeepsStart ==
    ASSUME StartTypes, BusInv, NEW n \in Tasks, Sample(n)
    PROVE  StartTypes' /\ BusInv'
<1>. USE DEF Looping, Uploading
<1>0. links \in 0..HeapLinks /\ (at[n] \in {"client"} \cup Looping => device[n] # "null")
  BY DEF StartTypes, BusInv
<1>1. CASE Panic(n)
  BY <1>1, StartReset DEF Panic
<1>2. CASE InitSensor(n)
  <2>1. links' \in 0..HeapLinks
    BY <1>0, <1>2, LinksWithin DEF InitSensor
  <2>2. at[n] = "start" /\ Goto(n, "describe") /\ UNCHANGED nodeVars
    BY <1>2 DEF InitSensor
  <2>3. CASE device' = device
    BY <2>1, <2>2, <2>3, GotoKeepsStart
  <2>4. CASE bus[n] /\ \E d \in {"raw", "ready"} : device' = [device EXCEPT ![n] = d]
    <3>1. \A m \in Tasks : m # n => device'[m] = device[m] /\ at'[m] = at[m]
      BY <2>2, <2>4 DEF StartTypes, Goto
    <3>2. device'[n] # "null" /\ at'[n] = "describe"
      BY <2>2, <2>4 DEF StartTypes, Goto
    <3>3. StartTypes'
      BY <2>1, <2>2, <2>4 DEF StartTypes, Goto, nodeVars
    <3>4. n <= connections /\ (handler # "idle" => n # connections)
      BY <2>2, NodeAssumption DEF BusInv, Tasks, StartTypes
    <3>. QED BY <2>2, <2>4, <3>1, <3>2, <3>3, <3>4 DEF BusInv, nodeVars
  <2>. QED BY <1>2, <2>3, <2>4 DEF InitSensor
<1>3. CASE Describe(n)
  BY <1>0, <1>3, GotoKeepsStart DEF Describe
<1>4. CASE InitClient(n) \/ Average(n)
  <2>1. PICK step \in {"read", "post"} : Goto(n, step)
    BY <1>4 DEF InitClient, Average
  <2>. QED BY <1>0, <1>4, <2>1, GotoKeepsStart DEF InitClient, Average
<1>5. CASE ReadSample(n)
  <2>1. links' \in 0..HeapLinks /\ at[n] = "read" /\ UNCHANGED <<nodeVars, device>>
    BY <1>0, <1>5, LinksWithin DEF ReadSample
  <2>2. CASE Goto(n, "average")
    BY <1>0, <2>1, <2>2, GotoKeepsStart
  <2>3. CASE UNCHANGED at
    BY <2>1, <2>3 DEF StartTypes, BusInv, nodeVars
  <2>. QED BY <1>5, <2>2, <2>3 DEF ReadSample
<1>6. CASE Post(n) \/ PostAgain(n)
  <2>1. PICK step \in {"sent", "deinit", "unsent"} : Goto(n, step)
    BY <1>6 DEF Post, PostAgain
  <2>. QED BY <1>0, <1>6, <2>1, GotoKeepsStart DEF Post, PostAgain
<1>7. CASE DeinitClient(n) \/ ReinitClient(n)
  <2>1. PICK step \in {"init", "repost"} : Goto(n, step)
    BY <1>7 DEF DeinitClient, ReinitClient
  <2>. QED BY <1>0, <1>7, <2>1, GotoKeepsStart DEF DeinitClient, ReinitClient
<1>8. CASE NextCycle(n)
  BY <1>0, <1>8, GotoKeepsStart DEF NextCycle
<1>. QED BY <1>1, <1>2, <1>3, <1>4, <1>5, <1>6, <1>7, <1>8 DEF Sample

\* Every step keeps types and bus.
LEMMA StartStep == ASSUME StartTypes, BusInv, [Next]_vars PROVE StartTypes' /\ BusInv'
<1>1. CASE GotIp \/ SetupNtp \/ WaitForNtp \/ InitBus \/ ClockSet \/ OnConnect \/ Update \/ CreateTasks
  BY <1>1, HandlerKeepsStart
<1>2. CASE NewVersion
  BY <1>2, StartUnchanged DEF NewVersion, startVars, nodeVars, taskVars
<1>3. CASE OtaRestart \/ InspectHeap \/ PowerLoss
  BY <1>3, StartReset DEF OtaRestart, InspectHeap, PowerLoss
<1>4. ASSUME NEW n \in Tasks, Sample(n) PROVE StartTypes' /\ BusInv'
  BY <1>4, SampleKeepsStart
<1>5. ASSUME NEW n \in Tasks, Report(n) PROVE StartTypes' /\ BusInv'
  BY <1>5, StartUnchanged DEF Report, startVars, nodeVars, taskVars
<1>6. CASE UNCHANGED vars
  BY <1>6, StartUnchanged DEF vars, startVars, nodeVars, taskVars
<1>. QED BY <1>1, <1>2, <1>3, <1>4, <1>5, <1>6 DEF Next, Handler

-----------------------------------------------------------------------------
(* The cycle of a sampling task *)

\* What a task has collected and where it is.
OfTask(n) == <<at[n], iteration[n], slots[n], good[n], avg[n], upload[n]>>

\* The markers.
LEMMA Markers ==
    /\ NoSum \in Sums /\ NoSum.own = {} /\ NoSum.old = {}
    /\ NoUpload \in Uploads /\ NoUpload.copies = 0 /\ NoUpload.unknown = 0
    /\ AfterFailure \in Uploads /\ AfterFailure.copies = 0 /\ AfterFailure.unknown = 0
    /\ AfterFailure.failed
BY DEF NoSum, Sums, NoUpload, AfterFailure, Uploads

\* Fields of the sums and uploads.
LEMMA Fields ==
    ASSUME CycleTypes, NEW n \in Tasks
    PROVE  /\ avg[n].own \in SUBSET (0..(Samples - 1)) /\ avg[n].old \in SUBSET (0..(Samples - 1))
           /\ upload[n].copies \in 0..2 /\ upload[n].unknown \in 0..2
           /\ upload[n].failed \in BOOLEAN
BY DEF CycleTypes, Sums, Uploads

\* A task that changes only where it is.
LEMMA OnlyMoves ==
    ASSUME StartTypes, CycleTypes, \A m \in Tasks : CycleInv(m),
           NEW n \in Tasks, NEW step, Goto(n, step),
           UNCHANGED <<iteration, slots, good, avg, upload>>,
           \/ at[n] \in Starting /\ step \in Starting
           \/ at[n] \in {"deinit", "init"} /\ step \in {"init", "repost"}
    PROVE  CycleTypes' /\ \A m \in Tasks : CycleInv(m)'
<1>1. \A m \in Tasks : at'[m] = IF m = n THEN step ELSE at[m]
  BY DEF Goto, StartTypes
<1>2. ASSUME NEW m \in Tasks PROVE CycleInv(m)'
  BY <1>1 DEF CycleInv, Starting, Uploading
<1>. QED BY <1>2 DEF CycleTypes

\* The start of the loop: nothing was collected before.
LEMMA InitClientKeeps ==
    ASSUME StartTypes, CycleTypes, \A m \in Tasks : CycleInv(m), NEW n \in Tasks, InitClient(n)
    PROVE  CycleTypes' /\ \A m \in Tasks : CycleInv(m)'
<1>1. \A m \in Tasks : at'[m] = IF m = n THEN "read" ELSE at[m]
  BY DEF InitClient, Goto, StartTypes
<1>2. at[n] = "client" /\ UNCHANGED <<iteration, slots, good, avg, upload>>
  BY DEF InitClient
<1>3. ASSUME NEW m \in Tasks PROVE CycleInv(m)'
  BY <1>1, <1>2, Markers DEF CycleInv, Starting, Uploading
<1>. QED BY <1>2, <1>3 DEF CycleTypes

\* A reading.
LEMMA ReadKeeps ==
    ASSUME StartTypes, CycleTypes, \A m \in Tasks : CycleInv(m), NEW n \in Tasks, ReadSample(n)
    PROVE  CycleTypes' /\ \A m \in Tasks : CycleInv(m)'
<1>. USE NodeAssumption
<1>1. at[n] = "read" /\ UNCHANGED <<avg, upload>>
  BY DEF ReadSample
<1>2. /\ \A m \in Tasks : m # n => at'[m] = at[m] /\ slots'[m] = slots[m] /\ good'[m] = good[m]
      /\ at'[n] \in {"read", "average"} /\ slots'[n] = good'[n]
  <2>1. slots[n] = good[n]
    BY <1>1 DEF CycleInv
  <2>2. \A m \in Tasks : m # n => at'[m] = at[m]
    BY DEF ReadSample, Goto, StartTypes
  <2>3. at'[n] \in {"read", "average"}
    BY <1>1 DEF ReadSample, Goto, StartTypes
  <2>. QED BY <2>1, <2>2, <2>3 DEF ReadSample, CycleTypes
<1>3. CycleTypes'
  BY DEF ReadSample, CycleTypes
<1>4. ASSUME NEW m \in Tasks PROVE CycleInv(m)'
  BY <1>1, <1>2 DEF CycleInv, Starting, Uploading
<1>. QED BY <1>3, <1>4

\* The averages.
LEMMA AverageKeeps ==
    ASSUME StartTypes, CycleTypes, \A m \in Tasks : CycleInv(m), NEW n \in Tasks, Average(n)
    PROVE  CycleTypes' /\ \A m \in Tasks : CycleInv(m)'
<1>. DEFINE sum == [own |-> slots[n] \cap 0..(Samples - 1), old |-> avg[n].old \cup avg[n].own]
<1>1. at[n] = "average" /\ UNCHANGED <<good, upload>>
  BY DEF Average
<1>2. \A m \in Tasks : at'[m] = IF m = n THEN "post" ELSE at[m]
  BY DEF Average, Goto, StartTypes
<1>3. sum \in Sums
  BY Fields DEF Sums
<1>4. avg' = [avg EXCEPT ![n] = sum] /\ slots' = [slots EXCEPT ![n] = {}]
      /\ iteration' = [iteration EXCEPT ![n] = 0]
  BY DEF Average
<1>5. CycleTypes'
  BY <1>1, <1>3, <1>4, NodeAssumption DEF CycleTypes
<1>6. \A m \in Tasks : m # n => slots'[m] = slots[m] /\ avg'[m] = avg[m]
  BY <1>4 DEF CycleTypes
<1>7. /\ slots'[n] = {}
      /\ avg'[n].own = good[n] \ {Samples}
      /\ avg'[n].old # {} => upload[n].failed
  <2>1. avg'[n] = sum /\ slots'[n] = {}
    BY <1>4 DEF CycleTypes
  <2>2. slots[n] = good[n] /\ good[n] \in SUBSET (0..Samples)
        /\ (avg[n].old # {} \/ avg[n].own # {} => upload[n].failed)
    BY <1>1 DEF CycleInv, CycleTypes
  <2>3. slots[n] \cap 0..(Samples - 1) = good[n] \ {Samples}
    BY <2>2, NodeAssumption
  <2>. QED BY <2>1, <2>2, <2>3
<1>8. ASSUME NEW m \in Tasks PROVE CycleInv(m)'
  BY <1>1, <1>2, <1>6, <1>7 DEF CycleInv, Starting, Uploading
<1>. QED BY <1>5, <1>8

\* What a request adds to the account of copies.
LEMMA SentCounts ==
    ASSUME CycleTypes, NEW n \in Tasks, NEW outcome \in Outcomes, Sent(n, outcome),
           upload[n].copies <= 1, upload[n].copies = upload[n].unknown
    PROVE  /\ upload' \in [Tasks -> Uploads]
           /\ \A m \in Tasks : m # n => upload'[m] = upload[m]
           /\ upload'[n].failed = upload[n].failed
           /\ upload'[n].copies <= upload'[n].unknown + 1
           /\ outcome # "answered" => upload'[n].copies = upload'[n].unknown
           /\ upload'[n].copies <= upload[n].copies + 1
<1>. DEFINE copies == IF outcome = "unsent" THEN upload[n].copies ELSE upload[n].copies + 1
            unknown == IF outcome = "unanswered" THEN upload[n].unknown + 1 ELSE upload[n].unknown
            next == [copies |-> copies, unknown |-> unknown, failed |-> upload[n].failed]
<1>1. upload' = [upload EXCEPT ![n] = next]
  BY DEF Sent
<1>2. next \in Uploads
  BY Fields DEF Uploads
<1>3. upload'[n] = next
  BY <1>1 DEF CycleTypes
<1>. QED BY <1>1, <1>2, <1>3, Fields DEF CycleTypes, Outcomes

\* An upload that ends the attempt or goes on to the next.
LEMMA PostsKeep ==
    ASSUME StartTypes, CycleTypes, \A m \in Tasks : CycleInv(m), NEW n \in Tasks,
           Post(n) \/ PostAgain(n)
    PROVE  CycleTypes' /\ \A m \in Tasks : CycleInv(m)'
<1>1. UNCHANGED <<iteration, slots, good>> /\ at[n] \in {"post", "repost"}
  BY DEF Post, PostAgain
<1>2. PICK outcome \in Outcomes : /\ Sent(n, outcome)
                                  /\ \/ outcome = "answered" /\ ResetAverages(n) /\ Goto(n, "sent")
                                     \/ outcome # "answered" /\ UNCHANGED avg
                                        /\ ((at[n] = "post" /\ Goto(n, "deinit")) \/ Goto(n, "unsent"))
  BY DEF Post, PostAgain, PostReuse, Outcomes
<1>3. /\ slots[n] = {} /\ upload[n].copies <= 1 /\ upload[n].copies = upload[n].unknown
      /\ at[n] = "post" => upload[n].copies = 0
      /\ avg[n].own = good[n] \ {Samples} /\ (avg[n].old # {} => upload[n].failed)
  BY <1>1 DEF CycleInv, Uploading
<1>4. /\ upload' \in [Tasks -> Uploads]
      /\ \A m \in Tasks : m # n => upload'[m] = upload[m]
      /\ upload'[n].failed = upload[n].failed
      /\ upload'[n].copies <= upload'[n].unknown + 1
      /\ outcome # "answered" => upload'[n].copies = upload'[n].unknown
      /\ upload'[n].copies <= upload[n].copies + 1
  BY <1>2, <1>3, SentCounts
<1>5. CASE outcome = "answered"
  <2>1. avg' \in [Tasks -> Sums] /\ avg'[n] = NoSum
        /\ \A m \in Tasks : m # n => avg'[m] = avg[m]
    BY <1>2, <1>5, Markers DEF ResetAverages, CycleTypes
  <2>2. \A m \in Tasks : at'[m] = IF m = n THEN "sent" ELSE at[m]
    BY <1>2, <1>5 DEF Goto, StartTypes
  <2>3. ASSUME NEW m \in Tasks PROVE CycleInv(m)'
    BY <1>1, <1>3, <1>4, <2>1, <2>2 DEF CycleInv, Starting, Uploading
  <2>. QED BY <1>1, <1>4, <2>1, <2>3 DEF CycleTypes
<1>6. CASE outcome # "answered"
  <2>1. PICK step \in {"deinit", "unsent"} :
          Goto(n, step) /\ UNCHANGED avg /\ (step = "deinit" => at[n] = "post")
    BY <1>2, <1>6
  <2>2. \A m \in Tasks : at'[m] = IF m = n THEN step ELSE at[m]
    BY <2>1 DEF Goto, StartTypes
  <2>3. ASSUME NEW m \in Tasks PROVE CycleInv(m)'
    BY <1>1, <1>3, <1>4, <1>6, <2>1, <2>2 DEF CycleInv, Starting, Uploading
  <2>. QED BY <1>1, <1>4, <2>1, <2>3 DEF CycleTypes
<1>. QED BY <1>5, <1>6

\* The next cycle.
LEMMA NextCycleKeeps ==
    ASSUME StartTypes, CycleTypes, \A m \in Tasks : CycleInv(m), NEW n \in Tasks, NextCycle(n)
    PROVE  CycleTypes' /\ \A m \in Tasks : CycleInv(m)'
<1>1. at[n] \in {"sent", "unsent"} /\ UNCHANGED <<iteration, slots, avg>>
      /\ upload' = [upload EXCEPT ![n] = IF at[n] = "unsent" THEN AfterFailure ELSE NoUpload]
      /\ good' = [good EXCEPT ![n] = {}]
  BY DEF NextCycle
<1>2. \A m \in Tasks : at'[m] = IF m = n THEN "read" ELSE at[m]
  BY DEF NextCycle, Goto, StartTypes
<1>3. CycleTypes'
  BY <1>1, Markers DEF CycleTypes
<1>4. \A m \in Tasks : m # n => upload'[m] = upload[m] /\ good'[m] = good[m]
  BY <1>1 DEF CycleTypes
<1>5. /\ good'[n] = {} /\ slots[n] = {}
      /\ upload'[n].copies = 0 /\ upload'[n].unknown = 0
      /\ avg[n].old # {} \/ avg[n].own # {} => upload'[n].failed
  BY <1>1, Markers DEF CycleTypes, CycleInv
<1>6. CycleInv(n)'
  BY <1>1, <1>2, <1>5 DEF CycleInv, Starting, Uploading
<1>7. ASSUME NEW m \in Tasks, m # n PROVE CycleInv(m)'
  BY <1>1, <1>2, <1>4, <1>7 DEF CycleInv
<1>. QED BY <1>3, <1>6, <1>7

\* A restart.
LEMMA CycleReset == ASSUME TasksReset PROVE CycleTypes' /\ \A m \in Tasks : CycleInv(m)'
<1>1. CycleTypes'
  BY Markers, NodeAssumption DEF TasksReset, CycleTypes
<1>. QED BY <1>1, Markers DEF TasksReset, CycleInv, Starting, Uploading

\* Every step keeps what the tasks have collected.
LEMMA CycleStep ==
    ASSUME StartTypes, BusInv, CycleTypes, \A m \in Tasks : CycleInv(m), [Next]_vars
    PROVE  CycleTypes' /\ \A m \in Tasks : CycleInv(m)'
<1>. DEFINE Keeps == CycleTypes' /\ \A m \in Tasks : CycleInv(m)'
<1>1. CASE UNCHANGED taskVars
  BY <1>1 DEF taskVars, CycleTypes, CycleInv
<1>2. CASE GotIp \/ SetupNtp \/ WaitForNtp \/ InitBus \/ ClockSet
  BY <1>1, <1>2 DEF GotIp, SetupNtp, WaitForNtp, InitBus, ClockSet
<1>3. CASE OnConnect \/ Update \/ NewVersion
  BY <1>1, <1>3 DEF OnConnect, Update, NewVersion
<1>4. CASE OtaRestart \/ InspectHeap \/ PowerLoss
  BY <1>4, CycleReset DEF OtaRestart, InspectHeap, PowerLoss, Restart
<1>5. CASE CreateTasks
  <2>1. connections \in Tasks /\ at[connections] = "none"
    BY <1>5 DEF CreateTasks, BusInv
  <2>2. Goto(connections, "start") /\ UNCHANGED <<iteration, slots, good, avg, upload>>
    BY <1>5 DEF CreateTasks, Goto
  <2>. QED BY <2>1, <2>2, OnlyMoves DEF Starting
<1>6. ASSUME NEW n \in Tasks, Sample(n) PROVE Keeps
  <2>1. CASE InitSensor(n) \/ Describe(n)
    <3>1. PICK step \in Starting : Goto(n, step)
      BY <2>1 DEF InitSensor, Describe, Starting
    <3>2. at[n] \in Starting /\ UNCHANGED <<iteration, slots, good, avg, upload>>
      BY <2>1 DEF InitSensor, Describe, Starting
    <3>. QED BY <3>1, <3>2, OnlyMoves
  <2>2. CASE DeinitClient(n)
    BY <2>2, OnlyMoves DEF DeinitClient
  <2>3. CASE ReinitClient(n)
    BY <2>3, OnlyMoves DEF ReinitClient
  <2>4. CASE Panic(n)
    BY <2>4, CycleReset DEF Panic, Restart
  <2>. QED BY <1>6, <2>1, <2>2, <2>3, <2>4, InitClientKeeps, ReadKeeps, AverageKeeps,
              PostsKeep, NextCycleKeeps DEF Sample
<1>7. ASSUME NEW n \in Tasks, Report(n) PROVE Keeps
  BY <1>1, <1>7 DEF Report
<1>8. CASE UNCHANGED vars
  BY <1>1, <1>8 DEF vars
<1>. QED BY <1>2, <1>3, <1>4, <1>5, <1>6, <1>7, <1>8 DEF Next, Handler

-----------------------------------------------------------------------------
(* The theorems *)

\* The initial states satisfy the invariant.
LEMMA NodeInit == ASSUME Init PROVE NodeInv
<1>1. UpdateInv
  <2>1. left \in 0..Pieces /\ updates \in Nat
    BY PiecesAssumption DEF Init, OtaInit
  <2>2. other \in BOOLEAN /\ switch \in BOOLEAN /\ newer \in BOOLEAN /\ received \in BOOLEAN
    BY Zenon DEF Init, OtaInit
  <2>3. ota = "no"
    BY DEF Init, OtaInit
  <2>. QED BY <2>1, <2>2, <2>3 DEF UpdateInv, OtaTypeOK
<1>2. /\ handler = "idle" /\ pending = 0 /\ connections = 0 /\ links = 0
      /\ sntp = FALSE /\ clock = FALSE /\ driver = FALSE
      /\ bus = [n \in Tasks |-> FALSE]
      /\ at = [n \in Tasks |-> "none"] /\ device = [n \in Tasks |-> "null"]
  BY Zenon DEF Init, TasksInit
<1>3. 0 \in 0..Connections /\ 0 + 0 <= Connections /\ 0 \in 0..HeapLinks
  BY NodeAssumption
<1>4. bus \in [Tasks -> BOOLEAN] /\ \A n \in Tasks : ~bus[n]
  BY <1>2, Zenon
<1>5. StartTypes
  BY <1>2, <1>3, <1>4 DEF StartTypes
<1>6. BusInv
  BY <1>2, <1>4 DEF BusInv, Looping, Uploading
<1>7. ClientInv
  <2>1. \A n \in Tasks : Sampler(n) \in Requesters
    BY RequestersDiffer
  <2>. QED BY <2>1 DEF Init, HttpInit, ClientInv, HttpTypeOK, HandlesAccounted
<1>8. CycleTypes
  BY Markers, NodeAssumption DEF Init, TasksInit, CycleTypes
<1>9. \A n \in Tasks : CycleInv(n)
  BY Markers DEF Init, TasksInit, CycleInv, Starting, Uploading
<1>. QED BY <1>1, <1>5, <1>6, <1>7, <1>8, <1>9 DEF NodeInv

\* Every step keeps the invariant.
LEMMA NodeStep == ASSUME NodeInv, [Next]_vars PROVE NodeInv'
BY UpdateStep, ClientStep, StartStep, CycleStep DEF NodeInv

\* The invariant holds in every reachable state.
THEOREM NodeInvariant == Spec => []NodeInv
<1>1. Init => NodeInv
  BY NodeInit
<1>2. NodeInv /\ [Next]_vars => NodeInv'
  BY NodeStep
<1>. QED BY <1>1, <1>2, PTL DEF Spec

\* Every variable keeps its type; no more than two copies are stored.
THEOREM TypeCorrect == Spec => []TypeOK
<1>1. NodeInv => TypeOK
  BY TypesOfNode
<1>. QED BY <1>1, NodeInvariant, PTL

\* Through failed uploads and handles that could not be made, every ESP-IDF
\* handle is the one its task still holds.
THEOREM HandlesStayAccounted == Spec => []HandlesAccounted
<1>1. NodeInv => HandlesAccounted
  BY DEF NodeInv, ClientInv
<1>. QED BY <1>1, NodeInvariant, PTL

\* However often the device connects, one task reads the sensor.
THEOREM OneTaskSamples == Spec => []OneSampler
<1>1. NodeInv => OneSampler
  BY DEF NodeInv, BusInv, OneSampler
<1>. QED BY <1>1, NodeInvariant, PTL

\* An upload is made of the readings of its cycle, unless the one before failed.
THEOREM AveragesAreOfCycle == Spec => []AverageOfCycle
<1>1. NodeInv => AverageOfCycle
  BY DEF NodeInv, CycleInv, AverageOfCycle
<1>. QED BY <1>1, NodeInvariant, PTL

\* Only a lost answer makes the server store averages twice.
THEOREM DuplicatesAreExplained == Spec => []DuplicatesExplained
<1>1. ASSUME NodeInv PROVE DuplicatesExplained
  <2>1. \A n \in Tasks : upload[n].copies \in 0..2
    BY <1>1, Fields DEF NodeInv
  <2>. QED BY <1>1, <2>1 DEF NodeInv, CycleInv, DuplicatesExplained
<1>. QED BY <1>1, NodeInvariant, PTL

\* The restart after an update starts another and a whole image.
THEOREM RestartsMeanUpdates == Spec => RestartMeansUpdate
<1>1. NodeInv /\ [Next]_vars => [OtaRestart => newer /\ switch /\ other]_vars
  BY DEF NodeInv, UpdateInv, OtaRestart
<1>. QED BY <1>1, NodeInvariant, PTL DEF Spec, RestartMeansUpdate

\* Wherever an update is interrupted, the slot that starts next is whole: the
\* firmware implements ImageSlots.
THEOREM UpdateIsOfSlots == Spec => UpdateImplementsSlots
<1>1. Init => UpdateInv /\ UpdateInHandler /\ Slots!Init
  <2>1. ASSUME Init PROVE UpdateInv /\ UpdateInHandler
    BY <2>1, NodeInit DEF NodeInv, Init, OtaInit, UpdateInHandler
  <2>2. Init => Slots!Init
    BY Zenon DEF Init, OtaInit, Slots!Init
  <2>. QED BY <2>1, <2>2
<1>2. UpdateInv /\ UpdateInHandler /\ [Next]_vars => UpdateInv' /\ UpdateInHandler'
  BY UpdateStep, NodeStepsSlots
<1>3. UpdateInv /\ UpdateInHandler /\ [Next]_vars => [Slots!Next]_Slots!slotVars
  BY NodeStepsSlots DEF SlotStep
<1>. QED BY <1>1, <1>2, <1>3, PTL DEF Spec, UpdateImplementsSlots, Slots!Spec

=============================================================================
