----------------------------- MODULE SensorNode -----------------------------
(***************************************************************************)
(* The bmp280 firmware once it is connected (src/main.c): the handler that *)
(* runs at each connection, the tasks it creates, and what these share:    *)
(* the I2C bus, the heap, the HTTP client and the firmware update.         *)
(*                                                                         *)
(* The handler runs on the event loop task, each time the station gets an  *)
(* address, and creates a sampling, a reporting and a heap watching task   *)
(* each time: the tasks are numbered by the connection that created them.  *)
(* A dereferenced NULL handle makes the device restart (Panic).            *)
(***************************************************************************)
EXTENDS Integers, OtaUpdate

CONSTANTS
  Connections,    \* bound: the connections of one boot
  Samples,        \* BMP_NUMBER_OF_VALUES_TO_READ
  HeapLinks       \* how many lost command links make the heap low

ASSUME NodeAssumption ==
  /\ Connections \in Nat
  /\ Samples \in Nat \ {0}
  /\ HeapLinks \in Nat \ {0}

VARIABLES
  handler,        \* where on_connect_handler is
  pending,        \* addresses got and not yet handled
  connections,    \* how often the handler was started
  sntp,           \* whether SNTP was initialized
  clock,          \* whether a time server has answered
  driver,         \* whether the I2C driver is installed
  links,          \* I2C command links that were lost, up to HeapLinks
  client,         \* http_client: see HttpClient
  handles,
  bus,            \* the bus handle a sampling task was given is not NULL
  at,             \* where each sampling task is
  device,         \* its bmp handle: "null", "raw" (not calibrated) or "ready"
  iteration,      \* its index
  slots,          \* the entries of temperature and pressure that are not zero
  good,           \* history: the entries that were read in this cycle
  avg,            \* what its averages are sums of
  upload          \* history of the upload of the current averages

nodeVars == <<handler, pending, connections, sntp, clock, driver, bus>>
taskVars == <<at, device, iteration, slots, good, avg, upload>>
vars == <<otaVars, nodeVars, links, client, handles, taskVars>>

Tasks == 1..Connections
Sampler(n) == <<"sampler", n>>
Reporter(n) == <<"reporter", n>>

Requesters == {"sampler", "reporter"} \X Tasks

INSTANCE HttpClient WITH Callers <- Requesters

(* Sums of nothing; sums of the entries `own' of this cycle, and of `old'   *)
(* ones, that averages which were not reset brought along.                 *)
NoSum == [own |-> {}, old |-> {}]
Sums == [own : SUBSET (0..(Samples - 1)), old : SUBSET (0..(Samples - 1))]

(* How often the server has stored the current averages, how often without *)
(* the task knowing, and whether the previous upload failed.               *)
NoUpload == [copies |-> 0, unknown |-> 0, failed |-> FALSE]
AfterFailure == [copies |-> 0, unknown |-> 0, failed |-> TRUE]
Uploads == [copies : 0..2, unknown : 0..2, failed : BOOLEAN]

Uploading == {"post", "deinit", "init", "repost"}
Looping == {"read", "average", "sent", "unsent"} \cup Uploading

TypeOK ==
  /\ OtaTypeOK
  /\ HttpTypeOK
  /\ handler \in {"idle", "ota", "ntp", "wait", "bus", "create"}
  /\ connections \in 0..Connections
  /\ pending \in 0..Connections
  /\ connections + pending <= Connections
  /\ sntp \in BOOLEAN /\ clock \in BOOLEAN /\ driver \in BOOLEAN
  /\ links \in 0..HeapLinks
  /\ bus \in [Tasks -> BOOLEAN]
  /\ at \in [Tasks -> {"none", "start", "describe", "client"} \cup Looping]
  /\ device \in [Tasks -> {"null", "raw", "ready"}]
  /\ iteration \in [Tasks -> 0..Samples]
  /\ slots \in [Tasks -> SUBSET (0..Samples)]
  /\ good \in [Tasks -> SUBSET (0..Samples)]
  /\ avg \in [Tasks -> Sums]
  /\ upload \in [Tasks -> Uploads]

TasksInit ==
  /\ at = [n \in Tasks |-> "none"]
  /\ device = [n \in Tasks |-> "null"]
  /\ iteration = [n \in Tasks |-> 0]
  /\ slots = [n \in Tasks |-> {}]
  /\ good = [n \in Tasks |-> {}]
  /\ avg = [n \in Tasks |-> NoSum]
  /\ upload = [n \in Tasks |-> NoUpload]

TasksReset ==
  /\ at' = [n \in Tasks |-> "none"]
  /\ device' = [n \in Tasks |-> "null"]
  /\ iteration' = [n \in Tasks |-> 0]
  /\ slots' = [n \in Tasks |-> {}]
  /\ good' = [n \in Tasks |-> {}]
  /\ avg' = [n \in Tasks |-> NoSum]
  /\ upload' = [n \in Tasks |-> NoUpload]

Init ==
  /\ OtaInit
  /\ HttpInit
  /\ TasksInit
  /\ handler = "idle" /\ pending = 0 /\ connections = 0
  /\ sntp = FALSE /\ clock = FALSE /\ driver = FALSE /\ links = 0
  /\ bus = [n \in Tasks |-> FALSE]

(* Whatever restarts the device: only the flash survives. *)
Restart ==
  /\ OtaReset
  /\ HttpReset
  /\ TasksReset
  /\ handler' = "idle" /\ pending' = 0 /\ connections' = 0
  /\ sntp' = FALSE /\ clock' = FALSE /\ driver' = FALSE /\ links' = 0
  /\ bus' = [n \in Tasks |-> FALSE]

---------------------------------------------------------------------------
(* The handler of a connection *)

(* The station gets an address, at first or again. *)
GotIp ==
  /\ connections + pending < Connections
  /\ pending' = pending + 1
  /\ UNCHANGED <<otaVars, handler, connections, sntp, clock, driver, bus, links, client, handles, taskVars>>

(* on_connect_handler is called, and calls helper_perform_ota first. *)
OnConnect ==
  /\ handler = "idle" /\ pending > 0
  /\ pending' = pending - 1
  /\ connections' = connections + 1
  /\ handler' = "ota"
  /\ OtaStart
  /\ UNCHANGED <<sntp, clock, driver, bus, links, client, handles, taskVars>>

(* A step of the update; whatever its result, the handler goes on. *)
Update ==
  /\ handler = "ota"
  /\ OtaStep
  /\ handler' = IF ota' = "no" THEN "ntp" ELSE handler
  /\ UNCHANGED <<pending, connections, sntp, clock, driver, bus, links, client, handles, taskVars>>

OtaRestart ==
  /\ ota = "done"
  /\ Restart

(* sysutil_setup_ntp_server: a second initialization is an error and       *)
(* returns; the first waits until the time is set, without a limit.        *)
SetupNtp ==
  /\ handler = "ntp"
  /\ handler' = IF sntp THEN "bus" ELSE "wait"
  /\ sntp' = TRUE
  /\ UNCHANGED <<otaVars, pending, connections, clock, driver, bus, links, client, handles, taskVars>>

WaitForNtp ==
  /\ handler = "wait" /\ clock
  /\ handler' = "bus"
  /\ UNCHANGED <<otaVars, pending, connections, sntp, clock, driver, bus, links, client, handles, taskVars>>

(* A time server answers; nothing promises that one does. *)
ClockSet ==
  /\ sntp /\ ~clock
  /\ clock' = TRUE
  /\ UNCHANGED <<otaVars, handler, pending, connections, sntp, driver, bus, links, client, handles, taskVars>>

(* Mutant: a bus handle is made although the driver refused. *)
InitBusAnyway ==
  /\ handler = "bus"
  /\ handler' = "create"
  /\ bus' = [bus EXCEPT ![connections] = TRUE]
  /\ driver' = TRUE
  /\ UNCHANGED <<otaVars, pending, connections, sntp, clock, links, client, handles, taskVars>>

(* i2c_c_init_bus: the driver can be installed once.  A second             *)
(* installation is an error, the configuration or the first one may be,    *)
(* and the handle stays NULL then.                                         *)
InitBus ==
  /\ handler = "bus"
  /\ handler' = "create"
  /\ \/ /\ ~driver
        /\ driver' = TRUE
        /\ bus' = [bus EXCEPT ![connections] = TRUE]
     \/ UNCHANGED <<driver, bus>>
  /\ UNCHANGED <<otaVars, pending, connections, sntp, clock, links, client, handles, taskVars>>

(* The tasks of this connection are created. *)
CreateTasks ==
  /\ handler = "create"
  /\ handler' = "idle"
  /\ at' = [at EXCEPT ![connections] = "start"]
  /\ UNCHANGED <<otaVars, pending, connections, sntp, clock, driver, bus, links, client, handles,
                 device, iteration, slots, good, avg, upload>>

---------------------------------------------------------------------------
(* read_temperature_task *)

(* A failed I2C transaction does not delete its command link. *)
LoseLinks(k) == links' = IF links + k < HeapLinks THEN links + k ELSE HeapLinks

Goto(n, step) == at' = [at EXCEPT ![n] = step]

(* bmp_init and bmp_configure, whose errors are only logged.  The sensor   *)
(* is looked for at two addresses; if it is found, a later error leaves    *)
(* the handle as it is.  Transactions fail in any of these.                *)
InitSensor(n) ==
  /\ at[n] = "start"
  /\ \/ ~bus[n] /\ device' = device /\ links' = links
     \/ /\ bus[n]
        /\ \/ device' = device /\ \E k \in 0..2 : LoseLinks(k)
           \/ device' = [device EXCEPT ![n] = "raw"] /\ \E k \in 1..3 : LoseLinks(k)
           \/ device' = [device EXCEPT ![n] = "ready"] /\ \E k \in 0..2 : LoseLinks(k)
  /\ Goto(n, "describe")
  /\ UNCHANGED <<otaVars, nodeVars, client, handles, iteration, slots, good, avg, upload>>

(* The log message about the sensor reads through the handle: the task     *)
(* gets past it only if there is one, ...                                  *)
Describe(n) ==
  /\ at[n] = "describe" /\ device[n] # "null"
  /\ Goto(n, "client")
  /\ UNCHANGED <<otaVars, nodeVars, links, client, handles, device, iteration, slots, good, avg, upload>>

(* ... and with NULL the device restarts. *)
Panic(n) ==
  /\ at[n] = "describe" /\ device[n] = "null"
  /\ Restart

InitClient(n) ==
  /\ at[n] = "client"
  /\ InitReuse(Sampler(n))
  /\ Goto(n, "read")
  /\ UNCHANGED <<otaVars, nodeVars, links, device, iteration, slots, good, avg, upload>>

(* Mutant: the index is incremented and compared afterwards. *)
ReadSampleBeyond(n) ==
  /\ at[n] = "read"
  /\ \/ /\ slots' = [slots EXCEPT ![n] = @ \cup {iteration[n]}]
        /\ good' = [good EXCEPT ![n] = @ \cup {iteration[n]}]
        /\ UNCHANGED links
     \/ /\ LoseLinks(1)
        /\ UNCHANGED <<slots, good>>
  /\ iteration' = [iteration EXCEPT ![n] = @ + 1]
  /\ Goto(n, IF iteration[n] <= Samples THEN "read" ELSE "average")
  /\ UNCHANGED <<otaVars, nodeVars, client, handles, device, avg, upload>>

(* One reading.  The result of the readout is not looked at: if it failed, *)
(* the entries stay as they were, and a command link is lost.  (The        *)
(* altitude, which is calculated from the pressure, is not modelled.)      *)
ReadSample(n) ==
  /\ at[n] = "read"
  /\ \/ /\ slots' = [slots EXCEPT ![n] = @ \cup {iteration[n]}]
        /\ good' = [good EXCEPT ![n] = @ \cup {iteration[n]}]
        /\ UNCHANGED links
     \/ /\ LoseLinks(1)
        /\ UNCHANGED <<slots, good>>
  /\ IF iteration[n] < Samples
     THEN iteration' = [iteration EXCEPT ![n] = @ + 1] /\ UNCHANGED at
     ELSE Goto(n, "average") /\ UNCHANGED iteration
  /\ UNCHANGED <<otaVars, nodeVars, client, handles, device, avg, upload>>

(* Mutant: the arrays are not zeroed, and keep values of an earlier cycle  *)
(* where a readout fails.                                                  *)
AverageKeepsSlots(n) ==
  /\ at[n] = "average"
  /\ avg' = [avg EXCEPT ![n] = [own |-> slots[n] \cap 0..(Samples - 1),
                                old |-> @.old \cup @.own]]
  /\ iteration' = [iteration EXCEPT ![n] = 0]
  /\ Goto(n, "post")
  /\ UNCHANGED <<otaVars, nodeVars, links, client, handles, device, slots, good, upload>>

(* The averages are added up over what is left in them, from all entries   *)
(* but the last; index and arrays are reset and the message is prepared.   *)
Average(n) ==
  /\ at[n] = "average"
  /\ avg' = [avg EXCEPT ![n] = [own |-> slots[n] \cap 0..(Samples - 1),
                                old |-> @.old \cup @.own]]
  /\ iteration' = [iteration EXCEPT ![n] = 0]
  /\ slots' = [slots EXCEPT ![n] = {}]
  /\ Goto(n, "post")
  /\ UNCHANGED <<otaVars, nodeVars, links, client, handles, device, good, upload>>

(* What a request with this outcome leaves behind. *)
Sent(n, outcome) ==
  upload' = [upload EXCEPT ![n] =
               [copies |-> IF outcome = "unsent" THEN @.copies ELSE @.copies + 1,
                unknown |-> IF outcome = "unanswered" THEN @.unknown + 1 ELSE @.unknown,
                failed |-> @.failed]]

(* Mutant: the averages are not reset after they were sent. *)
ResetNothing(n) == UNCHANGED avg

ResetAverages(n) == avg' = [avg EXCEPT ![n] = NoSum]

(* Mutant: the test of the result is inverted. *)
PostInverted(n) ==
  /\ at[n] = "post"
  /\ \E outcome \in PostReuse(Sampler(n)) :
       IF outcome # "answered"
       THEN Sent(n, outcome) /\ ResetAverages(n) /\ Goto(n, "sent")
       ELSE Sent(n, outcome) /\ UNCHANGED avg /\ Goto(n, "deinit")
  /\ UNCHANGED <<otaVars, nodeVars, links, client, handles, device, iteration, slots, good>>

(* The first upload; only an answer resets the averages. *)
Post(n) ==
  /\ at[n] = "post"
  /\ \E outcome \in PostReuse(Sampler(n)) :
       IF outcome = "answered"
       THEN Sent(n, outcome) /\ ResetAverages(n) /\ Goto(n, "sent")
       ELSE Sent(n, outcome) /\ UNCHANGED avg /\ Goto(n, "deinit")
  /\ UNCHANGED <<otaVars, nodeVars, links, client, handles, device, iteration, slots, good>>

(* "Reestablishing connection": the handle is given up ... *)
DeinitClient(n) ==
  /\ at[n] = "deinit"
  /\ DeinitReuse(Sampler(n))
  /\ Goto(n, "init")
  /\ UNCHANGED <<otaVars, nodeVars, links, device, iteration, slots, good, avg, upload>>

(* ... and made again, which returns no error. *)
ReinitClient(n) ==
  /\ at[n] = "init"
  /\ InitReuse(Sampler(n))
  /\ Goto(n, "repost")
  /\ UNCHANGED <<otaVars, nodeVars, links, device, iteration, slots, good, avg, upload>>

(* Mutant: the upload is tried until it succeeds. *)
PostAgainForever(n) ==
  /\ at[n] = "repost"
  /\ \E outcome \in PostReuse(Sampler(n)) :
       IF outcome = "answered"
       THEN Sent(n, outcome) /\ ResetAverages(n) /\ Goto(n, "sent")
       ELSE UNCHANGED <<avg, at, upload>>
  /\ UNCHANGED <<otaVars, nodeVars, links, client, handles, device, iteration, slots, good>>

(* The second upload; when it fails too the averages are left as they are. *)
PostAgain(n) ==
  /\ at[n] = "repost"
  /\ \E outcome \in PostReuse(Sampler(n)) :
       /\ Sent(n, outcome)
       /\ IF outcome = "answered"
          THEN ResetAverages(n) /\ Goto(n, "sent")
          ELSE UNCHANGED avg /\ Goto(n, "unsent")
  /\ UNCHANGED <<otaVars, nodeVars, links, client, handles, device, iteration, slots, good>>

(* The delay after an upload that succeeded or failed, and the next cycle. *)
NextCycle(n) ==
  /\ at[n] \in {"sent", "unsent"}
  /\ upload' = [upload EXCEPT ![n] = IF at[n] = "unsent" THEN AfterFailure ELSE NoUpload]
  /\ good' = [good EXCEPT ![n] = {}]
  /\ Goto(n, "read")
  /\ UNCHANGED <<otaVars, nodeVars, links, client, handles, device, iteration, slots, avg>>

Sample(n) ==
  \/ InitSensor(n) \/ Describe(n) \/ Panic(n) \/ InitClient(n) \/ ReadSample(n) \/ Average(n)
  \/ Post(n) \/ DeinitClient(n) \/ ReinitClient(n) \/ PostAgain(n) \/ NextCycle(n)

---------------------------------------------------------------------------
(* The other tasks and the environment *)

(* update_wifi_info_task: a request with a handle of its own.  What it     *)
(* takes for an error makes no difference to what it does next.            *)
Report(n) ==
  /\ at[n] # "none"
  /\ PostBegin(Reporter(n)) \/ PostEnd(Reporter(n))
  /\ UNCHANGED <<otaVars, nodeVars, links, taskVars>>

(* inspect_heap_task finds the heap low. *)
InspectHeap ==
  /\ \E n \in Tasks : at[n] # "none"
  /\ links = HeapLinks
  /\ Restart

PowerLoss == Restart

NewVersion ==
  /\ Publish
  /\ UNCHANGED <<nodeVars, links, client, handles, taskVars>>

Handler == OnConnect \/ Update \/ OtaRestart \/ SetupNtp \/ WaitForNtp \/ InitBus \/ CreateTasks

Next ==
  \/ GotIp \/ Handler \/ ClockSet \/ InspectHeap \/ PowerLoss \/ NewVersion
  \/ \E n \in Tasks : Sample(n) \/ Report(n)

(* Tasks run; the handler's calls return, though no turn of the update's   *)
(* loop need bring data.  No time server need answer, no request need      *)
(* succeed, and nothing need connect.                                      *)
Fairness ==
  /\ WF_vars(Handler /\ ota # "perform")
  /\ \A n \in Tasks : WF_vars(Sample(n))

Spec == Init /\ [][Next]_vars /\ Fairness

---------------------------------------------------------------------------
(* Properties *)

(* Through failed uploads, with handles that could not be made and with     *)
(* reports under way, every ESP-IDF handle is the one its task still holds: *)
(* none is lost and none is cleaned up twice.                               *)
HandlesAccounted ==
  \A c \in Requesters :
    handles[c] = IF client[c] = "ready" THEN 1 ELSE 0

(* However often the device connects, only one task reads the sensor: the  *)
(* tasks of later connections get no bus, and never reach their loop.      *)
OneSampler ==
  \A m, n \in Tasks : at[m] \in Looping /\ at[n] \in Looping => m = n

(* What is uploaded is made of the readings of its own cycle that          *)
(* succeeded, all but the last entry; older averages are mixed in only     *)
(* when the previous upload failed.                                        *)
AverageOfCycle ==
  \A n \in Tasks : at[n] \in Uploading =>
    /\ avg[n].own = good[n] \ {Samples}
    /\ avg[n].old # {} => upload[n].failed

(* The server stores averages once more only for an upload whose answer     *)
(* was lost, and never three times.                                        *)
DuplicatesExplained ==
  \A n \in Tasks : upload[n].copies <= 2 /\ upload[n].copies <= upload[n].unknown + 1

(* A restart that the update asks for starts another image, and a whole    *)
(* one: the device does not restart for the version it already runs.       *)
RestartMeansUpdate ==
  [][OtaRestart => newer /\ switch /\ other]_vars

Slots == INSTANCE ImageSlots WITH whole <- other, marked <- switch

(* Wherever in an update the power fails, the device reboots or a task     *)
(* panics, the slot that starts next holds a whole image: it is written    *)
(* only for another version, marked only when whole, and left alone then.  *)
UpdateImplementsSlots == Slots!Spec

(* A task that samples goes on to its next upload, whatever the sensor and *)
(* the server do, unless the device restarts.                              *)
SamplingGoesOn ==
  \A n \in Tasks : at[n] \in Looping ~> at[n] \in {"post", "none"}

(* Only servers keep the event loop task in the handler: one whose image   *)
(* never comes to its end, and the time server that does not answer.  Each *)
(* other way through the update and the rest of the handler ends.          *)
OnlyServersHold ==
  handler # "idle" ~> handler \in {"idle", "wait"} \/ [](ota = "perform")

=============================================================================
