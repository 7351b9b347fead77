# A model of the esp_helper firmware

This directory holds TLA+ modules of the parts of `esp_helper` that have state
worth checking, the TLC configurations that check them on small instances, and
theorems about them whose proofs are checked by TLAPS.

The repository keeps several copies of each library. The reference here is the
copy of the `bmp280` firmware, `projects/bmp280/lib/<library>` with
`projects/bmp280/src/main.c`. The library
sources are the same files in all the firmwares under `projects/`;
some of the copies under `libraries/` are other versions, which are not
modelled. Paths below are relative to `projects/bmp280/`.

- [The system](#the-system)
- [The modules](#the-modules)
- [The runs](#the-runs)
- [Bounds](#bounds) and [fairness](#fairness)
- [The proofs](#the-proofs)
- [What the code does otherwise than it says](#what-the-code-does-otherwise-than-it-says)
- [What is not modelled](#what-is-not-modelled)
- [Plan](#plan)

## The system

A firmware boots (`app_main`), connects to an access point with credentials kept
in flash, and, when it has an address, checks for an update, sets its clock and
starts its tasks (for the bmp280: sampling a sensor and posting the averages,
posting its status, watching the heap). Without usable credentials it opens an
access point of its own with a web page on which a user enters them; it then
stores them and restarts. All libraries report errors by `err_c_t` codes and most
of them handle them with the `Try`/`Catch`/`Throw` macros of CException.

These run at the same time, as FreeRTOS tasks of ESP-IDF:

| task | what it runs |
|---|---|
| app task | `app_main`: NVS, `wifi_manager_init` and all it calls, then `cli_set_remote_logging` |
| event loop task | `wifi_c_sta_event_handler`, `wifi_c_ap_event_handler`, and from them the callbacks the application registered (`on_connect_handler`) |
| http server task | the request handlers of `wifi_http_server.c`, one request at a time |
| Wi-Fi driver | changes the link at any time and posts events to the event loop |
| application tasks | `read_temperature_task`, `update_wifi_info_task`, `inspect_heap_task` |
| `cli_accept_task` | accepts remote logging clients |

### Inventory

**wifi_controller** (`lib/wifi_controller`). State, all of it static: the status
`wifi_c_status` with the callbacks, the event group and its bits,
`wifi_sta_retry_num`, the scan table `wifi_scan_info`, the netif handles.
Operations: initialize, change mode, deinitialize, start station, start access
point, disconnect, register callbacks, scan, read the scan result, read the
status; two event handlers. It is called by the app task, the http server task
(scan, status) and `update_wifi_info_task` (status), and its handlers run in the
event loop task; nothing is locked. Hard: a life cycle of several driver calls
each of which may fail, handlers that run between the steps of a call, bits and
counters that survive a call, waits with timeouts. Correct means: the status
never claims objects that are not there and no object is lost; events of one
life do not reach the next; a lost link is tried again or reported, and not both;
calls return; a scan result that is announced can be read.

**CException** (`lib/CException`). State: the frame slot(s) `CExceptionFrames`.
Operations: `Try`, `Throw`, the end of a block and `Catch`. Every library that
uses it shares the slots. Hard: tasks are switched between its accesses; blocks
nest; code may return from inside a block. Correct means: a `Throw` lands in the
innermost open block of its own task, and a `Catch` sees what its block threw.

**wifi_manager and its http server** (`lib/wifi_manager`), over
**nvs_controller** (`lib/nvs_controller`). State: two keys in flash, `ssid` and
`password`, and where boot and request are. Operations: boot with stored
credentials, else open the portal; requests that store, erase, list, restart.
Hard: the flash is changed in several steps, each of which may fail or be cut
off by a power loss; the request is answered before it is carried out. Correct
means: what is stored is seen as a whole or damaged only in known ways; the
device connects with what is stored; every boot comes to an end.

**application tasks** (`src/main.c`). State: the averages and the sample index,
the reused http client handle, the tasks that were created. Hard: requests that
fail on either way in the middle of a cycle; errors that are only logged;
`on_connect_handler` runs once per address the device gets, on the event loop
task. Correct means: a posted average is that of its own samples, and stored once
unless an answer was lost; one task samples; the loop goes on.

**http_client** (`lib/http_client`). A request with a fresh handle, or with one
that is kept and initialized again after an error. Correct means: no handle is lost,
or cleaned up twice.

**logger** (`lib/logger`), **cli_manager** (`lib/cli_manager`) and
**tcp_controller** (`lib/tcp_controller`). State: the level, the table of output
files, a mutex; the listening socket. `LOG_*` takes the mutex and walks the
table; `cli_accept_task` adds a client's file to it. Hard: the table is changed
without the mutex while it is walked, and has a limit; the arguments of a `LOG_*`
are evaluated with the mutex held. Correct means: no write to a file that is
gone, no two messages mixed, a client dropped only for a newcomer to a full
table, no task that waits for itself.

**arena** (`lib/arena`). A pool of elements of one size, built on demand, with
a free list kept in the freed elements. State: the buffer and how much of it was
given out, the head of the list, and the memory itself. Correct means: no element
is handed out twice, none is refused while one is free, and what is kept in free
elements does not touch the others.

**linked_list** (`lib/linked_list`). A list of named items. Correct means: head,
tail, links and `items_num` agree after every sequence of calls.

**ota_controller and esp_helper_utils** (`lib/ota_controller`,
`lib/esp_helper_utils`). A sequence of ESP-IDF update calls and the helper that
runs it at each connection. Hard: results that are replaced or ignored, a power
loss while the other slot is written. Correct means: an image is booted only if
it is whole and not the one that runs, and the handler goes on after a failure.

**i2c_controller**, **bmp280** and **sys_utils** (`lib/<library>`). One driver
that can be installed once, transactions that may fail, a wait for a time server.
They matter through what they do to the tasks above.

The others, `http_server`, `adc_controller`, `spiffs_controller`,
`err_controller`, `memory_utils`, the other firmwares' own code and `tools/`, are
wrappers of ESP-IDF, arithmetic or scripts without protocol state;
`PROJECT.json` gives the reason for each. It also lists
the hazards, each at the line where it bites, with the properties that cover it.

## The modules

| module | models |
|---|---|
| `WifiController` | `wifi_controller.c`: life cycle, station, access point, scan, event handlers; the driver as environment |
| `CExceptionFrames` | the macros of `CException.h` and `Throw` of `CException.c`, for any assignment of tasks to slots; implements `TryBlocks` |
| `TryBlocks` | abstract: nested blocks, errors that close the innermost one, and the `Catch` that gets them |
| `CredentialStore` | abstract: what the flash promises about credentials |
| `WifiManager` | `wifi_manager.c`, `wifi_http_server.c`, the NVS calls they make, the boot sequence of `main.c`; implements `CredentialStore` |
| `RemoteLogger` | `logger.c` and the `LOG_*` macros, `cli_manager.c`, and what it calls of `tcp_controller.c` |
| `ImageSlots` | abstract: a slot that is written, marked and started, and never started unless whole |
| `HttpClient` | `http_client.c`: the handles of the requesting tasks and how a request may end |
| `OtaUpdate` | `ota_controller.c` and `helper_perform_ota`, with the two slots for images |
| `SensorNode` | the connected firmware: `on_connect_handler` and the tasks it creates, composed with `HttpClient` and `OtaUpdate`; implements `ImageSlots` |
| `Pool` | abstract: what `arena.h` promises of an arena |
| `Arena` | `arena.c` on a memory of words; implements `Pool` |
| `MCWifi`, `MCFrames`, `MCManager`, `MCLogger`, `MCNode`, `MCArena` | instances for TLC |
| `WifiControllerProofs`, `CExceptionFramesProofs`, `WifiManagerProofs`, `RemoteLoggerProofs`, `SensorNodeProofs`, `ArenaProofs` | theorems |

Definitions whose comment starts with "Mutant:" are variants of the definition
that follows them, with a plausible bug; `PROJECT.json` lists
which property each of them must break.

### WifiController

`st` is `wifi_c_status` (fields under their own names, addresses and names cut
down to what a property tells apart), `callbacks` its non-NULL callback
pointers, `group` the event group, `retry_num` and `scan` the static counter
and table, `netifs` and `loop` the objects ESP-IDF holds for the controller, `queue`
the events posted and not yet dispatched, `drv` the driver. `pc` and `call` say
where each task is in a library call and with which arguments, `ev` where the
event loop task is in a handler.

A call is cut where it blocks or calls the driver, so that handlers and other
tasks run in between:

| code | actions |
|---|---|
| `wifi_c_init_wifi` | `InitWifi`, `InitCreate`, `InitDriver`, `InitDone` |
| `wifi_c_change_mode` | `ChangeMode`, then the steps of deinitialization and initialization |
| `wifi_c_deinit` | `Deinit`, `DeinitDisconnect`, `DeinitDriver`, `DeinitGroup`, `DeinitLoop`, `DeinitClear` |
| `wifi_c_start_sta` | `StartSta`, `StaConfig`, `StaConnect`, `StaResult` |
| `wifi_c_start_ap` | `StartAp`, `ApConfig` |
| `wifi_c_disconnect` | `Disconnect`, `DisconnectUpdate` |
| `wifi_c_*_register_*_handler` | `Register` |
| `wifi_c_scan_all_ap` | `ScanAllAp`, `ScanStart`, `ScanUnblocked`, `ScanWait`, `ScanRead`, `ScanFails` |
| `wifi_c_store_scan_result_as_json` | `StoreScanResult`, `JsonWait`, `JsonRead` |
| `wifi_c_sta_event_handler`, `wifi_c_ap_event_handler` | `HandleStaStart`, `HandleStaDisconnected`, `HandleGotIp` and `GotIpSetBit`, `HandleScanDone` and `ScanDoneFlag`, `HandleStation`, `CallbackReturns` |
| the driver (external) | `LinkUp`, `ConnectFails`, `LinkLost`, `ScanFinished`, `StationJoins`, `StationLeaves` |

Decisions a reader should know of:

- One task, the Owner, initializes, connects and deinitializes, as the app task
  of the firmwares does. Scans and scan results belong to the Scanners, of which
  the firmwares have one, the http server's task.
- A driver call fails for a reason the model has (no driver, wrong mode, busy)
  or, during an initialization, for any reason if `InitMayFail`. Two calls may also
  be refused without one: `esp_wifi_disconnect`, and, if `ConnectMayFail`,
  `esp_wifi_connect`. The event handler counts its retry and ignores the refusal
  (`wifi_controller.c:147`); `drv.refused` remembers it until something connects.
- `wifi_c_deinit` looks at no result. `DeinitDriver` stands for its three calls that
  stop and delete the driver and delete the netifs; none of them blocks or
  waits for a handler, and the errors they may return change nothing that is kept.
- A bit set in an event group that was deleted changes nothing the model keeps.
  On the device it is a write to freed memory; that the group is deleted before
  the loop that uses it is listed as a hazard.
- A scanner that is blocked in the driver when it is stopped has its scan
  failed or goes on to wait for the bit, also if the driver has been started
  again by the time it runs.
- The result pointer of the calls that have one is never NULL, as in all of the
  firmwares' calls.

### CExceptionFrames

`pFrame` and `exception` are the slots, `prev` the `PrevFrame` local of each Try
block, `depth` how many blocks a task has open, `pc` the step of the macro it is
at; `thrown` remembers what a task threw until its `Catch` has tested it. Each
access to a slot is a step: `TrySave`, `TrySet`, `TryClear` for `Try`,
`ThrowStore` and `Jump` for `Throw`, `HappyEnd` or `ReadException`, then
`Restore` and `Check`, for the end of the block and `Catch`. `ReturnFromTry`
leaves a block without those, as `helper_perform_ota`
(`lib/esp_helper_utils/src/esp_helper_utils.c:73` and 98) and
`wifi_c_scan_for_ap_with_ssid` do; the tasks that may do so are a constant. The
stack place of a block that was left is reused by the next block of the same
depth. A jump to a block the task does not have open is undefined: the task is
`lost`.

`TryBlocks` knows neither frames nor slots: a task has a number of open blocks,
an error it has thrown or one that its `Catch` has been given. The refinement
`Blocks` is about the tasks that do not return from inside a block. `thrown` is
mapped to what is on its way up to the closing of the block, `caught` to what the
test of `Catch` will find in the task's slot (`Tested`).

`IdOf` is `CEXCEPTION_GET_ID`. One instance gives each task its slot, the other
the one slot of the default configuration, which all the firmwares use.

### WifiManager and CredentialStore

`flash` holds the two keys, `space` says whether their namespace exists, `nvs`
whether the partition is initialized. `boot` follows `app_main` and
`wifi_manager_init` through their calls, with `read` for their locals and
`inUse` for what `wifi_c_start_sta` was last given; `web` follows the http server
task, with the request's `cred` and the `answer`. `before` remembers the flash at
the beginning of a store or erasure, `failed` whether one of its calls has
failed. `wifi_controller` appears as calls that
succeed or fail: its inside is the other module.

`Reboot` keeps the flash and nothing else; `Crash` may do it between any two
steps (a power loss, or `inspect_heap_task`'s `esp_restart`), `Restart` is the
one the requests ask for. `InitPartition` may erase the partition when it has no
free pages. `nvs_erase_all` is modelled key by key, `nvs_c_write_string` as a
write that is committed or fails.

- A value is read back if it fits in the 64 bytes `wifi_manager_init` has for it.
  The server accepts 64 characters (`wifi_http_server.c:160` and 171), which are 65
  bytes with the terminator: `nvs_c_read_string` refuses them with `ERR_C_NO_MEMORY`
  (`nvs_controller.c:222`), and `wifi_manager_init` goes on to the access point.
  `LongSsids` and `LongPasswords` are the credentials with such a value. Other
  errors of reading a key that is present are not modelled.
- The second initialization of an erased partition may fail. If the erasure
  itself fails, `ESP_ERROR_CHECK` (`nvs_controller.c:28`) restarts the device; in the
  model that is a `Crash`, and as those are bounded, a flash that can never be
  erased, on which the device restarts for ever, is outside `BootTerminates`.
- The server runs only after the partition was initialized, so the branch of
  `wifi_manager_erase_ap` that initializes it is not taken.
- The ssid and the password of one access point are one value of `Creds`, so
  that a pair of different values is recognised as mixed.

`CredentialStore` is what this is for. A request (`op`) stores or erases. If none
of its calls fails it ends in `Succeed`: both values are stored, or both are gone.
If one fails (`Fail`), or the device restarts meanwhile (`Reboot`), `Damage` says
what may be left: the new ssid with the old password, or one of two keys that were
to be erased; never the old ssid with a new password. Outside requests only `Open`
changes what is stored, the opening of the partition at boot, which may have to
erase it. `Connect` uses what is stored. `WifiManager!StoreImplemented` maps
`stored` to the flash, or to `before` while a store or erasure is half done, `op` to
the request until its last call (`Op`), `open` to `nvs` and `failed` to itself: a
request that was not carried out whole needs a failure the manager really met.

### RemoteLogger

`mutex` is the set of tasks that hold the logger's mutex, `logfiles` and
`logfiles_num` the table, `log` where each task is in a `LOG_*` macro, `acc` where
`cli_accept_task` is, with its local `file`; `listen` and `sockets` are the
listening socket and the clients' sockets. `heard` remembers the last part of a
message each client's file was given; `crashed` says that a NULL file was written
to, which ends the behaviour.

A macro is `LogCall` (it is reached), `Lock`, and then for each of the three parts
of a message and the flush one `WriteFile` per entry of the table, with the number
of files read anew, and `LoopEnds`. `cli_set_remote_logging` is
`SetRemoteLogging`; a turn of `cli_accept_task` is `AcceptClient` or
`AcceptFails`, `OpenFile`, `AddFile` and `CountFile` and, when the table is full,
`ClearFiles`, `ResetNumber` and the second `AddFile` and `CountFile`. The two
assignments of the table's functions are steps of their own because other tasks
run between them. The task's own messages go through the same macro;
`AddressUnknown` is a macro reached from the arguments of another.

- A message above the log level is only flushed. Whether one is is left open.
- The clients' sockets are blocking and have no send timeout. A write to a client
  that does not read may stay "blocked", with the mutex held, until the client reads
  again or its connection is reset (`WriteReturns`); it need never be.
- The `memset` of `logger_clear_all_log_files` is one step.
- A number of a socket that was closed is not given to another socket.

### SensorNode, HttpClient and OtaUpdate

`SensorNode` begins where the station first gets an address. `pending` counts
the addresses that were got, `connections` the calls of `on_connect_handler`;
`handler` is where the event loop task is in it. Each call creates a set of
tasks, numbered by the connection: `at[n]` is where the sampling task of
connection `n` is, with its locals `device` (the bmp handle), `iteration`,
`slots` (which entries of its arrays are not zero), `avg` (which entries, of this
cycle and of earlier ones, its averages are sums of) and `bus` (whether the bus
handle it was given is not NULL). `client` and `handles`, of `HttpClient`, are the
handles of the requesting tasks, `links` the I2C command links that were lost.
`good` and `upload` are history: what was read in this cycle, and how often the
server has stored the averages and without the task knowing.

| code | actions |
|---|---|
| `on_connect_handler` | `OnConnect`, `Update`, `SetupNtp` and `WaitForNtp`, `InitBus`, `CreateTasks` |
| `helper_perform_ota`, `ota_c_start` | `OtaStart`, `OtaBegin`, `OtaDescribe`, `OtaPerform` (one piece of the image each, or none), `OtaComplete`, `OtaFinish`, `OtaRestart` |
| `read_temperature_task` | `InitSensor`, `Describe` or `Panic`, `InitClient`, `ReadSample`, `Average`, `Post`, `DeinitClient`, `ReinitClient`, `PostAgain`, `NextCycle` |
| `update_wifi_info_task` | `Report`, with `PostBegin` and `PostEnd` of `http_client_post` |
| `inspect_heap_task` | `InspectHeap` |
| the rest of the world (external) | `GotIp`, `ClockSet`, `NewVersion`, `PowerLoss` |

- A request ends with an answer, without one although the server has it, or
  unsent. An answer with an error status is an answer like any other: the library
  does not look at the status (`http_client.c:385`). `esp_http_client_init` may
  return NULL, which the library does not look at; what it made is then "hollow",
  and every request with it fails.
- `bmp_init` finds no sensor, finds one and fails after that, or succeeds; the
  task goes on in all three cases. With no sensor the handle is NULL, and the
  message about the sensor reads through it: the device restarts (`Panic`). A
  readout that fails leaves the entry zero, and that zero is averaged.
- A failed I2C transaction loses its command link, because the test at
  `i2c_controller.c:149` is inverted. `HeapLinks` lost links are a low heap.
- The loop of the update (`ota_controller.c:176`) has no bound, and
  `esp_https_ota_perform` may return without data: such a turn of `OtaPerform`
  changes nothing.
- The description of the running image can be read. `ota_c_validate_image` ignores
  the error if it cannot (`ota_controller.c:89`) and would take the same version for
  a new one; what `RestartMeansUpdate` and `UpdateImplementsSlots` say about the
  version rests on this.
- Either driver call of `i2c_c_init_bus` may fail at the first connection too; the
  tasks of that connection then have no bus.
- `esp_https_ota_finish` marks the other slot for booting only if its image is
  whole; a power loss keeps the slots and forgets everything else.
- `ImageSlots` is what the update is for: the slot that does not run may be
  written, and lose its image, for another version only; it is marked when it
  holds a whole image and not touched from then on; whatever starts is whole.
  `other` and `switch` are its `whole` and `marked`, every restart is its `Boot`,
  and the steps of the update in between show as `Write`, `Mark` or nothing.
- The mutex of an I2C device has one user and is left out. So is the
  calculation of the altitude.
- All restarts (`Restart`) keep what is in flash and nothing else; the boot up
  to the next address is `WifiManager`'s.

### Arena and Pool

`mem` is the buffer, word by word, and the memory behind it; the program asks for
elements of one of the `Sizes`, and `ElementSize` is what the code makes of that.
`bufstart`, `lazy_init` and `free_list` are the fields of `arena_obj`. `Free` writes
a node into the element (two words of guard bits and the next free element), which
reaches into the next elements if these are too small; `Recycle` reads it.
`LazyAlloc` gives out the buffer while it lasts. `Store` is the program writing what
it holds, `written` what it wrote last.

The comments say that at least the space for a node is allocated for each element
(`arena.c:78` and 149); the code takes care of the space for a pointer only
(`arena.c:150` and 164), and `arena.h` tells the program nothing. So `Sizes` may hold
smaller ones: a node of a freed element then lies over words of its neighbours
(`Overlaid`), and `DataKept` and `NoFalseAlarm` say how far the harm goes. `NodeFits`
is the condition under which there is none. No firmware uses an arena today.

`Pool` is what a program sees of it: `Give`, `Refuse`, `TakeBack`,
`TakeAllBack`. `Arena!ArenaImplementsPool` maps the elements that are handed out
and the result of the last call to it.

## The runs

| run | checks | shows |
|---|---|---|
| `wifi_safety` | `TypeOK`, `BackendsMatchStatus`, `NetifsMatchMode`, `NoConnectionWithoutLoop`, `ScanTableValid`, `HandlersHaveGroup`, `TruthfulWhileRetrying`, `ShownUntilRetried`, `GivenUpStaysDown`, `NoStaleEvents` | over every interleaving of owner, scanner, event loop task and driver, with initializations that fail half-way, the status stays in step with the objects behind it; no event survives its event loop; a reported failure is final; while a retry is left and none was refused a connection that is shown is there, and until the first retry one that is there is shown; a handler misses its event group only between two steps of a deinitialization; scan results that are announced exist |
| `wifi_liveness` | `LossHandled`, `CallsReturn`, `DeinitFreesAll` | when initializations succeed, a loss of the link is retried or reported unless the driver refuses the retry, calls return, and a deinitialization leaves nothing |
| `wifi_connected_flag` | `StaConnectedTruthful` | violated: see below |
| `wifi_deinit_after_failure` | `DeinitFreesAll` | violated when initializations may fail: see below |
| `frames_own_slots` | `JumpsHome`, `CatchSeesOwnThrow`, `FramesImplementBlocks` | with a slot per task throws and catches stay in their task and block, as `TryBlocks` says; a task that returns from inside a block harms only its own throws |
| `frames_shared_slot` | `JumpsHome` | violated in the default configuration: see below |
| `provisioning` | `TypeOK`, `PortalOnlyAfterTrying`, `StoreImplemented`, `BootTerminates`, `RestartFollows` | through crashes and failing calls the credentials behave as `CredentialStore` says, the portal opens over credentials that can be read back only after they were tried, boots end, and a stored request restarts the device |
| `remote_logging` | `TypeOK`, `TableInStep`, `ClientKept`, `MessagesWhole`, `NullNeedsFullTable`, `LoggingReturns` | although the table is changed without the mutex, each client's file is given whole messages, what counts exists and counts once, a client is served until a newcomer finds the table full, and each newcomer whose file was opened is served in the end, also when a task is blocked and when setup or accepting fails; a NULL file takes more clients than the table has entries; a message that is begun ends unless a client that does not read holds up a task, a task waits for itself or the program has crashed |
| `log_table_cleared` | `NeverWritesToNull` | violated: see below |
| `log_waits_for_itself` | `NeverWaitsForItself` | violated: see below |
| `sensor_node` | `TypeOK`, `HandlesAccounted`, `OneSampler`, `AverageOfCycle`, `DuplicatesExplained`, `RestartMeansUpdate`, `UpdateImplementsSlots`, `SamplingGoesOn`, `OnlyServersHold` | through reconnections, updates, failing readings and requests and power losses one task samples, its uploads are the readings of its cycle and stored again only when an answer was lost, an update restarts into another whole image, as `ImageSlots` says also when it is cut off, the task goes on sampling, and only the wait for a time server and an update's server whose image does not come to its end hold the handler |
| `arena` | `TypeOK`, `DataKept`, `NoFalseAlarm`, `ArenaImplementsPool` | in any order of calls, with elements of one to three words, an arena hands out its elements as the pool its header promises; it keeps the program's data but for words that a neighbour's node reaches, and the guard bits stop a correct program only where elements have no room for a node |

Deadlock is checked in `wifi_safety`, `frames_own_slots` and `sensor_node`. It is
not in the run of `WifiManager`, where a device may sit in a given-up boot with no
crash left, nor where a task may be lost, nor in those of `RemoteLogger`, where a task may block
itself and all the others, nor in `arena`, where `error()` ends the program.

## Bounds

- `RetryCount = 2` in `wifi_safety`, 1 in the others (4 in the code): a retry that is
  made, a loss for which none is left, and the report of it; with two, a retry
  after which one is left. More repeat these; the theorems hold for every number.
- `ScanBuffer = 1` (10): none, as many as fit, and one more than fit are found.
- `MaxQueue = 1`: the driver posts an event of its own only while fewer wait.
  Events caused by calls (a start, a disconnection, a stop) are posted all the same, so
  that several wait at once, in the order in which they were posted. The
  theorems hold for every `MaxQueue`.
- One ssid, one scanner: names are only stored and compared with the empty one;
  the firmwares have one scanning task.
- The modes of `wifi_liveness` and of the violation runs are those the question needs.
- Two tasks, two error codes, `MaxDepth = 2`: one block inside another, on both
  tasks, and a code that could be mistaken for the other.
- `Creds = {home, office, cafe, lab}`: credentials that are stored and others that
  replace them, and one each whose ssid and whose password cannot be read back.
  `MaxCrashes = 2`: a crash, and one during the recovery from it.
- Two writers besides `cli_accept_task`, `MaxFiles = 2` (`LOGGER_MAX_OUTPUT_FILES`
  is 4), four clients: a full table is cleared, the next client is alone in it and
  another joins. `MaxSockets = 4`: three clients and the listening socket, so that
  the fourth client's accept fails. The theorems hold for all of these.

- `Connections = 2` in one boot: the first, and one more while the tasks of the
  first run. `Samples = 1` (20): one entry that is averaged and the one that is
  read after it and is not; more entries repeat the first. `Pieces = 2`: a piece
  that is not the last, and the last. `HeapLinks = 2`: links that do no harm yet,
  and a low heap (some hundreds of links on the device). Restarts are not bounded:
  the state after one is an initial state but for the flash.
- `Count = 3`, `Sizes = {1, 2, 3}`, two values of data: a node with a neighbour on
  either side, a free list of three, elements that are exactly as large as a node,
  and smaller ones, whose node reaches one or two elements behind.

The theorems hold for all values of these, too (`ArenaIsPool` and
`LargeElementsKept` for sizes with room for a node). No symmetry is used: the sets
are small.

## Fairness

- A task inside a call goes on with it, and the event loop task is scheduled
  (weak fairness). Every wait of the calls has a timeout in the code, and the
  event loop task has the highest priority of them. This assumes that the application's
  callbacks return: `on_connect_handler` may not, because `sys_utils.c:64` waits
  for NTP without the timeout it means to have. `SensorNode!OnlyServersHold`
  shows that this and the loop of the update, if its server's image never comes to
  its end, are the only things in it that may not end.
- The driver may refuse a connection (`ConnectMayFail`), and nothing is assumed of
  how often. It ends each connection attempt it accepted and each scan (strong
  fairness, since `MaxQueue` may disable the step for a while). No link need be
  lost, no station need join.
- The app task goes on with the boot and the http server with a request it has
  begun (weak fairness). Nobody need send a request, and crashes are bounded.
- Writers of log messages and `cli_accept_task` go on with a message (weak
  fairness), and a task that waits for the logger's mutex gets it if it is
  returned again and again (strong fairness): FreeRTOS gives it to the waiter of the
  highest priority, and the tasks of higher priority delay between messages. A
  write that waits for a client that does not read need not return: `WriteReturns`
  has no fairness, and `LoggingReturns` excepts a task that is held up so.
- In `SensorNode` the tasks are scheduled and the handler's calls return (weak
  fairness): requests, transactions and the update's calls have timeouts. The loop
  over the pieces of an image has none: nothing is assumed of its turns. No
  request need succeed, no time server need answer, no connection need come, and
  nothing is assumed of restarts. `SamplingGoesOn` accepts that the device
  restarts instead.
- No caller is obliged to start a call.

## The proofs

TLAPS proves the following for every value of the constants that satisfies
their assumptions.

**WifiControllerProofs** (assumption: `ConstantsAssumption`). `TypeCorrect` is
type correctness. The properties of the life cycle are not inductive: each of
them depends on what exists at each step of an initialization or
deinitialization, also of one that failed. `Lifecycle` says so: the event loop
exists exactly while its flag is set, up to the last step of a deinitialization;
the netif flag goes with it; the driver is started exactly while the status says
initialized, or in the last step of an initialization; without a loop there is no
queue and no connection. It is proved inductive action by action
(`LifecycleStep`) and implies `BackendsMatchStatus`, `NetifsMatchMode` and
`NoConnectionWithoutLoop`. `NoStaleEvents` follows from it and `OnlyInitStarts`,
which finds the one action that starts the driver; `GivenUpStaysDown` from
`RetriesSpent` (a failure bit means that no retries are left) and `WhoConnects`.
`ScanTableValid` holds with one scanning task, by `CountBelongsToScan`: a count
without a table belongs to a scan under way. With two it does not: one may set
the count while the other reads; the theorem's assumption says so.
`NothingHalfway` (the driver is off or started,
the event group is there only with a loop) holds where initializations succeed,
and gives `DeinitFreesEverything`: the promise that `wifi_deinit_after_failure`
shows broken after a failure is kept otherwise.

Three theorems relate the status to the link. `TruthfulWithRetries` gives the
condition under which the header's statement about `sta_connected`, violated in
`wifi_connected_flag`, is true: a retry is left and the driver has refused none
since the last connection. Neither the handler of a lost
link nor `wifi_c_start_sta` sees to it, so the invariant has to follow the events.
`ConnectionTracked` says that whatever tells of a connection, the status or a
`STA_GOT_IP` still in the queue (`Claims`), is backed by a driver running as a
station, and that, while a retry is left, a link that is down is `Announced` by a
`STA_DISCONNECTED` behind it. A step that posts an event, takes the first one or
stops the driver moves the queue under the quantifiers, which is what most of the
lemmas are about. `ShownBeforeRetries` is the converse, by `ConnectionShown`: a link
that is up is shown or about to be, and the link of a `wifi_c_disconnect` under way
is down. It stops at the first retry, and TLC shows why: later the handler
may connect again between the two steps of that call, which then clears the
status of a connection that exists. `HandlersFindGroup` follows from `Lifecycle` and
`HandlerInLoop`: the loop is deleted only when no handler runs, and the queue with it.

**CExceptionFramesProofs** (assumptions: `FramesAssumption` and, for the
theorems, `OwnSlots`: no two tasks share a slot). `FramesInv` says that the slot of a task
that does not return from inside its blocks is the head of the chain of exactly
the blocks it has open (`Chained`), and that the slot's exception is what the
task threw from `Throw` to the end of `Catch` (`SlotKeepsThrown`). `JumpsHome`
and `CatchSeesOwnThrow` follow, for any number of tasks, codes and depths.
`FramesAreBlocks` is the refinement: under `FramesInv` a step of a careful task is
one step of `TryBlocks` of that task (`BlocksNext`) or changes nothing it shows, and a
step of any other task leaves the slots of the careful ones alone (`SeenOfOthers`).
So what `TryBlocks` says holds even beside tasks that return from inside a block.

**WifiManagerProofs** (assumption: `ManagerAssumption`). `ManagerInv` adds to the
types that requests run only in the portal, that keys need their namespace, that
boot's locals are what the flash holds (nothing writes during a boot), what
a half-done store or erasure looks like (`HalfDone`), and that none of a request's
calls has failed while it still goes on (`Untroubled`). It gives
`PortalOnlyAfterTrying` and the step simulation behind `ManagerImplementsStore`:
every step of the manager is a step of `CredentialStore` or a stutter. The last step
of a request without a failure is `Succeed` and nothing weaker, since `failed` is
part of the mapping.

**RemoteLoggerProofs** (assumption: `LoggerAssumption`). `TableInv` says what the
table holds at each step of `cli_accept_task`: the slots beyond the number of
files are empty but for the file being added (`TableFilled`), and that file's
client is in no slot that counts (`Newcomer`); with `Added`, that `cli_accept_task`
never has to give a newcomer up, it is inductive and gives `TableInStep` and the
types. `ClientsKept` is a fact about one step from it: each action leaves the files
that count below the number, but for the two of a clearing, which begins only when
the table is full. `MessagesWhole` needs three more
parts: only the holder of the mutex is in the loops (`MutexHeld`), a client hears
nothing before its file counts (`NothingHeard`), and a client that has heard
anything is at the part of the task in the loop, or has heard a whole message
(`HeardInStep`). A client that is added while a task is in the loop joins in the
middle of a message; it has heard nothing, which is why the property lets a
client's first message be incomplete.

The two faults that the runs find are bounded by theorems. `RoomForAll` says that
the files that count, with the one being added, are no more than the
sockets that were opened, and that nothing is cleared before there are more sockets than
entries. With `TableInv`, by which an entry below the number of files is
NULL only while the table is being cleared, it gives `NullAfterFullTable`, and from
that `NoNullWithFewClients`: with at most `MaxFiles` clients the fault of
`log_table_cleared` cannot happen. `NoSelfWaitWithLastingClients` shows that
`AddressUnknown`, the macro among a macro's arguments, is the only way to
`log_waits_for_itself`: if no client is gone before its address is logged and the
listening socket can be set up, no task waits for itself.

**SensorNodeProofs** (assumptions: `PiecesAssumption`, `NodeAssumption`).
`NodeInv` puts together what each property needs to be inductive. For
`OneSampler`: the driver is installed from the first bus handle on, at most one
connection's tasks were given one, only a task with a bus has a sensor, and only
one with a sensor gets past `Describe`. For `AverageOfCycle`: the arrays hold just
what was read in this cycle until they are averaged, nothing afterwards, and
averages left from a failed upload are marked as such in `upload`. For
`DuplicatesExplained`: how many copies the server may have at each step of the two
attempts. For `HandlesAccounted`: a task makes a handle only when it has given up
its last. For `RestartMeansUpdate`: what the slot, the version and the mark are
at each step of the update. `RestartMeansUpdate` then is a fact about one step.
`UpdateIsOfSlots` needs one thing more, `UpdateInHandler`: there is no update outside
the handler, and a marked slot waits for the restart, so that another connection
cannot begin an update that writes it. With it each step of the firmware, the
restarts at any step of an update included, is a step of `ImageSlots` or changes
nothing it shows (`NodeStepsSlots`).

**ArenaProofs** (assumption: `ArenaAssumption`). `ArenaInv` has two parts. `Kept`
holds for elements of any size: the types, and `DataKept`, since what `Free` writes
outside of its element is `Overlaid` by definition of where its node lies. `Listed`
holds where nodes fit: there is a sequence of elements without repetition that
starts at `free_list`, follows the pointers in the elements' nodes to `Null`, and
contains just the elements that the buffer has given out and the program does not
hold, each with its guard bits. With room for a node in each element what `Free`
writes stays in the element, so that the list survives; without it it does not.
`DataIsKept` and `NeverFalseAlarm` follow without any assumption on `Sizes`.
`LargeElementsKept` and `ArenaIsPool` assume that each of the `Sizes` has room for a
node: then data stays whole and no correct program is stopped, and the step
simulation holds, in which `Recycle` gives an element that is not handed out, and
`RecycleNothing` refuses only when all are. For smaller elements the pool is only
model-checked, in the instance of three elements.

Only model-checked: the liveness properties (`LossHandled`, `CallsReturn`,
`BootTerminates`, `RestartFollows`, `LoggingReturns`, `SamplingGoesOn`,
`OnlyServersHold`), which are out of the prover's reach. The
violated properties are TLC's counterexamples.

## What the code does otherwise than it says

1. `wifi_connected_flag`: `wifi_controller.h:73` documents `sta_connected` as
   "True if STA is connected to some AP." The handler of a lost link does not
   clear it (`wifi_controller.c:145`), so after the last retry the status, and
   what reads it, still shows a connection and an address. Up to then the
   statement is true (`TruthfulWithRetries`), unless the driver refuses a retry:
   the handler ignores that, and the status shows a connection that neither event
   nor retry will ever correct.
2. `wifi_deinit_after_failure`: `wifi_controller.h:372` promises that
   `wifi_c_deinit` frees all resources. After an initialization that failed
   half-way its flags do not say what was built: a driver that was initialized
   and not started, or an event group without a loop, stays.
3. `frames_shared_slot`: `CException.h:32` and its README ask for a frame stack
   per task in a multitasking environment; the configuration has one for all,
   and a `Throw` may jump into another task's block.
4. `log_table_cleared`: `logger.c:29` has a mutex "used to synchronize logging",
   and `cli_accept_task` clears the table without it (`cli_manager.c:48`). A
   writer between the two assignments calls `vfprintf` with NULL. It takes more
   clients than the table has entries (`NullAfterFullTable`).
5. `log_waits_for_itself`: `tcp_accept_client` logs a new client's address. If
   the client is already gone, `tcp_get_client_socket_ip`, called among the
   arguments of that `LOG_INFO`, logs the error while its own task holds the
   mutex. The task blocks, and so does every task that logs afterwards.

The models show three more places where code and comment differ, which the
properties describe as they are. `arena.c:78` and 149 say that elements have at
least the space of a node, the code gives them that of a pointer (`arena.c:150` and
164): with smaller elements a free overwrites what neighbours hold, and a correct
program may be stopped by the guard bits. `wifi_manager.c:234` says that stored
credentials are tried; a ssid or password of 64 characters is stored and cannot
be read back, and the access point opens without an attempt. `wifi_controller.c:147`
retries a lost connection and ignores a refusal, after which the station is down and
nobody is told.

The models also show behaviour that no document speaks about. One client of remote
logging that reads nothing stops every task that logs, since the writer waits for it
with the mutex held. An update's server that sends nothing more may hold the event
loop task in the loop of the update. `GET /saved_ap` of
a device with nothing stored fails, because the handler tests for an error code
that is never returned (`wifi_http_server.c:198`). `clear_handler` reports success
after a failure (`wifi_http_server.c:235`). The device restarts when it
reconnects, because the new sampling task has no sensor (`main.c:82`). The update
leaves a handle behind at each connection without a new version
(`ota_controller.c:173`). One sample of each cycle is read and not used
(`main.c:102`).

## What is not modelled

- Of `wifi_controller`: the getters, the status JSON (they only read), and
  `wifi_c_print_scanned_ap` and `wifi_c_scan_for_ap_with_ssid`, which combine the
  modelled steps and which no firmware calls.
- Of `wifi_manager`: the pages that only send data, and
  `wifi_manager_start_ap_and_server`, which no firmware calls.
- Of `nvs_controller`: the typed reads and writes and the iterator.
- Of `logger`: changes of level and silent mode, `logger_esp_log`, standard error.
  Of `tcp_controller`: what no firmware calls.
- The bytes of strings, JSON and addresses, and the text of log messages.
- Memory that is used after it was freed has no effect in the models.
- Of `http_client`: the GET requests, which the bmp280 firmware does not make, and the
  copying of answers into buffers. Of `ota_controller` and `esp_helper_utils`:
  what no firmware calls. Of `i2c_controller` and `bmp280`: register contents and the
  compensation arithmetic, data of one task.
- `linked_list`: no firmware calls it; it is sequential, and its mistakes are those
  of single calls. `http_server`, `adc_controller`, `spiffs_controller`: thin
  wrappers of ESP-IDF calls, the first two unused by this firmware.
- The checks of `arena.c` that a build with `HEAP_CHECK` would have: such a build
  does not compile as the code stands (`struct arena` is not declared).
- The other firmwares' own code. `plantsitter` samples as the bmp280 firmware does,
  with one-shot requests; `relays` asks the server for the states of its pins and
  sets them; the sampling task of `rfider` is empty; `lib_tests` are test programs.
  The copies of the libraries under them and under `libraries/` are not modelled
  apart from the reference copy.
- `tools/`: scripts of the developers' machines.

## Plan

Done, in this order: `WifiController` with its runs and proofs, `CExceptionFrames`
with its own, `CredentialStore` and `WifiManager` with the refinement,
`RemoteLogger` with its own, `HttpClient`, `OtaUpdate` and `SensorNode` with
theirs, `Pool` and `Arena` with the refinement and its proof, `TryBlocks` and
`ImageSlots` with theirs.

Left, and worth it if the code moves that way:

1. `plantsitter`'s task over `HttpClient`, with the numeric result of
   `http_client_post` (`http_client.c:181`), by which it drops or repeats an
   average.
2. `LinkedList` against an abstract sequence of names, once something uses it.
3. Two scanning tasks in `WifiController`, and remote logging that recovers
   from a failed accept, once the code means to support them.
