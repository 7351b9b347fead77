--------------------------- MODULE WifiController ---------------------------
(***************************************************************************)
(* wifi_controller: the library every firmware of the repository connects  *)
(* with.  Three parties share its static state:                            *)
(*   - caller tasks, which run one library call at a time (the Owner task  *)
(*     runs app_main and manages the life cycle; Scanners are the tasks    *)
(*     that scan and read scan results, such as the http server's);        *)
(*   - the event loop task, which runs the two event handlers and, from    *)
(*     them, the callbacks the application registered;                     *)
(*   - the ESP-IDF driver (external), which changes the link and posts     *)
(*     events at any time.                                                 *)
(* A call is cut into one step per blocking point or driver call, so that  *)
(* handlers and other tasks run between them.                              *)
(***************************************************************************)
EXTENDS Naturals, Sequences, FiniteSets

CONSTANTS
    Owner,        \* the task that initializes, connects and deinitializes
    Scanners,     \* the tasks that scan and read the scan results
    AppModes,     \* modes the application asks for
    Ssids,        \* names an access point may have
    RetryCount,   \* WIFI_C_STA_RETRY_COUNT
    ScanBuffer,   \* WIFI_C_BUFFER_SCAN_SIZE
    Callbacks,    \* the callbacks the application may register
    MaxQueue,     \* the driver posts no event of its own when this many wait
    InitMayFail,  \* whether driver calls of wifi_c_init_wifi may return an error
    ConnectMayFail \* whether esp_wifi_connect may refuse a station that is down

ASSUME ConstantsAssumption ==
    /\ Owner \notin Scanners
    /\ AppModes \subseteq {"STA", "AP", "APSTA"}
    /\ RetryCount \in Nat
    /\ ScanBuffer \in Nat \ {0}
    /\ Callbacks \subseteq {"sta_connect", "sta_disconnect",
                        "ap_connect", "ap_disconnect"}
    /\ MaxQueue \in Nat \ {0}
    /\ InitMayFail \in BOOLEAN
    /\ ConnectMayFail \in BOOLEAN
    /\ "none" \notin Ssids

VARIABLES
    st,         \* wifi_c_status, without its callback pointers
    callbacks,  \* the callback pointers of wifi_c_status that are not NULL
    group,      \* wifi_c_event_group: is the object alive, and its bits
    retry_num,  \* wifi_sta_retry_num
    scan,       \* wifi_scan_info: ap_count and whether ap_record is set
    netifs,     \* netif objects that exist (netif_handle_sta, netif_handle_ap)
    loop,       \* does the default event loop exist?
    queue,      \* events posted to it and not yet dispatched
    ev,         \* what the event loop task is doing
    drv,        \* state of the ESP-IDF Wi-Fi driver
    pc,         \* where each caller task is in its library call
    call        \* the Owner's call: the function and its arguments

vars == <<st, callbacks, group, retry_num, scan, netifs, loop, queue, ev, drv,
          pc, call>>

-----------------------------------------------------------------------------

Tasks == {Owner} \cup Scanners

Modes == {"STA", "AP", "APSTA"}
NoMode == "NO_MODE"
StaModes == {"STA", "APSTA"}
ApModes == {"AP", "APSTA"}

Bits == {"CONNECTED", "CONNECT_FAIL", "SCAN_DONE", "STA_STARTED"}

EventKinds == {"STA_START", "STA_DISCONNECTED", "STA_GOT_IP", "SCAN_DONE",
               "AP_STACONNECTED", "AP_STADISCONNECTED"}

InitSteps == {"create", "init_driver", "init_done"}
DeinitSteps == {"deinit_disconnect", "deinit_driver", "deinit_group", "deinit_loop",
                "deinit_clear"}
OwnerSteps == {"idle", "sta_config", "sta_connect", "sta_result", "ap_config",
               "disc_update"} \cup InitSteps \cup DeinitSteps
ScanSteps == {"idle", "scan_start", "scan_block", "scan_retry", "scan_wait",
              "scan_read", "json_wait", "json_read"}

Operations == {"init", "start_sta", "start_ap", "change_mode", "deinit",
               "disconnect"}

\* What the Owner's calls return: ERR_C_OK, WIFI_C_ERR_*, ERR_C_WRONG_ARGS or a
\* code of ESP-IDF.
Codes == {"OK", "ALREADY_INIT", "WRONG_MODE", "NULL_SSID", "WRONG_PASSWORD",
          "NOT_CONNECTED", "CONNECT_FAIL", "TIMEOUT_EXPIRE", "NOT_STARTED",
          "WRONG_ARGS", "ESP_ERR"}

\* What a status field may show as an ssid, and what a call may be given.
Names == Ssids \cup {"none", ""}

Statuses == [wifi_initialized : BOOLEAN, netif_initialized : BOOLEAN,
             wifi_mode : Modes \cup {NoMode}, even_loop_started : BOOLEAN,
             sta_started : BOOLEAN, ap_started : BOOLEAN, scan_done : BOOLEAN,
             sta_connected : BOOLEAN, sta_ip : {"0.0.0.0", "leased"},
             sta_ssid : Names, ap_ssid : Names]

\* refused is a history: the last reconnection the event handler asked for was
\* refused, and nothing has connected since.
Drivers == [power : {"off", "inited", "started"}, mode : Modes,
            link : {"down", "connecting", "up"}, refused : BOOLEAN,
            scanning : BOOLEAN, station : BOOLEAN]

Groups == [alive : BOOLEAN, bits : SUBSET Bits]
ScanTables == [ap_count : 0..ScanBuffer, ap_record : BOOLEAN]
Calls == [op : Operations \cup {"none"}, mode : Modes, ssid : Ssids \cup {""}]

\* Each task is at a step of its own calls.
StepsOK ==
    /\ pc \in [Tasks -> OwnerSteps \cup ScanSteps]
    /\ pc[Owner] \in OwnerSteps
    /\ \A t \in Scanners : pc[t] \in ScanSteps

TypeOK ==
    /\ st \in Statuses
    /\ callbacks \subseteq Callbacks
    /\ group \in Groups
    /\ retry_num \in 0..RetryCount
    /\ scan \in ScanTables
    /\ netifs \subseteq {"sta", "ap"}
    /\ loop \in BOOLEAN
    /\ queue \in Seq(EventKinds)
    /\ ev \in {"idle", "got_ip", "scan_flag", "callback"}
    /\ drv \in Drivers
    /\ call \in Calls
    /\ StepsOK

NoCall == [op |-> "none", mode |-> "STA", ssid |-> ""]

\* The static initializer of wifi_c_status, also what wifi_c_deinit restores.
ClearedStatus ==
    [wifi_initialized |-> FALSE, netif_initialized |-> FALSE,
     wifi_mode |-> NoMode, even_loop_started |-> FALSE, sta_started |-> FALSE,
     ap_started |-> FALSE, scan_done |-> FALSE, sta_connected |-> FALSE,
     sta_ip |-> "0.0.0.0", sta_ssid |-> "none", ap_ssid |-> "none"]

DriverOff == [power |-> "off", mode |-> "STA", link |-> "down",
              refused |-> FALSE, scanning |-> FALSE, station |-> FALSE]

Init ==
    /\ st = ClearedStatus
    /\ callbacks = {}
    /\ group = [alive |-> FALSE, bits |-> {}]
    /\ retry_num = 0
    /\ scan = [ap_count |-> 0, ap_record |-> FALSE]
    /\ netifs = {}
    /\ loop = FALSE
    /\ queue = <<>>
    /\ ev = "idle"
    /\ drv = DriverOff
    /\ pc = [t \in Tasks |-> "idle"]
    /\ call = NoCall

-----------------------------------------------------------------------------
(***************************************************************************)
(* Helpers                                                                 *)
(***************************************************************************)

\* The interfaces wifi_c_init_netif creates, and wifi_c_netif_deinit destroys.
NetifsOf(mode) ==
    (IF mode \in StaModes THEN {"sta"} ELSE {})
    \cup (IF mode \in ApModes THEN {"ap"} ELSE {})

Posted(kind) == Append(queue, kind)

\* Setting a bit of a deleted event group changes nothing the model keeps.
WithBit(b) == IF group.alive THEN [group EXCEPT !.bits = @ \cup {b}] ELSE group

CanConnect == drv.power = "started" /\ drv.mode \in StaModes /\ drv.link = "down"

\* esp_wifi_connect succeeds.
Connects == drv' = [drv EXCEPT !.link = "connecting", !.refused = FALSE]

CanScan == /\ drv.power = "started"
           /\ drv.mode \in StaModes
           /\ drv.link # "connecting"
           /\ ~drv.scanning

At(t, label) == pc[t] = label
Goto(t, label) == pc' = [pc EXCEPT ![t] = label]

\* The Owner's call returns; the locals of the function are gone, and the code
\* it returns is the caller's.
Return(code) == code \in Codes /\ Goto(Owner, "idle") /\ call' = NoCall

\* The Owner's call goes on.
Continue(label) == Goto(Owner, label) /\ UNCHANGED call

\* The Owner enters a library function and gets to its first blocking point.
Enter(op, mode, ssid, label) ==
    /\ Goto(Owner, label)
    /\ call' = [op |-> op, mode |-> mode, ssid |-> ssid]

\* Groups of variables that most steps leave alone.
backends == <<netifs, loop, group>>
appVars == <<st, callbacks, scan>>
evVars == <<retry_num, ev>>
callVars == <<pc, call>>

-----------------------------------------------------------------------------
(***************************************************************************)
(* wifi_c_init_wifi, wifi_c_change_mode, wifi_c_deinit                     *)
(***************************************************************************)

InitWifi(mode) ==
    /\ At(Owner, "idle")
    /\ \/ /\ st.wifi_initialized /\ st.wifi_mode = mode
          /\ Return("ALREADY_INIT")
       \/ /\ st.wifi_initialized /\ st.wifi_mode # mode
          /\ Enter("init", mode, "", "deinit_disconnect")
       \/ /\ ~st.wifi_initialized
          /\ Enter("init", mode, "", "create")
    /\ UNCHANGED <<appVars, backends, evVars, queue, drv>>

\* An initialized controller is deinitialized by wifi_c_init_wifi, any other
\* one by wifi_c_change_mode itself.
ChangeMode(mode) ==
    /\ At(Owner, "idle")
    /\ \/ /\ st.wifi_mode = mode
          /\ Return("WRONG_MODE")
       \/ /\ st.wifi_mode # mode
          /\ Enter("change_mode", mode, "", "deinit_disconnect")
    /\ UNCHANGED <<appVars, backends, evVars, queue, drv>>

Deinit ==
    /\ At(Owner, "idle")
    /\ Enter("deinit", "STA", "", "deinit_disconnect")
    /\ UNCHANGED <<appVars, backends, evVars, queue, drv>>

\* xEventGroupCreate, wifi_c_create_default_event_loop, wifi_c_init_netif.  The
\* new event group replaces the handle of the old one, whether or not the event
\* loop can be created; a second default event loop cannot.
InitCreate ==
    /\ At(Owner, "create")
    /\ group' = [alive |-> TRUE, bits |-> {}]
    /\ \/ /\ loop \/ InitMayFail
          /\ Return("ESP_ERR")
          /\ UNCHANGED <<loop, st, netifs>>
       \/ /\ ~loop
          /\ loop' = TRUE
          /\ netifs' = netifs \cup NetifsOf(call.mode)
          /\ st' = [st EXCEPT !.even_loop_started = TRUE,
                             !.netif_initialized = TRUE, !.wifi_mode = call.mode]
          /\ Continue("init_driver")
    /\ UNCHANGED <<callbacks, scan, evVars, queue, drv>>

\* esp_wifi_init, esp_wifi_set_storage, esp_wifi_set_mode, esp_wifi_start: the
\* first may fail, or one of the later ones.
InitDriver ==
    /\ At(Owner, "init_driver")
    /\ \/ /\ InitMayFail
          /\ \E p \in {drv.power, "inited"} : drv' = [drv EXCEPT !.power = p]
          /\ Return("ESP_ERR")
          /\ UNCHANGED queue
       \/ /\ drv' = [DriverOff EXCEPT !.power = "started", !.mode = call.mode]
          /\ queue' = IF call.mode \in StaModes THEN Posted("STA_START") ELSE queue
          /\ Continue("init_done")
    /\ UNCHANGED <<appVars, backends, evVars>>

\* Back in the function that asked for the initialization.
InitDone ==
    /\ At(Owner, "init_done")
    /\ st' = [st EXCEPT !.wifi_initialized = TRUE, !.wifi_mode = call.mode]
    /\ \/ /\ call.op \in {"init", "change_mode"}
          /\ Return("OK")
       \/ /\ call.op = "start_sta"
          /\ Continue("sta_config")
       \/ /\ call.op = "start_ap"
          /\ Continue("ap_config")
    /\ UNCHANGED <<callbacks, scan, backends, evVars, queue, drv>>

\* Mutant: the netifs go only with an initialized driver.
NetifsLeftUnlessInitialized ==
    IF st.wifi_initialized THEN netifs \ NetifsOf(st.wifi_mode) ELSE netifs

\* wifi_c_netif_deinit, and when it is called.
NetifsLeft ==
    IF st.netif_initialized THEN netifs \ NetifsOf(st.wifi_mode) ELSE netifs

\* esp_wifi_disconnect, for a station that the status shows as connected: the
\* driver lets the link go and says so, or returns an error nobody looks at.
DeinitDisconnect ==
    /\ At(Owner, "deinit_disconnect")
    /\ \/ /\ st.sta_connected /\ drv.link # "down"
          /\ drv' = [drv EXCEPT !.link = "down"]
          /\ queue' = Posted("STA_DISCONNECTED")
       \/ UNCHANGED <<queue, drv>>
    /\ Continue("deinit_driver")
    /\ UNCHANGED <<appVars, backends, evVars>>

\* esp_wifi_stop, esp_wifi_deinit, wifi_c_netif_deinit.  A link that is still
\* there, or that the handler asked for again, is lost: STA_DISCONNECTED.
DeinitDriver ==
    /\ At(Owner, "deinit_driver")
    /\ \/ /\ st.wifi_initialized
          /\ queue' = IF drv.link = "down" THEN queue ELSE Posted("STA_DISCONNECTED")
          /\ drv' = DriverOff
       \/ /\ ~st.wifi_initialized
          /\ UNCHANGED <<queue, drv>>
    /\ netifs' = NetifsLeft
    /\ Continue("deinit_group")
    /\ UNCHANGED <<appVars, group, loop, evVars>>

\* vEventGroupDelete
DeinitGroup ==
    /\ At(Owner, "deinit_group")
    /\ group' = IF st.even_loop_started THEN [alive |-> FALSE, bits |-> {}]
                ELSE group
    /\ Continue("deinit_loop")
    /\ UNCHANGED <<appVars, netifs, loop, evVars, queue, drv>>

\* Mutant: the handlers are unregistered and the queue of the loop stays.
DeinitLoopKeepsQueue ==
    /\ At(Owner, "deinit_loop")
    /\ loop' = FALSE
    /\ Continue("deinit_clear")
    /\ UNCHANGED <<appVars, netifs, group, evVars, queue, drv>>

\* Mutant: the loop is not deleted.
DeinitLoopForgotten ==
    /\ At(Owner, "deinit_loop")
    /\ Continue("deinit_clear")
    /\ UNCHANGED <<appVars, netifs, group, loop, evVars, queue, drv>>

\* Mutant: the deletion does not wait for the handler that runs.
DeinitLoopDoesNotWait ==
    /\ At(Owner, "deinit_loop")
    /\ loop' = FALSE
    /\ queue' = <<>>
    /\ Continue("deinit_clear")
    /\ UNCHANGED <<appVars, netifs, group, evVars, drv>>

\* esp_event_loop_delete_default waits for the handler that runs, then drops
\* the events that are still queued.
DeinitLoop ==
    /\ At(Owner, "deinit_loop")
    /\ \/ /\ st.even_loop_started
          /\ ev = "idle"
          /\ loop' = FALSE
          /\ queue' = <<>>
       \/ /\ ~st.even_loop_started
          /\ UNCHANGED <<loop, queue>>
    /\ Continue("deinit_clear")
    /\ UNCHANGED <<appVars, netifs, group, evVars, drv>>

\* Mutant: the connection is not cleared.
DeinitClearKeepsConnection ==
    /\ At(Owner, "deinit_clear")
    /\ st' = [ClearedStatus EXCEPT !.sta_connected = st.sta_connected]
    /\ callbacks' = {}
    /\ \/ /\ call.op = "deinit"
          /\ Return("OK")
       \/ /\ call.op # "deinit"
          /\ Continue("create")
    /\ UNCHANGED <<scan, backends, evVars, queue, drv>>

DeinitClear ==
    /\ At(Owner, "deinit_clear")
    /\ st' = ClearedStatus
    /\ callbacks' = {}
    /\ \/ /\ call.op = "deinit"
          /\ Return("OK")
       \/ /\ call.op # "deinit"
          /\ Continue("create")
    /\ UNCHANGED <<scan, backends, evVars, queue, drv>>

-----------------------------------------------------------------------------
(***************************************************************************)
(* wifi_c_start_sta, wifi_c_start_ap, wifi_c_disconnect, the registrations *)
(***************************************************************************)

StartSta(ssid) ==
    /\ At(Owner, "idle")
    /\ Enter("start_sta", "STA", ssid, IF st.wifi_initialized THEN "sta_config" ELSE "create")
    /\ UNCHANGED <<appVars, backends, evVars, queue, drv>>

\* The driver takes no configuration while it is connecting.
StaConfig ==
    /\ At(Owner, "sta_config")
    /\ \/ /\ st.wifi_mode = "AP"
          /\ Return("WRONG_MODE")
          /\ UNCHANGED st
       \/ /\ st.wifi_mode # "AP" /\ call.ssid = ""
          /\ Return("NULL_SSID")
          /\ UNCHANGED st
       \/ /\ st.wifi_mode # "AP" /\ call.ssid # "" /\ drv.link = "connecting"
          /\ Return("ESP_ERR")
          /\ UNCHANGED st
       \/ /\ st.wifi_mode # "AP" /\ call.ssid # "" /\ drv.link # "connecting"
          /\ st' = [st EXCEPT !.sta_started = TRUE]
          /\ Continue("sta_connect")
    /\ UNCHANGED <<callbacks, scan, backends, evVars, queue, drv>>

\* Two seconds for STA_STARTED (the call goes on without it), then
\* esp_wifi_connect; a station that is already connecting or connected is left
\* as it is, whatever the driver answers.
StaConnect ==
    /\ At(Owner, "sta_connect")
    /\ \/ /\ CanConnect
          /\ Connects
          /\ Continue("sta_result")
       \/ /\ ~CanConnect
          /\ Continue("sta_result")
          /\ UNCHANGED drv
       \/ /\ ~CanConnect \/ ConnectMayFail
          /\ Return("ESP_ERR")
          /\ UNCHANGED drv
    /\ UNCHANGED <<appVars, backends, evVars, queue>>

\* wifi_c_check_sta_connection_result: the bits are compared as a whole.
ConnectionResult(bits) ==
    CASE bits = {"CONNECTED", "STA_STARTED"}    -> "OK"
      [] bits = {"CONNECT_FAIL", "STA_STARTED"} -> "CONNECT_FAIL"
      [] bits = {"STA_STARTED"}                 -> "TIMEOUT_EXPIRE"
      [] bits = {}                              -> "NOT_STARTED"
      [] OTHER                                  -> "WRONG_ARGS"

\* The wait ends with CONNECTED or CONNECT_FAIL, or by its timeout.
StaResult ==
    /\ At(Owner, "sta_result")
    /\ Return(ConnectionResult(group.bits))
    /\ st' = IF ConnectionResult(group.bits) = "OK"
             THEN [st EXCEPT !.sta_ssid = call.ssid]
             ELSE st
    /\ UNCHANGED <<callbacks, scan, backends, evVars, queue, drv>>

StartAp(ssid) ==
    /\ At(Owner, "idle")
    /\ Enter("start_ap", "AP", ssid, IF st.wifi_initialized THEN "ap_config" ELSE "create")
    /\ UNCHANGED <<appVars, backends, evVars, queue, drv>>

\* A password of one to seven characters is refused after the mode and the ssid.
ApConfig ==
    /\ At(Owner, "ap_config")
    /\ \/ /\ st.wifi_mode = "STA"
          /\ Return("WRONG_MODE")
          /\ UNCHANGED st
       \/ /\ st.wifi_mode # "STA" /\ call.ssid = ""
          /\ Return("NULL_SSID")
          /\ UNCHANGED st
       \/ /\ st.wifi_mode # "STA" /\ call.ssid # ""
          /\ Return("WRONG_PASSWORD")
          /\ UNCHANGED st
       \/ /\ st.wifi_mode # "STA" /\ call.ssid # ""
          /\ Return("OK")
          /\ st' = [st EXCEPT !.ap_started = TRUE, !.ap_ssid = call.ssid]
    /\ UNCHANGED <<callbacks, scan, backends, evVars, queue, drv>>

\* Up to esp_wifi_disconnect; the status is updated by a later step, or not at
\* all when the driver returns an error.
Disconnect ==
    /\ At(Owner, "idle")
    /\ \/ /\ ~st.sta_connected
          /\ Return("NOT_CONNECTED")
          /\ UNCHANGED <<queue, drv>>
       \/ /\ st.sta_connected
          /\ queue' = IF drv.link = "down" THEN queue ELSE Posted("STA_DISCONNECTED")
          /\ drv' = [drv EXCEPT !.link = "down"]
          /\ Enter("disconnect", "STA", "", "disc_update")
       \/ /\ st.sta_connected
          /\ Return("ESP_ERR")
          /\ UNCHANGED <<queue, drv>>
    /\ UNCHANGED <<appVars, backends, evVars>>

DisconnectUpdate ==
    /\ At(Owner, "disc_update")
    /\ st' = [st EXCEPT !.sta_connected = FALSE, !.sta_ip = "0.0.0.0",
                       !.sta_ssid = "none"]
    /\ Return("OK")
    /\ UNCHANGED <<callbacks, scan, backends, evVars, queue, drv>>

\* wifi_c_{sta,ap}_register_{connect,disconnect}_handler
Register(cb) ==
    /\ At(Owner, "idle")
    /\ callbacks' = callbacks \cup {cb}
    /\ UNCHANGED <<st, scan, backends, evVars, queue, drv, callVars>>

-----------------------------------------------------------------------------
(***************************************************************************)
(* wifi_c_scan_all_ap, wifi_c_store_scan_result_as_json                    *)
(***************************************************************************)

\* Mutant: the count of wifi_scan_info survives a failed scan.
ScanFailsKeepsCount(t) ==
    /\ Goto(t, "idle")
    /\ scan' = [scan EXCEPT !.ap_record = FALSE]

\* The Catch of wifi_c_scan_all_ap clears the table of the last scan.
ScanFails(t) ==
    /\ Goto(t, "idle")
    /\ scan' = [ap_count |-> 0, ap_record |-> FALSE]

\* ap_count holds the size of the buffer until the scan has ended.
ScanAllAp(t) ==
    /\ At(t, "idle")
    /\ \/ /\ ~st.wifi_initialized
          /\ ScanFails(t)
       \/ /\ st.wifi_initialized /\ st.wifi_mode = "AP"
          /\ ScanFails(t)
       \/ /\ st.wifi_initialized /\ st.wifi_mode # "AP"
          /\ scan' = [scan EXCEPT !.ap_count = ScanBuffer]
          /\ Goto(t, "scan_start")
    /\ UNCHANGED <<st, callbacks, backends, evVars, queue, drv, call>>

\* esp_wifi_scan_start blocks until the scan is over.  A driver that is busy
\* (ESP_ERR_WIFI_STATE) is asked once more after a delay.
ScanStart(t) ==
    /\ pc[t] \in {"scan_start", "scan_retry"}
    /\ \/ /\ CanScan
          /\ drv' = [drv EXCEPT !.scanning = TRUE]
          /\ Goto(t, "scan_block")
          /\ UNCHANGED scan
       \/ /\ ~CanScan /\ drv.power = "started" /\ At(t, "scan_start")
          /\ Goto(t, "scan_retry")
          /\ UNCHANGED <<drv, scan>>
       \/ /\ ~CanScan /\ (drv.power # "started" \/ At(t, "scan_retry"))
          /\ ScanFails(t)
          /\ UNCHANGED drv
    /\ UNCHANGED <<st, callbacks, backends, evVars, queue, call>>

\* esp_wifi_scan_start returns: the scan is over, or the driver was stopped, and
\* perhaps started again, meanwhile; the scan may then also fail.
ScanUnblocked(t) ==
    /\ At(t, "scan_block")
    /\ ~drv.scanning
    /\ \/ /\ drv.power = "started"
          /\ Goto(t, "scan_wait")
          /\ UNCHANGED scan
       \/ ScanFails(t)
    /\ UNCHANGED <<st, callbacks, backends, evVars, queue, drv, call>>

\* Mutant: the wait for SCAN_DONE has no timeout.
ScanWaitForever(t) ==
    /\ At(t, "scan_wait")
    /\ "SCAN_DONE" \in group.bits
    /\ group' = [group EXCEPT !.bits = @ \ {"SCAN_DONE"}]
    /\ Goto(t, "scan_read")
    /\ UNCHANGED <<appVars, netifs, loop, evVars, queue, drv, call>>

\* Two seconds for SCAN_DONE, which the wait clears; the call goes on without it.
ScanWait(t) ==
    /\ At(t, "scan_wait")
    /\ group' = [group EXCEPT !.bits = @ \ {"SCAN_DONE"}]
    /\ Goto(t, "scan_read")
    /\ UNCHANGED <<appVars, netifs, loop, evVars, queue, drv, call>>

\* esp_wifi_scan_get_ap_records and esp_wifi_scan_get_ap_num, then the mapping
\* of the records; a number beyond the buffer is cut.
ScanRead(t) ==
    /\ At(t, "scan_read")
    /\ \/ /\ drv.power = "started"
          /\ \E found \in 0..(ScanBuffer + 1) :
                scan' = [ap_count |-> IF found > ScanBuffer THEN ScanBuffer ELSE found,
                         ap_record |-> TRUE]
          /\ Goto(t, "idle")
       \/ /\ drv.power # "started"
          /\ ScanFails(t)
    /\ UNCHANGED <<st, callbacks, backends, evVars, queue, drv, call>>

\* wifi_c_store_scan_result_as_json; wifi_c_print_scanned_ap waits the same way.
StoreScanResult(t) ==
    /\ At(t, "idle")
    /\ \/ /\ ~st.wifi_initialized
          /\ Goto(t, "idle")
       \/ /\ st.wifi_initialized
          /\ Goto(t, IF st.scan_done THEN "json_read" ELSE "json_wait")
    /\ UNCHANGED <<appVars, backends, evVars, queue, drv, call>>

\* One second for SCAN_DONE.
JsonWait(t) ==
    /\ At(t, "json_wait")
    /\ \/ /\ "SCAN_DONE" \in group.bits
          /\ group' = [group EXCEPT !.bits = @ \ {"SCAN_DONE"}]
          /\ Goto(t, "json_read")
       \/ /\ "SCAN_DONE" \notin group.bits
          /\ Goto(t, "idle")
          /\ UNCHANGED group
    /\ UNCHANGED <<appVars, netifs, loop, evVars, queue, drv, call>>

\* ap_count records are read through ap_record.
JsonRead(t) ==
    /\ At(t, "json_read")
    /\ Goto(t, "idle")
    /\ UNCHANGED <<appVars, backends, evVars, queue, drv, call>>

-----------------------------------------------------------------------------
(***************************************************************************)
(* The event loop task: wifi_c_sta_event_handler, wifi_c_ap_event_handler  *)
(***************************************************************************)

Dispatch(kind) ==
    /\ loop /\ ev = "idle"
    /\ queue # <<>>
    /\ Head(queue) = kind
    /\ queue' = Tail(queue)

\* What the task does once it has read a callback pointer.
Invoke(cb) == IF cb \in callbacks THEN "callback" ELSE "idle"

HandleStaStart ==
    /\ Dispatch("STA_START")
    /\ group' = WithBit("STA_STARTED")
    /\ UNCHANGED <<appVars, netifs, loop, retry_num, ev, drv, callVars>>

\* Mutant: off by one.
RetriesLeftOnceMore == retry_num <= RetryCount

RetriesLeft == retry_num < RetryCount

\* Mutant: the retry is counted and not made.
ReconnectForgotten == UNCHANGED drv

\* The result of esp_wifi_connect is not looked at.  A station that is down and
\* is refused stays down, and no event follows.
Reconnect ==
    \/ CanConnect /\ Connects
    \/ CanConnect /\ ConnectMayFail /\ drv' = [drv EXCEPT !.refused = TRUE]
    \/ ~CanConnect /\ UNCHANGED drv

\* Mutant: a retry is not counted.
HandleStaDisconnectedUncounted ==
    /\ Dispatch("STA_DISCONNECTED")
    /\ \/ /\ RetriesLeft
          /\ Reconnect
          /\ UNCHANGED <<group, ev, retry_num>>
       \/ /\ ~RetriesLeft
          /\ group' = WithBit("CONNECT_FAIL")
          /\ ev' = Invoke("sta_disconnect")
          /\ UNCHANGED <<drv, retry_num>>
    /\ UNCHANGED <<appVars, netifs, loop, callVars>>

\* A lost or failed connection is tried again RetryCount times in all, then
\* reported; a retry that the driver refuses counts like any other.
HandleStaDisconnected ==
    /\ Dispatch("STA_DISCONNECTED")
    /\ \/ /\ RetriesLeft
          /\ Reconnect
          /\ retry_num' = retry_num + 1
          /\ UNCHANGED <<group, ev>>
       \/ /\ ~RetriesLeft
          /\ group' = WithBit("CONNECT_FAIL")
          /\ ev' = Invoke("sta_disconnect")
          /\ UNCHANGED <<drv, retry_num>>
    /\ UNCHANGED <<appVars, netifs, loop, callVars>>

\* Mutant: a connection gives the retries back, the failure bit stays.
HandleGotIpResetsRetries ==
    /\ Dispatch("STA_GOT_IP")
    /\ st' = [st EXCEPT !.sta_ip = "leased", !.sta_connected = TRUE]
    /\ ev' = "got_ip"
    /\ retry_num' = 0
    /\ UNCHANGED <<callbacks, scan, backends, drv, callVars>>

\* The status first, the bit and the callback after.
HandleGotIp ==
    /\ Dispatch("STA_GOT_IP")
    /\ st' = [st EXCEPT !.sta_ip = "leased", !.sta_connected = TRUE]
    /\ ev' = "got_ip"
    /\ UNCHANGED <<callbacks, scan, backends, retry_num, drv, callVars>>

GotIpSetBit ==
    /\ ev = "got_ip"
    /\ group' = WithBit("CONNECTED")
    /\ ev' = Invoke("sta_connect")
    /\ UNCHANGED <<appVars, netifs, loop, retry_num, queue, drv, callVars>>

HandleScanDone ==
    /\ Dispatch("SCAN_DONE")
    /\ group' = WithBit("SCAN_DONE")
    /\ ev' = "scan_flag"
    /\ UNCHANGED <<appVars, netifs, loop, retry_num, drv, callVars>>

ScanDoneFlag ==
    /\ ev = "scan_flag"
    /\ st' = [st EXCEPT !.scan_done = TRUE]
    /\ ev' = "idle"
    /\ UNCHANGED <<callbacks, scan, backends, retry_num, queue, drv, callVars>>

HandleStation ==
    /\ \/ Dispatch("AP_STACONNECTED") /\ ev' = Invoke("ap_connect")
       \/ Dispatch("AP_STADISCONNECTED") /\ ev' = Invoke("ap_disconnect")
    /\ UNCHANGED <<appVars, backends, retry_num, drv, callVars>>

CallbackReturns ==
    /\ ev = "callback"
    /\ ev' = "idle"
    /\ UNCHANGED <<appVars, backends, retry_num, queue, drv, callVars>>

EventTask ==
    \/ HandleStaStart \/ HandleStaDisconnected
    \/ HandleGotIp \/ GotIpSetBit
    \/ HandleScanDone \/ ScanDoneFlag
    \/ HandleStation \/ CallbackReturns

-----------------------------------------------------------------------------
(***************************************************************************)
(* The ESP-IDF Wi-Fi driver (external)                                     *)
(***************************************************************************)

DriverPosts(d, kind) ==
    /\ Len(queue) < MaxQueue
    /\ drv' = d
    /\ queue' = Posted(kind)
    /\ UNCHANGED <<appVars, backends, evVars, callVars>>

\* Association and DHCP succeed.
LinkUp == /\ drv.link = "connecting"
          /\ DriverPosts([drv EXCEPT !.link = "up"], "STA_GOT_IP")

ConnectFails == /\ drv.link = "connecting"
                /\ DriverPosts([drv EXCEPT !.link = "down"], "STA_DISCONNECTED")

LinkLost == /\ drv.link = "up"
            /\ DriverPosts([drv EXCEPT !.link = "down"], "STA_DISCONNECTED")

ScanFinished == /\ drv.scanning
                /\ DriverPosts([drv EXCEPT !.scanning = FALSE], "SCAN_DONE")

StationJoins == /\ drv.power = "started" /\ drv.mode \in ApModes /\ ~drv.station
                /\ DriverPosts([drv EXCEPT !.station = TRUE], "AP_STACONNECTED")

StationLeaves == /\ drv.station
                 /\ DriverPosts([drv EXCEPT !.station = FALSE], "AP_STADISCONNECTED")

Driver == LinkUp \/ ConnectFails \/ LinkLost \/ ScanFinished
          \/ StationJoins \/ StationLeaves

-----------------------------------------------------------------------------

OwnerCalls ==
    \/ \E mode \in AppModes : InitWifi(mode) \/ ChangeMode(mode)
    \/ \E ssid \in Ssids \cup {""} : StartSta(ssid) \/ StartAp(ssid)
    \/ \E cb \in Callbacks : Register(cb)
    \/ Deinit \/ Disconnect

OwnerContinues ==
    \/ InitCreate \/ InitDriver \/ InitDone
    \/ DeinitDisconnect \/ DeinitDriver \/ DeinitGroup \/ DeinitLoop \/ DeinitClear
    \/ StaConfig \/ StaConnect \/ StaResult \/ ApConfig \/ DisconnectUpdate

ScannerCalls(t) == ScanAllAp(t) \/ StoreScanResult(t)

ScannerContinues(t) ==
    \/ ScanStart(t) \/ ScanUnblocked(t) \/ ScanWait(t) \/ ScanRead(t)
    \/ JsonWait(t) \/ JsonRead(t)

Next ==
    \/ OwnerCalls
    \/ OwnerContinues
    \/ \E t \in Scanners : ScannerCalls(t) \/ ScannerContinues(t)
    \/ EventTask
    \/ Driver

Spec == Init /\ [][Next]_vars

(***************************************************************************)
(* Fairness: a task inside a call goes on with it and the event task is    *)
(* scheduled (every wait of the calls has a timeout; the event task has    *)
(* the highest priority of them); the driver ends each connection attempt  *)
(* and each scan.  Nobody is obliged to start a call, and links need not   *)
(* be lost.                                                                *)
(***************************************************************************)
Fairness ==
    /\ WF_vars(OwnerContinues)
    /\ WF_vars(EventTask)
    /\ \A t \in Scanners : WF_vars(ScannerContinues(t))
    /\ SF_vars(LinkUp \/ ConnectFails)
    /\ SF_vars(ScanFinished)

FairSpec == Spec /\ Fairness

-----------------------------------------------------------------------------
(***************************************************************************)
(* Properties                                                              *)
(***************************************************************************)

\* wifi_c_status never claims more than there is: while it says that Wi-Fi is
\* initialized and no deinitialization runs, the driver is started in the mode
\* of the status, the event group and the event loop exist; and an event loop
\* exists only while the status says so, whatever step of an initialization
\* failed before.
BackendsMatchStatus ==
    /\ st.wifi_initialized /\ pc[Owner] \notin DeinitSteps =>
         /\ drv.power = "started" /\ drv.mode = st.wifi_mode
         /\ group.alive /\ loop /\ st.even_loop_started
    /\ loop => st.even_loop_started

\* The netif objects that exist are those of the status' mode: none is created
\* twice, lost by a failed initialization or left behind by a deinitialization.
NetifsMatchMode ==
    netifs = IF st.netif_initialized
                /\ pc[Owner] \notin {"deinit_group", "deinit_loop", "deinit_clear"}
             THEN NetifsOf(st.wifi_mode)
             ELSE {}

\* No event of a stopped driver is left when the next one starts: it would set
\* a bit of the new event group or spend a retry of the new connection.
NoStaleEvents ==
    [][ drv.power # "started" /\ drv'.power = "started" => queue = <<>> ]_vars

\* wifi_c_deinit deletes the event group before the event loop.  Between these
\* two steps, and at no other time, may a handler run, or an event wait for one,
\* without an event group whose bits it can set.
HandlersHaveGroup ==
    (queue # <<>> \/ ev # "idle") /\ ~At(Owner, "deinit_loop") => group.alive

\* Without an event loop the status shows no connection: a STA_GOT_IP handled
\* while wifi_c_deinit runs leaves nothing behind.
NoConnectionWithoutLoop ==
    ~loop /\ pc[Owner] # "deinit_clear" => ~st.sta_connected /\ st.sta_ip = "0.0.0.0"

\* When records are read for the JSON answer the table that ap_count announces
\* is there, also when an earlier scan was refused, cut short or failed.
ScanTableValid ==
    \A t \in Scanners : At(t, "json_read") /\ scan.ap_count > 0 => scan.ap_record

\* After the failure has been reported only a new wifi_c_start_sta connects.
GivenUpStaysDown ==
    [][ /\ "CONNECT_FAIL" \in group.bits
        /\ drv.link = "down" /\ drv'.link = "connecting"
        => At(Owner, "sta_connect") ]_vars

\* A lost or failed connection is tried again or reported, unless the driver
\* refuses the very retry: the handler ignores that, and as no event follows
\* neither another retry nor the report does.  That is the only way a loss is
\* dropped.
LossHandled ==
    queue # <<>> /\ Head(queue) = "STA_DISCONNECTED"
    ~> \/ drv.link # "down" \/ "CONNECT_FAIL" \in group.bits \/ ~loop
       \/ drv.refused

\* Every library call returns, the deinitialization's wait for a running
\* handler included.
CallsReturn == \A t \in Tasks : pc[t] # "idle" ~> pc[t] = "idle"

-----------------------------------------------------------------------------
(***************************************************************************)
(* Statements of the documentation                                         *)
(***************************************************************************)

\* wifi_controller.h: "sta_connected: True if STA is connected to some AP."
\* Asked for when all events are handled and no call runs; a connection that is
\* being tried again counts.
StaConnectedTruthful ==
    st.sta_connected /\ queue = <<>> /\ ev = "idle" /\ At(Owner, "idle")
    => drv.link # "down"

\* That statement is true while a retry is left and the driver takes the
\* retries: the handler of a lost connection never clears sta_connected, and it
\* is the reconnection alone that keeps the field truthful, until the retries of
\* the whole run are spent or one is refused.
TruthfulWhileRetrying ==
    retry_num < RetryCount /\ ~drv.refused => StaConnectedTruthful

\* The other way round it is true until a loss has been tried again: a station
\* with an address is shown as connected once its event is handled.  Later the
\* reconnection after a wifi_c_disconnect may overtake that call's own update.
ShownUntilRetried ==
    retry_num = 0 /\ drv.link = "up" /\ queue = <<>> => st.sta_connected

\* wifi_controller.h, wifi_c_deinit: "free all resources".
DeinitFreesAll ==
    [][ At(Owner, "deinit_clear") /\ At(Owner, "idle")'
        => drv.power = "off" /\ ~group.alive /\ ~loop /\ netifs = {} ]_vars
=============================================================================
