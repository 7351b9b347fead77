----------------------------- MODULE WifiManager -----------------------------
(***************************************************************************)
(* wifi_manager: provisioning.  At boot app_main tries the credentials     *)
(* stored in NVS; without any, or when they do not connect, it opens an    *)
(* access point with an http server, whose task stores or erases           *)
(* credentials and restarts the device.  The device may lose power, or be  *)
(* restarted by another task, at any step; only the flash survives.        *)
(* The calls of wifi_controller and of ESP-IDF succeed or fail; what goes  *)
(* on inside wifi_controller is module WifiController.                     *)
(***************************************************************************)
EXTENDS Naturals

CONSTANTS
    Creds,        \* credentials users enter; ssid and password of one entry
                  \* are written with the same value
    LongSsids,    \* credentials whose ssid has the 64 characters that the
    LongPasswords, \* server accepts, or whose password has: 65 bytes to read
    None,         \* a key that is not in the flash
    InitMayFail,  \* may NVS, Wi-Fi or the http server fail to start?
    FlashMayFail, \* may opening, writing or erasing the flash fail?
    MaxCrashes    \* bound: power losses and restarts from outside

ASSUME ManagerAssumption ==
    /\ LongSsids \subseteq Creds /\ LongPasswords \subseteq Creds
    /\ None \notin Creds
    /\ InitMayFail \in BOOLEAN /\ FlashMayFail \in BOOLEAN
    /\ MaxCrashes \in Nat

VARIABLES
    flash,    \* the keys "ssid" and "password" of namespace "wifi_manager"
    space,    \* does that namespace exist in the flash?
    nvs,      \* is the NVS partition initialized?
    boot,     \* where the app task is in app_main and wifi_manager_init
    read,     \* its locals ssid and password
    inUse,    \* what wifi_c_start_sta was last called with
    web,      \* where the http server task is
    cred,     \* credentials of the request it serves
    answer,   \* the answer to the last request
    before,   \* flash when the running store or erasure began (history)
    failed,   \* has a call of the last of them failed? (history)
    crashes

vars == <<flash, space, nvs, boot, read, inUse, web, cred, answer, before, failed, crashes>>

\* ssid and password, as stored, read or used.
Keys == [ssid : Creds \cup {None}, password : Creds \cup {None}]
Nothing == [ssid |-> None, password |-> None]
Complete(p) == p.ssid # None /\ p.password # None

\* Both values fit in the 64 bytes that wifi_manager_init has for each.
Readable(p) == p.ssid \notin LongSsids /\ p.password \notin LongPasswords

BootSteps == {"nvs", "nvs_again", "init_sta", "get_ssid", "get_password",
              "start_sta", "init_apsta", "start_ap", "start_server"}
BootEnds == {"connected", "portal", "given_up"}
StoreSteps == {"store_open", "write_ssid", "write_password"}
EraseSteps == {"erase_open", "erase", "erase_rest"}
WebSteps == StoreSteps \cup EraseSteps \cup {"restart"}

Answers == {"none", "restarting", "stored_ssid", "empty", "failed", "cleared"}

TypeOK ==
    /\ flash \in Keys /\ read \in Keys /\ inUse \in Keys /\ before \in Keys
    /\ space \in BOOLEAN /\ nvs \in BOOLEAN /\ failed \in BOOLEAN
    /\ boot \in BootSteps \cup BootEnds
    /\ web \in WebSteps \cup {"idle"}
    /\ cred \in Creds \cup {None}
    /\ web \in StoreSteps => cred \in Creds
    /\ answer \in Answers
    /\ crashes \in 0..MaxCrashes

\* A device that was never provisioned.
Init ==
    /\ flash = Nothing /\ before = Nothing
    /\ space = FALSE
    /\ nvs = FALSE /\ failed = FALSE
    /\ boot = "nvs"
    /\ read = Nothing /\ inUse = Nothing
    /\ web = "idle" /\ cred = None
    /\ answer = "none"
    /\ crashes = 0

flashVars == <<flash, space, before>>
bootVars == <<nvs, boot, read, inUse>>
webVars == <<web, cred, answer, failed>>

-----------------------------------------------------------------------------
(***************************************************************************)
(* The app task: app_main, wifi_manager_init                               *)
(***************************************************************************)

BootAt(label) == boot = label
BootGoto(label) == boot' = label

\* nvs_c_init_default_partition: a partition without free pages is erased and
\* initialized again.  An initialized partition stays as it is.  If the erasure
\* itself fails, ESP_ERROR_CHECK restarts the device: a Crash.
InitPartition ==
    \/ /\ nvs' = TRUE
       /\ UNCHANGED <<flash, space>>
    \/ /\ ~nvs
       /\ nvs' \in IF InitMayFail THEN BOOLEAN ELSE {TRUE}
       /\ flash' = Nothing /\ space' = FALSE
    \/ /\ ~nvs /\ InitMayFail
       /\ UNCHANGED <<nvs, flash, space>>

\* app_main does not look at the result, wifi_manager_init does.
BootNvs ==
    /\ boot \in {"nvs", "nvs_again"}
    /\ InitPartition
    /\ BootGoto(IF BootAt("nvs") THEN "nvs_again"
                ELSE IF nvs' THEN "init_sta" ELSE "given_up")
    /\ UNCHANGED <<before, read, inUse, webVars, crashes>>

\* A call that starts Wi-Fi or the server: on an error wifi_manager_init
\* returns, and app_main goes on without a network.
Starts(label, next) ==
    /\ BootAt(label)
    /\ \/ BootGoto(next)
       \/ InitMayFail /\ BootGoto("given_up")
    /\ UNCHANGED <<flashVars, nvs, read, inUse, webVars, crashes>>

InitSta == Starts("init_sta", "get_ssid")
InitApsta == Starts("init_apsta", "start_ap")   \* wifi_c_deinit comes before
StartAp == Starts("start_ap", "start_server")
StartServer == Starts("start_server", "portal")

\* wifi_manager_get_stored_ap: a missing namespace, a missing key or a value
\* longer than its buffer (ERR_C_NO_MEMORY) end it, and the portal opens.
GetSsid ==
    /\ BootAt("get_ssid")
    /\ \/ /\ space /\ flash.ssid \notin LongSsids \cup {None}
          /\ read' = [read EXCEPT !.ssid = flash.ssid]
          /\ BootGoto("get_password")
       \/ /\ ~space \/ flash.ssid \in LongSsids \cup {None}
          /\ BootGoto("init_apsta")
          /\ UNCHANGED read
    /\ UNCHANGED <<flashVars, nvs, inUse, webVars, crashes>>

PasswordRead ==
    /\ BootAt("get_password")
    /\ flash.password \notin LongPasswords \cup {None}
    /\ read' = [read EXCEPT !.password = flash.password]
    /\ BootGoto("start_sta")
    /\ UNCHANGED <<flashVars, nvs, inUse, webVars, crashes>>

PasswordNotRead(next) ==
    /\ BootAt("get_password")
    /\ flash.password \in LongPasswords \cup {None}
    /\ BootGoto(next)
    /\ UNCHANGED <<flashVars, nvs, read, inUse, webVars, crashes>>

\* Mutant: an absent password is looked for again.
GetPasswordRetries == PasswordRead \/ PasswordNotRead("get_ssid")

GetPassword == PasswordRead \/ PasswordNotRead("init_apsta")

\* Mutant: the access point is opened without a connection attempt.
StartStaSkipped ==
    /\ BootAt("start_sta")
    /\ BootGoto("init_apsta")
    /\ UNCHANGED <<flashVars, nvs, read, inUse, webVars, crashes>>

StartSta ==
    /\ BootAt("start_sta")
    /\ inUse' = read
    /\ boot' \in {"connected", "init_apsta"}
    /\ UNCHANGED <<flashVars, nvs, read, webVars, crashes>>

AppTask ==
    \/ BootNvs \/ InitSta \/ GetSsid \/ GetPassword \/ StartSta
    \/ InitApsta \/ StartAp \/ StartServer

-----------------------------------------------------------------------------
(***************************************************************************)
(* The http server task: one request at a time                             *)
(***************************************************************************)

Requested == BootAt("portal") /\ web = "idle"

WebAt(label) == web = label
WebGoto(label) == web' = label

\* Mutant: the headers are checked and not copied.
ConnectUncopied(c) ==
    /\ Requested
    /\ WebGoto("store_open")
    /\ answer' = "restarting" /\ failed' = FALSE
    /\ UNCHANGED <<flashVars, bootVars, cred, crashes>>

\* POST /connect, with values of 64 characters at most: the answer is sent first.
Connect(c) ==
    /\ Requested
    /\ WebGoto("store_open")
    /\ cred' = c
    /\ answer' = "restarting" /\ failed' = FALSE
    /\ UNCHANGED <<flashVars, bootVars, crashes>>

\* wifi_manager_store_ap: nvs_c_open, which creates the namespace, and two
\* nvs_c_write_string.  An error ends it; connect_handler restarts either way.
StoreOpen ==
    /\ WebAt("store_open")
    /\ \/ space' = TRUE /\ WebGoto("write_ssid") /\ UNCHANGED failed
       \/ FlashMayFail /\ failed' = TRUE /\ WebGoto("restart") /\ UNCHANGED space
    /\ UNCHANGED <<flash, before, bootVars, cred, answer, crashes>>

\* Mutant: the result of the first write is not looked at.
WriteSsidUnchecked ==
    /\ WebAt("write_ssid")
    /\ before' = flash
    /\ WebGoto("write_password")
    /\ \/ flash' = [flash EXCEPT !.ssid = cred] /\ UNCHANGED failed
       \/ FlashMayFail /\ failed' = TRUE /\ UNCHANGED flash
    /\ UNCHANGED <<space, bootVars, cred, answer, crashes>>

WriteSsid ==
    /\ WebAt("write_ssid")
    /\ \/ /\ flash' = [flash EXCEPT !.ssid = cred]
          /\ before' = flash
          /\ WebGoto("write_password")
          /\ UNCHANGED failed
       \/ /\ FlashMayFail /\ failed' = TRUE
          /\ WebGoto("restart")
          /\ UNCHANGED <<flash, before>>
    /\ UNCHANGED <<space, bootVars, cred, answer, crashes>>

WritePassword ==
    /\ WebAt("write_password")
    /\ \/ flash' = [flash EXCEPT !.password = cred] /\ UNCHANGED failed
       \/ FlashMayFail /\ failed' = TRUE /\ UNCHANGED flash
    /\ WebGoto("restart")
    /\ UNCHANGED <<space, before, bootVars, cred, answer, crashes>>

\* GET /clear: wifi_manager_erase_ap and nvs_c_erase_namespace.  The NVS
\* partition is initialized before the server runs.
Clear ==
    /\ Requested
    /\ WebGoto("erase_open") /\ failed' = FALSE
    /\ UNCHANGED <<flashVars, bootVars, cred, answer, crashes>>

EraseOpen ==
    /\ WebAt("erase_open")
    /\ \/ space' = TRUE /\ WebGoto("erase") /\ UNCHANGED <<answer, failed>>
       \/ /\ FlashMayFail /\ failed' = TRUE
          /\ WebGoto("idle") /\ answer' = "cleared"
          /\ UNCHANGED space
    /\ UNCHANGED <<flash, before, bootVars, cred, crashes>>

\* nvs_erase_all erases one entry after the other.
EraseOne ==
    /\ WebAt("erase")
    /\ \/ /\ \E key \in {"ssid", "password"} : flash' = [flash EXCEPT ![key] = None]
          /\ before' = flash
          /\ WebGoto("erase_rest")
          /\ UNCHANGED <<answer, failed>>
       \/ /\ FlashMayFail /\ failed' = TRUE
          /\ WebGoto("idle") /\ answer' = "cleared"
          /\ UNCHANGED <<flash, before>>
    /\ UNCHANGED <<space, bootVars, cred, crashes>>

\* The answer says "All saved APs were cleared!" also after an error.
EraseRest ==
    /\ WebAt("erase_rest")
    /\ \/ flash' = Nothing /\ UNCHANGED failed
       \/ FlashMayFail /\ failed' = TRUE /\ UNCHANGED flash
    /\ WebGoto("idle") /\ answer' = "cleared"
    /\ UNCHANGED <<space, before, bootVars, cred, crashes>>

\* NVS_C_ERR_KEY_NOT_FOUND, NVS_C_ERR_NAMESPACE_NOT_FOUND, ERR_C_NO_MEMORY or
\* no error.
StoredApResult ==
    CASE ~space -> "NAMESPACE_NOT_FOUND"
      [] space /\ flash.ssid = None -> "KEY_NOT_FOUND"
      [] space /\ flash.ssid \in LongSsids -> "NO_MEMORY"
      [] OTHER -> "OK"

\* GET /saved_ap: the handler lets error 4354 pass, ESP_ERR_NVS_NOT_FOUND,
\* which nvs_controller has translated to an error of its own, so that a device
\* with nothing stored answers with a failure.
SavedAp ==
    /\ Requested
    /\ answer' = IF StoredApResult = "OK" THEN "stored_ssid"
                 ELSE IF StoredApResult = "ESP_ERR_NVS_NOT_FOUND" THEN "empty"
                 ELSE "failed"
    /\ UNCHANGED <<flashVars, bootVars, web, cred, failed, crashes>>

\* GET /restart
RestartRequest ==
    /\ Requested
    /\ WebGoto("restart")
    /\ answer' = "restarting"
    /\ UNCHANGED <<flashVars, bootVars, cred, failed, crashes>>

\* Only the flash is left.
Reboot ==
    /\ nvs' = FALSE
    /\ BootGoto("nvs")
    /\ read' = Nothing /\ inUse' = Nothing
    /\ WebGoto("idle") /\ cred' = None
    /\ answer' = "none" /\ failed' = FALSE
    /\ UNCHANGED flashVars

\* Mutant: the handler returns after its delay.
RestartForgotten ==
    /\ WebAt("restart")
    /\ WebGoto("idle")
    /\ UNCHANGED <<flashVars, bootVars, cred, answer, failed, crashes>>

\* esp_restart, after a delay.
Restart == WebAt("restart") /\ Reboot /\ UNCHANGED crashes

WebContinues ==
    \/ StoreOpen \/ WriteSsid \/ WritePassword
    \/ EraseOpen \/ EraseOne \/ EraseRest
    \/ Restart

WebTask ==
    \/ \E c \in Creds : Connect(c)
    \/ Clear \/ SavedAp \/ RestartRequest
    \/ WebContinues

\* A power loss, or the esp_restart of inspect_heap_task or of an update.
Crash ==
    /\ crashes < MaxCrashes
    /\ crashes' = crashes + 1
    /\ Reboot

Next == AppTask \/ WebTask \/ Crash

Spec == Init /\ [][Next]_vars

\* The app task and a request that was begun go on; nobody need send one.
FairSpec == Spec /\ WF_vars(AppTask) /\ WF_vars(WebContinues)

-----------------------------------------------------------------------------
(***************************************************************************)
(* Properties                                                              *)
(***************************************************************************)

\* The credentials as another boot would see them, were the running store or
\* erasure never begun.
Stored == IF web \in {"write_password", "erase_rest"} THEN before ELSE flash

\* The request that stores or erases, until its last call.
Op == [kind |-> IF web \in StoreSteps THEN "store"
                ELSE IF web \in EraseSteps THEN "erase" ELSE "idle",
       cred |-> IF web \in StoreSteps THEN cred ELSE None]

\* A request whose calls succeed stores both of the values it was sent, or
\* erases both; one that is cut short by a failing call or a restart leaves one
\* of the kinds of damage CredentialStore lists; nothing else changes what is
\* stored, but for the partition erased at boot; and wifi_c_start_sta is called
\* with what is stored.
CredStore == INSTANCE CredentialStore WITH stored <- Stored, op <- Op, open <- nvs
StoreImplemented == CredStore!Spec

\* The access point is opened over complete credentials that can be read back
\* only after a connection was tried with these very credentials, whatever
\* requests, failures and restarts left them there.
PortalOnlyAfterTrying ==
    boot \in {"init_apsta", "start_ap", "start_server"} /\ Complete(flash) /\ Readable(flash)
    => inUse = flash

\* Every boot ends connected, with the access point open or, after an error at
\* the start of NVS, Wi-Fi or the server, given up, whatever the flash holds.
BootTerminates == boot \in BootSteps ~> boot \in BootEnds

\* A device that was told credentials restarts, whether they could be stored
\* or not.
RestartFollows == WebAt("store_open") ~> BootAt("nvs")
=============================================================================
