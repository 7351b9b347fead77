------------------------- MODULE WifiManagerProofs --------------------------
(***************************************************************************)
(* wifi_manager implements CredentialStore for any credentials and any     *)
(* number of power losses.  The invariant says that the server task is     *)
(* idle while the app task boots, and what the app task has read by then.  *)
(***************************************************************************)
EXTENDS WifiManager, TLAPS

\* The server task serves requests only after the boot.
ServesAfterBoot == web # "idle" => boot = "portal"

\* Keys are in a namespace that exists, and only such a namespace is written.
KeysNeedSpace ==
    /\ ~space => flash = Nothing
    /\ web \in {"write_ssid", "write_password", "erase", "erase_rest"} => space

\* The locals of wifi_manager_init hold what the flash holds.
ReadIsStored ==
    /\ boot \in {"get_password", "start_sta"} => read.ssid = flash.ssid /\ flash.ssid # None
    /\ boot = "start_sta" => read.password = flash.password /\ flash.password # None

\* A store is half done: the new ssid is there and the old password.  Half of
\* an erasure left one of the two keys.
HalfDone ==
    /\ web = "write_password" => flash = [before EXCEPT !.ssid = cred]
    /\ web = "erase_rest" => \E key \in {"ssid", "password"} : flash = [before EXCEPT ![key] = None]

\* Once the boot is past it the partition is open, and a request that is
\* carried out has met no failure.
Untroubled ==
    /\ boot \notin {"nvs", "nvs_again", "given_up"} => nvs
    /\ web \in StoreSteps \cup EraseSteps => ~failed

ManagerInv ==
    /\ TypeOK
    /\ ServesAfterBoot
    /\ KeysNeedSpace
    /\ ReadIsStored
    /\ HalfDone
    /\ PortalOnlyAfterTrying
    /\ Untroubled

-----------------------------------------------------------------------------

\* A device that was never provisioned satisfies the invariant.
LEMMA ManagerInit == ASSUME Init PROVE ManagerInv
<1>1. Nothing \in Keys /\ ~Complete(Nothing)
  BY DEF Nothing, Keys, Complete
<1>2. TypeOK
  <2>1. crashes \in 0..MaxCrashes
    BY ManagerAssumption DEF Init
  <2>2. boot \in BootSteps \cup BootEnds /\ web \in WebSteps \cup {"idle"}
        /\ web \notin StoreSteps /\ answer \in Answers
    BY DEF Init, BootSteps, WebSteps, StoreSteps, EraseSteps, Answers
  <2>. QED BY <1>1, <2>1, <2>2 DEF Init, TypeOK
<1>3. ServesAfterBoot /\ KeysNeedSpace /\ ReadIsStored /\ HalfDone /\ Untroubled
      /\ PortalOnlyAfterTrying
  BY <1>1 DEF Init, ServesAfterBoot, KeysNeedSpace, ReadIsStored, HalfDone, Untroubled,
     StoreSteps, EraseSteps, PortalOnlyAfterTrying
<1>. QED BY <1>2, <1>3 DEF ManagerInv

\* A restart, asked for or not, keeps the types and leaves nobody at work.
LEMMA RebootKeeps ==
    ASSUME TypeOK, KeysNeedSpace, Reboot, crashes' \in 0..MaxCrashes
    PROVE  ManagerInv'
<1>1. Nothing \in Keys
  BY DEF Nothing, Keys
<1>2. TypeOK'
  BY <1>1 DEF Reboot, TypeOK, BootSteps, BootEnds, WebSteps, StoreSteps, EraseSteps, Answers,
     BootGoto, WebGoto, flashVars
<1>3. KeysNeedSpace'
  BY DEF Reboot, KeysNeedSpace, WebGoto, flashVars
<1>. QED BY <1>2, <1>3 DEF Reboot, ManagerInv, ServesAfterBoot, ReadIsStored,
         HalfDone, Untroubled, StoreSteps, EraseSteps, PortalOnlyAfterTrying, BootGoto, WebGoto

\* A step of the app task keeps the invariant: it runs alone.
LEMMA AppTaskKeeps == ASSUME ManagerInv, AppTask PROVE ManagerInv'
<1>. USE DEF ManagerInv, ServesAfterBoot, KeysNeedSpace, ReadIsStored, HalfDone,
             Untroubled, PortalOnlyAfterTrying, BootAt, BootGoto, flashVars, webVars
<1>0. boot \in BootSteps => web = "idle"
  BY DEF BootSteps
<1>1. CASE BootNvs
  <2>1. web = "idle" /\ web' = "idle"
    BY <1>0, <1>1 DEF BootNvs, BootSteps
  <2>2. flash' \in Keys /\ space' \in BOOLEAN /\ nvs' \in BOOLEAN
    <3>1. InitPartition
      BY <1>1 DEF BootNvs
    <3>2. Nothing \in Keys
      BY DEF Nothing, Keys
    <3>. QED BY <3>1, <3>2 DEF InitPartition, TypeOK
  <2>3. boot' \in {"nvs_again", "init_sta", "given_up"}
    BY <1>1 DEF BootNvs
  <2>4. TypeOK'
    BY <1>1, <2>1, <2>2, <2>3 DEF BootNvs, TypeOK, BootSteps, BootEnds, WebSteps, StoreSteps, EraseSteps
  <2>5. KeysNeedSpace'
    <3>1. (UNCHANGED space /\ UNCHANGED flash) \/ flash' = Nothing
      BY <1>1 DEF BootNvs, InitPartition
    <3>. QED BY <2>1, <3>1
  <2>6. Untroubled'
    <3>1. boot' = "init_sta" => nvs'
      BY <1>1 DEF BootNvs
    <3>. QED BY <2>1, <2>3, <3>1 DEF StoreSteps, EraseSteps
  <2>. QED BY <2>1, <2>3, <2>4, <2>5, <2>6
<1>2. ASSUME NEW l \in {"init_sta", "init_apsta", "start_ap", "start_server"},
             NEW n \in {"get_ssid", "start_ap", "start_server", "portal"}, Starts(l, n),
             l = "init_sta" => n = "get_ssid"
      PROVE  ManagerInv'
  BY <1>0, <1>2 DEF Starts, TypeOK, BootSteps, BootEnds, WebSteps, StoreSteps, EraseSteps
<1>3. CASE GetSsid
  <2>1. web = "idle" /\ web' = "idle"
    BY <1>0, <1>3 DEF GetSsid, BootSteps
  <2>2. read' \in Keys
    BY <1>3 DEF GetSsid, TypeOK, Keys
  <2>3. boot' = "get_password" => read'.ssid = flash.ssid /\ flash.ssid # None
    BY <1>3 DEF GetSsid, TypeOK, Keys
  <2>4. boot' = "init_apsta" => ~space \/ flash.ssid \in LongSsids \cup {None}
    BY <1>3 DEF GetSsid
  <2>5. boot' \in {"get_password", "init_apsta"}
    BY <1>3 DEF GetSsid
  <2>6. TypeOK'
    BY <1>3, <2>1, <2>2, <2>5 DEF GetSsid, TypeOK, BootSteps, BootEnds, WebSteps, StoreSteps, EraseSteps
  <2>7. KeysNeedSpace'
    BY <1>3, <2>1 DEF GetSsid
  <2>8. PortalOnlyAfterTrying'
    BY <1>3, <2>4, <2>5 DEF GetSsid, Complete, Readable, Nothing
  <2>. QED BY <1>3, <2>1, <2>3, <2>5, <2>6, <2>7, <2>8 DEF GetSsid
<1>4. CASE GetPassword
  <2>1. CASE PasswordRead
    BY <1>0, <2>1 DEF PasswordRead, TypeOK, Keys, BootSteps, BootEnds, WebSteps,
       StoreSteps, EraseSteps
  <2>2. CASE PasswordNotRead("init_apsta")
    BY <1>0, <2>2 DEF PasswordNotRead, TypeOK, Keys, BootSteps, BootEnds, WebSteps,
       StoreSteps, EraseSteps, Complete, Readable
  <2>. QED BY <1>4, <2>1, <2>2 DEF GetPassword
<1>5. CASE StartSta
  BY <1>0, <1>5 DEF StartSta, TypeOK, Keys, BootSteps, BootEnds, WebSteps, StoreSteps, EraseSteps
<1>. QED BY <1>1, <1>2, <1>3, <1>4, <1>5
     DEF AppTask, InitSta, InitApsta, StartAp, StartServer

\* A step of the server task keeps the types.
LEMMA WebTaskTypes == ASSUME ManagerInv, WebTask PROVE TypeOK'
<1>. USE DEF ManagerInv, WebAt, WebGoto, BootAt, flashVars, bootVars, Requested
<1>1. failed' \in BOOLEAN
  <2>1. failed' \in {TRUE, FALSE, failed}
    BY Zenon DEF WebTask, WebContinues, Connect, Clear, SavedAp, RestartRequest, StoreOpen, WriteSsid,
       WritePassword, EraseOpen, EraseOne, EraseRest, Restart, Reboot
  <2>. QED BY <2>1 DEF TypeOK
<1>. DEFINE Rest == /\ flash \in Keys /\ read \in Keys /\ inUse \in Keys /\ before \in Keys
                    /\ space \in BOOLEAN /\ nvs \in BOOLEAN
                    /\ boot \in BootSteps \cup BootEnds
                    /\ web \in WebSteps \cup {"idle"}
                    /\ cred \in Creds \cup {None}
                    /\ web \in StoreSteps => cred \in Creds
                    /\ answer \in Answers
                    /\ crashes \in 0..MaxCrashes
<1>2. Rest
  BY DEF TypeOK
<1>3. Rest'
  <2>. USE DEF StoreSteps, EraseSteps, WebSteps
  <2>1. ASSUME NEW c \in Creds, Connect(c) PROVE Rest'
    BY <1>2, <2>1 DEF Connect, Answers
  <2>2. CASE Clear \/ RestartRequest \/ SavedAp
    BY <1>2, <2>2 DEF Clear, RestartRequest, SavedAp, Answers
  <2>3. CASE StoreOpen \/ EraseOpen
    BY <1>2, <2>3 DEF StoreOpen, EraseOpen, Answers
  <2>4. CASE WriteSsid \/ WritePassword
    <3>1. flash' \in Keys /\ before' \in Keys
      BY <1>2, <2>4 DEF WriteSsid, WritePassword, Keys
    <3>. QED BY <1>2, <2>4, <3>1 DEF WriteSsid, WritePassword
  <2>5. CASE EraseOne \/ EraseRest
    <3>1. flash' \in Keys /\ before' \in Keys
      BY <1>2, <2>5 DEF EraseOne, EraseRest, Keys, Nothing
    <3>. QED BY <1>2, <2>5, <3>1 DEF EraseOne, EraseRest, Answers
  <2>6. CASE Restart
    <3>1. ManagerInv'
      BY <2>6, RebootKeeps DEF Restart, TypeOK
    <3>. QED BY <3>1 DEF TypeOK
  <2>. QED BY <2>1, <2>2, <2>3, <2>4, <2>5, <2>6 DEF WebTask, WebContinues
<1>. QED BY <1>1, <1>3 DEF TypeOK

\* A step of the server task keeps the invariant.
LEMMA WebTaskKeeps == ASSUME ManagerInv, WebTask PROVE ManagerInv'
<1>. USE DEF ManagerInv, WebAt, WebGoto, BootAt, flashVars, bootVars, Requested
<1>1. TypeOK'
  BY WebTaskTypes
<1>2. CASE Restart
  BY <1>2, RebootKeeps DEF Restart, TypeOK
<1>3. CASE ~Restart
  <2>1. boot = "portal" /\ UNCHANGED bootVars
    BY <1>3 DEF WebTask, WebContinues, ServesAfterBoot, Connect, Clear, SavedAp, RestartRequest,
       StoreOpen, WriteSsid, WritePassword, EraseOpen, EraseOne, EraseRest
  <2>2. ServesAfterBoot' /\ ReadIsStored' /\ PortalOnlyAfterTrying'
    BY <2>1 DEF ServesAfterBoot, ReadIsStored, PortalOnlyAfterTrying
  <2>3. KeysNeedSpace'
    BY <1>3 DEF WebTask, WebContinues, KeysNeedSpace, Connect, Clear, SavedAp, RestartRequest,
       StoreOpen, WriteSsid, WritePassword, EraseOpen, EraseOne, EraseRest
  <2>4. HalfDone'
    BY <1>3 DEF WebTask, WebContinues, HalfDone, Connect, Clear, SavedAp, RestartRequest,
       StoreOpen, WriteSsid, WritePassword, EraseOpen, EraseOne, EraseRest
  <2>5. Untroubled'
    <3>1. nvs'
      BY <2>1 DEF Untroubled
    <3>2. web' \in StoreSteps \cup EraseSteps => ~failed'
      BY <1>3 DEF WebTask, WebContinues, Untroubled, StoreSteps, EraseSteps, Connect, Clear, SavedAp,
         RestartRequest, StoreOpen, WriteSsid, WritePassword, EraseOpen, EraseOne, EraseRest
    <3>. QED BY <3>1, <3>2 DEF Untroubled
  <2>. QED BY <1>1, <2>2, <2>3, <2>4, <2>5
<1>. QED BY <1>2, <1>3

\* Every step keeps the invariant.
LEMMA ManagerNext == ASSUME ManagerInv, [Next]_vars PROVE ManagerInv'
<1>1. CASE UNCHANGED vars
  BY <1>1 DEF vars, ManagerInv, TypeOK, ServesAfterBoot, KeysNeedSpace, ReadIsStored, HalfDone,
     Untroubled, PortalOnlyAfterTrying
<1>2. CASE Crash
  <2>1. crashes' \in 0..MaxCrashes
    BY <1>2, ManagerAssumption DEF Crash, ManagerInv, TypeOK
  <2>. QED BY <1>2, <2>1, RebootKeeps DEF Crash, ManagerInv
<1>. QED BY <1>1, <1>2, AppTaskKeeps, WebTaskKeeps DEF Next

\* The invariant holds throughout.
THEOREM ManagerInvariant == Spec => []ManagerInv
<1>1. Init => ManagerInv
  BY ManagerInit
<1>2. ManagerInv /\ [Next]_vars => ManagerInv'
  BY ManagerNext
<1>. QED BY <1>1, <1>2, PTL DEF Spec

\* The variables of wifi_manager keep their types: the server task has
\* credentials while it stores them.
THEOREM ManagerTypes == Spec => []TypeOK
<1>1. ManagerInv => TypeOK
  BY DEF ManagerInv
<1>. QED BY <1>1, ManagerInvariant, PTL

\* The access point is opened over complete credentials only after they were
\* tried.
THEOREM CredentialsTriedFirst == Spec => []PortalOnlyAfterTrying
<1>1. ManagerInv => PortalOnlyAfterTrying
  BY DEF ManagerInv
<1>. QED BY <1>1, ManagerInvariant, PTL

-----------------------------------------------------------------------------

\* A step of the app task changes the credentials only by erasing the
\* partition that it opens, and connects with what is stored.
LEMMA AppTaskRefines == ASSUME ManagerInv, AppTask PROVE [CredStore!Next]_(CredStore!vars)
<1>. USE DEF ManagerInv, ServesAfterBoot, BootAt, BootGoto, flashVars, webVars,
             CredStore!vars, CredStore!Next
<1>1. /\ boot \in BootSteps => Stored = flash /\ Op = CredStore!Idle
      /\ boot \in BootSteps /\ UNCHANGED web => Stored' = flash' /\ UNCHANGED Op
  BY DEF BootSteps, StoreSteps, EraseSteps, Stored, Op, CredStore!Idle
<1>2. CASE BootNvs
  <2>1. Stored = flash /\ Stored' = flash' /\ Op = CredStore!Idle /\ UNCHANGED Op
    BY <1>1, <1>2 DEF BootNvs, BootSteps
  <2>2. CASE UNCHANGED <<flash, nvs>>
    BY <1>2, <2>1, <2>2 DEF BootNvs
  <2>3. CASE ~UNCHANGED <<flash, nvs>>
    <3>1. ~nvs /\ flash' \in {flash, CredStore!Nothing} /\ nvs' \in BOOLEAN
      BY <1>2, <2>3 DEF BootNvs, InitPartition, TypeOK, Nothing, CredStore!Nothing
    <3>. QED BY <1>2, <2>1, <3>1 DEF BootNvs, CredStore!Open
  <2>. QED BY <2>2, <2>3
<1>3. CASE StartSta
  <2>1. Stored = flash /\ UNCHANGED Stored /\ Op = CredStore!Idle /\ UNCHANGED Op
    BY <1>1, <1>3 DEF StartSta, BootSteps
  <2>2. read = flash /\ Complete(flash) /\ nvs
    BY <1>3 DEF StartSta, ReadIsStored, Untroubled, TypeOK, Keys, Complete
  <2>. QED BY <1>3, <2>1, <2>2 DEF StartSta, CredStore!Connect,
           CredStore!Complete, Complete
<1>4. CASE GetSsid \/ GetPassword
  BY <1>4 DEF GetSsid, GetPassword, PasswordRead, PasswordNotRead, Stored, Op
<1>5. CASE InitSta \/ InitApsta \/ StartAp \/ StartServer
  BY <1>5 DEF InitSta, InitApsta, StartAp, StartServer, Starts, Stored, Op
<1>. QED BY <1>2, <1>3, <1>4, <1>5 DEF AppTask

\* The steps of a store and of an erasure.
LEMMA Ops ==
    ASSUME TypeOK
    PROVE  /\ web \in StoreSteps => cred \in Creds /\ Op = CredStore!Storing(cred)
           /\ web \in EraseSteps => Op = CredStore!Erasing
           /\ web \in {"idle", "restart"} => Op = CredStore!Idle
           /\ CredStore!Erasing # CredStore!Idle
           /\ \A c \in Creds : CredStore!Storing(c) # CredStore!Idle
BY DEF TypeOK, Op, StoreSteps, EraseSteps, CredStore!Storing, CredStore!Erasing, CredStore!Idle

\* What a half-done request leaves is damage of the kinds that CredentialStore
\* lists.
LEMMA HalfDoneIsDamage ==
    ASSUME ManagerInv, Stored' = flash
    PROVE  CredStore!Damage
<1>1. CASE web = "write_password"
  <2>1. cred \in Creds /\ Op = CredStore!Storing(cred)
    BY <1>1, Ops DEF ManagerInv, StoreSteps
  <2>2. Stored = before /\ flash = [before EXCEPT !.ssid = cred]
    BY <1>1 DEF ManagerInv, HalfDone, Stored
  <2>. QED BY <2>1, <2>2 DEF CredStore!Damage
<1>2. CASE web = "erase_rest"
  <2>1. Op = CredStore!Erasing
    BY <1>2, Ops DEF ManagerInv, EraseSteps
  <2>2. Stored = before /\ \E key \in {"ssid", "password"} : flash = [before EXCEPT ![key] = None]
    BY <1>2 DEF ManagerInv, HalfDone, Stored
  <2>. QED BY <2>1, <2>2 DEF CredStore!Damage
<1>3. CASE web \notin {"write_password", "erase_rest"}
  BY <1>3 DEF Stored, CredStore!Damage
<1>. QED BY <1>1, <1>2, <1>3

\* A restart in the middle of a request damages the credentials in one of the
\* ways CredentialStore lists.
LEMMA RebootRefines == ASSUME ManagerInv, Reboot PROVE CredStore!Reboot
<1>1. Stored' = flash /\ inUse' = CredStore!Nothing /\ ~failed' /\ ~nvs' /\ Op' = CredStore!Idle
  BY DEF Reboot, Stored, Op, StoreSteps, EraseSteps, WebGoto, flashVars, Nothing,
     CredStore!Nothing, CredStore!Idle
<1>2. CredStore!Damage
  BY <1>1, HalfDoneIsDamage
<1>3. failed' = FALSE /\ nvs' = FALSE
  BY Zenon DEF Reboot
<1>. QED BY <1>1, <1>2, <1>3 DEF CredStore!Reboot

\* A step of the server task begins a request, carries it out as a whole, or
\* fails and damages the credentials.
LEMMA WebTaskRefines == ASSUME ManagerInv, WebTask PROVE [CredStore!Next]_(CredStore!vars)
<1>. USE DEF ManagerInv, WebAt, WebGoto, BootAt, flashVars, bootVars, Requested,
             CredStore!vars, CredStore!Next
<1>1. TypeOK
  OBVIOUS
<1>2. ASSUME NEW c \in Creds, Connect(c) PROVE CredStore!Begin
  <2>1. nvs /\ UNCHANGED <<inUse, nvs>> /\ failed' = FALSE /\ web = "idle" /\ web' = "store_open" /\ cred' = c
        /\ UNCHANGED flash
    BY <1>2 DEF Connect, Untroubled
  <2>2. UNCHANGED Stored /\ Op = CredStore!Idle /\ Op' = CredStore!Storing(c)
    BY <2>1 DEF Stored, Op, StoreSteps, EraseSteps, CredStore!Idle, CredStore!Storing
  <2>. QED BY <2>1, <2>2 DEF CredStore!Begin
<1>3. CASE Clear
  <2>1. nvs /\ UNCHANGED <<inUse, nvs>> /\ failed' = FALSE /\ web = "idle" /\ web' = "erase_open"
        /\ UNCHANGED flash
    BY <1>3 DEF Clear, Untroubled
  <2>2. UNCHANGED Stored /\ Op = CredStore!Idle /\ Op' = CredStore!Erasing
    BY <2>1 DEF Stored, Op, StoreSteps, EraseSteps, CredStore!Idle, CredStore!Erasing
  <2>. QED BY <2>1, <2>2 DEF CredStore!Begin
<1>4. CASE RestartRequest \/ SavedAp
  BY <1>4 DEF RestartRequest, SavedAp, Stored, Op, StoreSteps, EraseSteps
<1>5. ASSUME web \in StoreSteps \cup EraseSteps, web' \in {"idle", "restart"},
             UNCHANGED <<inUse, nvs>>, Stored' = flash, failed' = TRUE
      PROVE  CredStore!Fail
  <2>1. Op # CredStore!Idle
    BY <1>1, <1>5, Ops
  <2>2. Op' = CredStore!Idle
    BY <1>5 DEF Op, StoreSteps, EraseSteps, CredStore!Idle
  <2>3. CredStore!Damage
    BY <1>5, HalfDoneIsDamage
  <2>. QED BY <1>5, <2>1, <2>2, <2>3 DEF CredStore!Fail
<1>6. CASE StoreOpen
  <2>1. CASE web' = "write_ssid"
    BY <1>6, <2>1 DEF StoreOpen, Stored, Op, StoreSteps, EraseSteps
  <2>2. CASE web' # "write_ssid"
    BY <1>5, <1>6, <2>2 DEF StoreOpen, Stored, StoreSteps
  <2>. QED BY <2>1, <2>2
<1>7. CASE EraseOpen
  <2>1. CASE web' = "erase"
    BY <1>7, <2>1 DEF EraseOpen, Stored, Op, StoreSteps, EraseSteps
  <2>2. CASE web' # "erase"
    BY <1>5, <1>7, <2>2 DEF EraseOpen, Stored, EraseSteps
  <2>. QED BY <2>1, <2>2
<1>8. CASE WriteSsid
  <2>1. CASE web' = "write_password"
    BY <1>8, <2>1 DEF WriteSsid, Stored, Op, StoreSteps, EraseSteps
  <2>2. CASE web' # "write_password"
    BY <1>5, <1>8, <2>2 DEF WriteSsid, Stored, StoreSteps
  <2>. QED BY <2>1, <2>2
<1>9. CASE EraseOne
  <2>1. CASE web' = "erase_rest"
    BY <1>9, <2>1 DEF EraseOne, Stored, Op, StoreSteps, EraseSteps
  <2>2. CASE web' # "erase_rest"
    BY <1>5, <1>9, <2>2 DEF EraseOne, Stored, EraseSteps
  <2>. QED BY <2>1, <2>2
<1>10. CASE WritePassword
  <2>1. /\ web = "write_password" /\ web' = "restart" /\ UNCHANGED <<inUse, nvs>>
        /\ Stored' = flash'
    BY <1>10 DEF WritePassword, Stored
  <2>2. CASE FlashMayFail /\ failed' = TRUE /\ UNCHANGED flash
    BY <1>5, <2>1, <2>2 DEF StoreSteps
  <2>3. CASE flash' = [flash EXCEPT !.password = cred] /\ UNCHANGED failed
    <3>1. cred \in Creds /\ Op = CredStore!Storing(cred) /\ Op' = CredStore!Idle
      BY <1>1, <2>1, Ops DEF Op, StoreSteps, EraseSteps, CredStore!Idle
    <3>2. flash = [before EXCEPT !.ssid = cred]
      BY <2>1 DEF HalfDone
    <3>3. Stored' = [ssid |-> cred, password |-> cred]
      BY <2>1, <2>3, <3>2 DEF TypeOK, Keys
    <3>4. ~failed /\ failed \in BOOLEAN
      BY <1>1, <2>1, Zenon DEF Untroubled, StoreSteps, TypeOK
    <3>5. failed' = FALSE
      BY <2>3, <3>4, Zenon
    <3>. QED BY <2>1, <3>1, <3>3, <3>5 DEF CredStore!Succeed
  <2>. QED BY <1>10, <2>2, <2>3 DEF WritePassword
<1>11. CASE EraseRest
  <2>1. /\ web = "erase_rest" /\ web' = "idle" /\ UNCHANGED <<inUse, nvs>>
        /\ Stored' = flash'
    BY <1>11 DEF EraseRest, Stored
  <2>2. CASE FlashMayFail /\ failed' = TRUE /\ UNCHANGED flash
    BY <1>5, <2>1, <2>2 DEF EraseSteps
  <2>3. CASE flash' = Nothing /\ UNCHANGED failed
    <3>1. Op = CredStore!Erasing /\ Op' = CredStore!Idle
      BY <1>1, <2>1, Ops DEF Op, StoreSteps, EraseSteps, CredStore!Idle
    <3>2. ~failed /\ failed \in BOOLEAN
      BY <1>1, <2>1, Zenon DEF Untroubled, EraseSteps, TypeOK
    <3>3. failed' = FALSE
      BY <2>3, <3>2, Zenon
    <3>. QED BY <2>1, <2>3, <3>1, <3>3 DEF CredStore!Succeed, CredStore!Nothing, Nothing
  <2>. QED BY <1>11, <2>2, <2>3 DEF EraseRest
<1>12. CASE Restart
  BY <1>12, RebootRefines DEF Restart
<1>. QED BY <1>2, <1>3, <1>4, <1>6, <1>7, <1>8, <1>9, <1>10, <1>11, <1>12
     DEF WebTask, WebContinues

\* wifi_manager implements CredentialStore: a request whose calls succeed is
\* carried out whole, one that fails or is interrupted does no other damage
\* than that listed, nothing else changes what is stored but the opening of
\* the partition at boot, and the station connects with what is stored.
THEOREM ManagerImplementsStore == Spec => StoreImplemented
<1>1. Init => CredStore!Init
  BY DEF Init, CredStore!Init, Stored, Op, StoreSteps, EraseSteps, CredStore!Nothing,
     CredStore!Idle, Nothing
<1>2. ManagerInv /\ [Next]_vars => [CredStore!Next]_(CredStore!vars)
  <2>1. UNCHANGED vars => UNCHANGED CredStore!vars
    BY DEF vars, CredStore!vars, Stored, Op
  <2>2. ManagerInv /\ Crash => CredStore!Next
    BY RebootRefines DEF Crash, CredStore!Next
  <2>. QED BY <2>1, <2>2, AppTaskRefines, WebTaskRefines DEF Next
<1>. QED BY <1>1, <1>2, ManagerInvariant, PTL DEF Spec, CredStore!Spec, StoreImplemented
=============================================================================
