----------------------- MODULE WifiControllerProofs -----------------------
(***************************************************************************)
(* What TLAPS proves of WifiController for every number of retries, size   *)
(* of the scan buffer, set of scanning tasks and length of the queue.      *)
(***************************************************************************)
EXTENDS WifiController, SequenceTheorems, TLAPS

-----------------------------------------------------------------------------
(***************************************************************************)
(* Types                                                                   *)
(***************************************************************************)

\* Moving the Owner to one of its steps keeps StepsOK.
LEMMA OwnerMoves ==
  \A label \in OwnerSteps : StepsOK /\ Goto(Owner, label) => StepsOK'
BY ConstantsAssumption DEF StepsOK, Tasks, Goto

\* So does moving a scanner to one of its steps.
LEMMA ScannerMoves ==
  \A t \in Scanners, label \in ScanSteps : StepsOK /\ Goto(t, label) => StepsOK'
BY ConstantsAssumption DEF StepsOK, Tasks, Goto

\* Returning from the Owner's call keeps the types of pc and call.
LEMMA Returns ==
  ASSUME StepsOK, NEW code, Return(code)
  PROVE  StepsOK' /\ call' \in Calls
BY OwnerMoves DEF Return, OwnerSteps, NoCall, Calls, Operations, Modes

\* Going on with the Owner's call, at one of its steps.
LEMMA Continues ==
  \A label \in OwnerSteps :
     StepsOK /\ call \in Calls /\ Continue(label) => StepsOK' /\ call' \in Calls
BY OwnerMoves DEF Continue

\* Entering one.
LEMMA Enters ==
  ASSUME NEW op \in Operations, NEW mode \in Modes, NEW ssid \in Ssids \cup {""},
         NEW label \in OwnerSteps, StepsOK, Enter(op, mode, ssid, label)
  PROVE  StepsOK' /\ call' \in Calls
BY OwnerMoves DEF Enter, Calls

\* A failed scan keeps the types of pc and scan.
LEMMA ScanFailures ==
  ASSUME StepsOK, NEW t \in Scanners, ScanFails(t)
  PROVE  StepsOK' /\ scan' \in ScanTables
BY ConstantsAssumption, ScannerMoves DEF ScanFails, ScanSteps, ScanTables

\* The queue holds events whatever is posted and taken.
LEMMA QueueType ==
  ASSUME queue \in Seq(EventKinds)
  PROVE  /\ \A kind \in EventKinds : Posted(kind) \in Seq(EventKinds)
         /\ queue # <<>> => Tail(queue) \in Seq(EventKinds)
BY AppendProperties, HeadTailProperties DEF Posted


\* Every variable keeps its type.
THEOREM TypeCorrect == Spec => []TypeOK
<1>1. Init => TypeOK
  <2> SUFFICES ASSUME Init PROVE TypeOK
    OBVIOUS
  <2>1. st \in Statuses
    <3>1. "none" \in Names
      BY DEF Names
    <3>. QED
      BY <3>1 DEF Init, Statuses, ClearedStatus, NoMode
  <2>2. StepsOK /\ call \in Calls
    BY ConstantsAssumption
    DEF Init, StepsOK, Tasks, OwnerSteps, ScanSteps, NoCall, Calls, Operations, Modes
  <2>3. drv \in Drivers /\ group \in Groups /\ scan \in ScanTables
    BY ConstantsAssumption DEF Init, Drivers, DriverOff, Modes, Groups, ScanTables
  <2>4. queue \in Seq(EventKinds) /\ retry_num \in 0..RetryCount
    BY ConstantsAssumption, EmptySeq DEF Init
  <2>. QED
    BY <2>1, <2>2, <2>3, <2>4 DEF Init, TypeOK
<1>2. TypeOK /\ [Next]_vars => TypeOK'
  <2> SUFFICES ASSUME TypeOK, [Next]_vars
               PROVE  TypeOK'
    OBVIOUS
  <2> USE DEF appVars, backends, evVars, callVars, OwnerSteps, InitSteps, DeinitSteps

  <2>1. ASSUME NEW mode \in AppModes, InitWifi(mode)
       PROVE  TypeOK'
    <3>1. mode \in Modes
      BY ConstantsAssumption DEF Modes
    <3>2. StepsOK' /\ call' \in Calls
      BY <2>1, <3>1, Returns, Enters DEF InitWifi, TypeOK, Operations
    <3>. QED
      BY <2>1, <3>1, <3>2 DEF InitWifi, TypeOK
  <2>2. ASSUME NEW mode \in AppModes, ChangeMode(mode)
       PROVE  TypeOK'
    <3>1. mode \in Modes
      BY ConstantsAssumption DEF Modes
    <3>2. StepsOK' /\ call' \in Calls
      BY <2>2, <3>1, Returns, Enters DEF ChangeMode, TypeOK, Operations
    <3>. QED
      BY <2>2, <3>1, <3>2 DEF ChangeMode, TypeOK
  <2>3. CASE Deinit
    <3>1. StepsOK' /\ call' \in Calls
      BY <2>3, Enters DEF Deinit, TypeOK, Operations, Modes
    <3>. QED
      BY <2>3, <3>1 DEF Deinit, TypeOK
  <2>4. CASE InitCreate
    <3>1. StepsOK' /\ call' \in Calls
      BY <2>4, Returns, Continues DEF InitCreate, TypeOK
    <3>2. group' \in Groups
      BY <2>4 DEF InitCreate, TypeOK, Groups
    <3>3. st' \in Statuses
      BY <2>4 DEF InitCreate, TypeOK, Statuses, Calls
    <3>4. netifs' \subseteq {"sta", "ap"}
      BY <2>4 DEF InitCreate, TypeOK, NetifsOf
    <3>5. loop' \in BOOLEAN
      BY <2>4 DEF InitCreate, TypeOK
    <3>. QED
      BY <2>4, <3>1, <3>2, <3>3, <3>4, <3>5 DEF InitCreate, TypeOK
  <2>5. CASE InitDriver
    <3>1. StepsOK' /\ call' \in Calls
      BY <2>5, Returns, Continues DEF InitDriver, TypeOK
    <3>2. drv' \in Drivers
      BY <2>5 DEF InitDriver, TypeOK, Drivers, DriverOff, Calls, Modes
    <3>3. queue' \in Seq(EventKinds)
      BY <2>5, QueueType DEF InitDriver, TypeOK, EventKinds
    <3>. QED
      BY <2>5, <3>1, <3>2, <3>3 DEF InitDriver, TypeOK
  <2>6. CASE InitDone
    <3>1. StepsOK' /\ call' \in Calls
      BY <2>6, Returns, Continues DEF InitDone, TypeOK
    <3>2. st' \in Statuses
      BY <2>6 DEF InitDone, TypeOK, Statuses, Calls
    <3>. QED
      BY <2>6, <3>1, <3>2 DEF InitDone, TypeOK
  <2>43. CASE DeinitDisconnect
    <3>1. StepsOK' /\ call' \in Calls
      BY <2>43, Continues DEF DeinitDisconnect, TypeOK
    <3>2. queue' \in Seq(EventKinds)
      BY <2>43, QueueType DEF DeinitDisconnect, TypeOK, EventKinds
    <3>3. drv' \in Drivers
      BY <2>43 DEF DeinitDisconnect, TypeOK, Drivers
    <3>. QED
      BY <2>43, <3>1, <3>2, <3>3 DEF DeinitDisconnect, TypeOK
  <2>7. CASE DeinitDriver
    <3>1. StepsOK' /\ call' \in Calls
      BY <2>7, Continues DEF DeinitDriver, TypeOK
    <3>2. DriverOff \in Drivers
      BY DEF DriverOff, Drivers, Modes
    <3>3. queue' \in Seq(EventKinds)
      BY <2>7, QueueType DEF DeinitDriver, TypeOK, EventKinds
    <3>4. drv' \in Drivers
      BY <2>7, <3>2 DEF DeinitDriver, TypeOK, Drivers
    <3>5. netifs' \subseteq {"sta", "ap"}
      BY <2>7 DEF DeinitDriver, TypeOK, NetifsLeft
    <3>. QED
      BY <2>7, <3>1, <3>2, <3>3, <3>4, <3>5 DEF DeinitDriver, TypeOK
  <2>8. CASE DeinitGroup
    <3>1. StepsOK' /\ call' \in Calls
      BY <2>8, Continues DEF DeinitGroup, TypeOK
    <3>2. group' \in Groups
      BY <2>8 DEF DeinitGroup, TypeOK, Groups
    <3>. QED
      BY <2>8, <3>1, <3>2 DEF DeinitGroup, TypeOK
  <2>9. CASE DeinitLoop
    <3>1. StepsOK' /\ call' \in Calls
      BY <2>9, Continues DEF DeinitLoop, TypeOK
    <3>2. loop' \in BOOLEAN
      BY <2>9 DEF DeinitLoop, TypeOK
    <3>3. queue' \in Seq(EventKinds)
      BY <2>9, QueueType, EmptySeq DEF DeinitLoop, TypeOK, EventKinds
    <3>. QED
      BY <2>9, <3>1, <3>2, <3>3 DEF DeinitLoop, TypeOK
  <2>10. CASE DeinitClear
    <3>1. StepsOK' /\ call' \in Calls
      BY <2>10, Returns, Continues DEF DeinitClear, TypeOK
    <3>2. st' \in Statuses
      BY <2>10 DEF DeinitClear, TypeOK, Statuses, ClearedStatus, NoMode, Names
    <3>. QED
      BY <2>10, <3>1, <3>2 DEF DeinitClear, TypeOK
  <2>11. ASSUME NEW ssid \in Ssids \cup {""}, StartSta(ssid)
       PROVE  TypeOK'
    <3>1. StepsOK' /\ call' \in Calls
      BY <2>11, Enters DEF StartSta, TypeOK, Operations, Modes
    <3>. QED
      BY <2>11, <3>1 DEF StartSta, TypeOK
  <2>12. CASE StaConfig
    <3>1. StepsOK' /\ call' \in Calls
      BY <2>12, Returns, Continues DEF StaConfig, TypeOK
    <3>2. st' \in Statuses
      BY <2>12 DEF StaConfig, TypeOK, Statuses
    <3>. QED
      BY <2>12, <3>1, <3>2 DEF StaConfig, TypeOK
  <2>13. CASE StaConnect
    <3>1. StepsOK' /\ call' \in Calls
      BY <2>13, Returns, Continues DEF StaConnect, TypeOK
    <3>2. drv' \in Drivers
      BY <2>13 DEF StaConnect, Connects, TypeOK, Drivers
    <3>. QED
      BY <2>13, <3>1, <3>2 DEF StaConnect, TypeOK
  <2>14. CASE StaResult
    <3>1. StepsOK' /\ call' \in Calls
      BY <2>14, Returns DEF StaResult, TypeOK
    <3>2. st' \in Statuses
      <4>1. call.ssid \in Names
        BY DEF TypeOK, Calls, Names
      <4>2. [st EXCEPT !.sta_ssid = call.ssid] \in Statuses
        BY <4>1 DEF TypeOK, Statuses
      <4>. QED
        BY <2>14, <4>2 DEF StaResult, TypeOK
    <3>. QED
      BY <2>14, <3>1, <3>2 DEF StaResult, TypeOK
  <2>15. ASSUME NEW ssid \in Ssids \cup {""}, StartAp(ssid)
       PROVE  TypeOK'
    <3>1. StepsOK' /\ call' \in Calls
      BY <2>15, Enters DEF StartAp, TypeOK, Operations, Modes
    <3>. QED
      BY <2>15, <3>1 DEF StartAp, TypeOK
  <2>16. CASE ApConfig
    <3>1. StepsOK' /\ call' \in Calls
      BY <2>16, Returns DEF ApConfig, TypeOK
    <3>2. st' \in Statuses
      BY <2>16 DEF ApConfig, TypeOK, Statuses, Calls, Names
    <3>. QED
      BY <2>16, <3>1, <3>2 DEF ApConfig, TypeOK
  <2>17. CASE Disconnect
    <3>1. StepsOK' /\ call' \in Calls
      BY <2>17, Returns, Enters DEF Disconnect, TypeOK, Operations, Modes
    <3>2. queue' \in Seq(EventKinds)
      BY <2>17, QueueType DEF Disconnect, TypeOK, EventKinds
    <3>3. drv' \in Drivers
      BY <2>17 DEF Disconnect, TypeOK, Drivers
    <3>. QED
      BY <2>17, <3>1, <3>2, <3>3 DEF Disconnect, TypeOK
  <2>18. CASE DisconnectUpdate
    <3>1. StepsOK' /\ call' \in Calls
      BY <2>18, Returns DEF DisconnectUpdate, TypeOK
    <3>2. st' \in Statuses
      BY <2>18 DEF DisconnectUpdate, TypeOK, Statuses, Names
    <3>. QED
      BY <2>18, <3>1, <3>2 DEF DisconnectUpdate, TypeOK
  <2>19. ASSUME NEW cb \in Callbacks, Register(cb)
       PROVE  TypeOK'
    BY <2>19 DEF Register, TypeOK, StepsOK
  <2>20. ASSUME NEW t \in Scanners, ScanAllAp(t)
       PROVE  TypeOK'
    <3>1. StepsOK'
      BY <2>20, ScanFailures, ScannerMoves DEF ScanAllAp, TypeOK, ScanSteps
    <3>2. scan' \in ScanTables
      BY <2>20, ScanFailures, ConstantsAssumption DEF ScanAllAp, TypeOK, ScanTables
    <3>. QED
      BY <2>20, <3>1, <3>2 DEF ScanAllAp, TypeOK
  <2>21. ASSUME NEW t \in Scanners, ScanStart(t)
       PROVE  TypeOK'
    <3>1. StepsOK'
      BY <2>21, ScanFailures, ScannerMoves DEF ScanStart, TypeOK, ScanSteps
    <3>2. scan' \in ScanTables
      BY <2>21, ScanFailures, ConstantsAssumption DEF ScanStart, TypeOK, ScanTables
    <3>3. drv' \in Drivers
      BY <2>21 DEF ScanStart, TypeOK, Drivers
    <3>. QED
      BY <2>21, <3>1, <3>2, <3>3 DEF ScanStart, TypeOK
  <2>22. ASSUME NEW t \in Scanners, ScanUnblocked(t)
       PROVE  TypeOK'
    <3>1. StepsOK'
      BY <2>22, ScanFailures, ScannerMoves DEF ScanUnblocked, TypeOK, ScanSteps
    <3>2. scan' \in ScanTables
      BY <2>22, ScanFailures, ConstantsAssumption DEF ScanUnblocked, TypeOK, ScanTables
    <3>. QED
      BY <2>22, <3>1, <3>2 DEF ScanUnblocked, TypeOK
  <2>23. ASSUME NEW t \in Scanners, ScanWait(t)
       PROVE  TypeOK'
    <3>1. StepsOK'
      BY <2>23, ScannerMoves DEF ScanWait, TypeOK, ScanSteps
    <3>2. group' \in Groups
      BY <2>23 DEF ScanWait, TypeOK, Groups
    <3>. QED
      BY <2>23, <3>1, <3>2 DEF ScanWait, TypeOK
  <2>24. ASSUME NEW t \in Scanners, ScanRead(t)
       PROVE  TypeOK'
    <3>1. StepsOK'
      BY <2>24, ScanFailures, ScannerMoves DEF ScanRead, TypeOK, ScanSteps
    <3>2. scan' \in ScanTables
      <4>1. CASE ScanFails(t)
        BY <4>1, ScanFailures DEF TypeOK
      <4>2. CASE \E found \in 0..(ScanBuffer + 1) :
                   scan' = [ap_count |-> IF found > ScanBuffer THEN ScanBuffer ELSE found,
                            ap_record |-> TRUE]
        <5>1. PICK found \in 0..(ScanBuffer + 1) :
                scan' = [ap_count |-> IF found > ScanBuffer THEN ScanBuffer ELSE found,
                         ap_record |-> TRUE]
          BY <4>2
        <5>. QED
          BY <5>1, ConstantsAssumption DEF ScanTables
      <4>. QED
        BY <2>24, <4>1, <4>2 DEF ScanRead
    <3>. QED
      BY <2>24, <3>1, <3>2 DEF ScanRead, TypeOK
  <2>25. ASSUME NEW t \in Scanners, StoreScanResult(t)
       PROVE  TypeOK'
    <3>1. StepsOK'
      BY <2>25, ScannerMoves DEF StoreScanResult, TypeOK, ScanSteps
    <3>. QED
      BY <2>25, <3>1 DEF StoreScanResult, TypeOK
  <2>26. ASSUME NEW t \in Scanners, JsonWait(t)
       PROVE  TypeOK'
    <3>1. StepsOK'
      BY <2>26, ScannerMoves DEF JsonWait, TypeOK, ScanSteps
    <3>2. group' \in Groups
      BY <2>26 DEF JsonWait, TypeOK, Groups
    <3>. QED
      BY <2>26, <3>1, <3>2 DEF JsonWait, TypeOK
  <2>27. ASSUME NEW t \in Scanners, JsonRead(t)
       PROVE  TypeOK'
    <3>1. StepsOK'
      BY <2>27, ScannerMoves DEF JsonRead, TypeOK, ScanSteps
    <3>. QED
      BY <2>27, <3>1 DEF JsonRead, TypeOK
  <2>28. CASE HandleStaStart
    <3>1. group' \in Groups
      BY <2>28 DEF HandleStaStart, TypeOK, Groups, WithBit, Bits
    <3>2. queue' \in Seq(EventKinds)
      BY <2>28, QueueType DEF HandleStaStart, TypeOK, EventKinds, Dispatch
    <3>. QED
      BY <2>28, <3>1, <3>2 DEF HandleStaStart, TypeOK, Dispatch, StepsOK
  <2>29. CASE HandleStaDisconnected
    <3>1. group' \in Groups
      BY <2>29 DEF HandleStaDisconnected, TypeOK, Groups, WithBit, Bits
    <3>2. queue' \in Seq(EventKinds)
      BY <2>29, QueueType DEF HandleStaDisconnected, TypeOK, EventKinds, Dispatch
    <3>3. drv' \in Drivers
      BY <2>29 DEF HandleStaDisconnected, TypeOK, Drivers, Reconnect, Connects
    <3>4. retry_num' \in 0..RetryCount
      BY <2>29, ConstantsAssumption DEF HandleStaDisconnected, TypeOK, RetriesLeft
    <3>5. ev' \in {"idle", "got_ip", "scan_flag", "callback"}
      BY <2>29 DEF HandleStaDisconnected, TypeOK, Invoke
    <3>. QED
      BY <2>29, <3>1, <3>2, <3>3, <3>4, <3>5 DEF HandleStaDisconnected, TypeOK, Dispatch, StepsOK
  <2>30. CASE HandleGotIp
    <3>1. st' \in Statuses
      BY <2>30 DEF HandleGotIp, TypeOK, Statuses
    <3>2. queue' \in Seq(EventKinds)
      BY <2>30, QueueType DEF HandleGotIp, TypeOK, EventKinds, Dispatch
    <3>. QED
      BY <2>30, <3>1, <3>2 DEF HandleGotIp, TypeOK, Dispatch, StepsOK
  <2>31. CASE GotIpSetBit
    <3>1. group' \in Groups
      BY <2>31 DEF GotIpSetBit, TypeOK, Groups, WithBit, Bits
    <3>2. ev' \in {"idle", "got_ip", "scan_flag", "callback"}
      BY <2>31 DEF GotIpSetBit, TypeOK, Invoke
    <3>. QED
      BY <2>31, <3>1, <3>2 DEF GotIpSetBit, TypeOK, StepsOK
  <2>32. CASE HandleScanDone
    <3>1. group' \in Groups
      BY <2>32 DEF HandleScanDone, TypeOK, Groups, WithBit, Bits
    <3>2. queue' \in Seq(EventKinds)
      BY <2>32, QueueType DEF HandleScanDone, TypeOK, EventKinds, Dispatch
    <3>. QED
      BY <2>32, <3>1, <3>2 DEF HandleScanDone, TypeOK, Dispatch, StepsOK
  <2>33. CASE ScanDoneFlag
    <3>1. st' \in Statuses
      BY <2>33 DEF ScanDoneFlag, TypeOK, Statuses
    <3>. QED
      BY <2>33, <3>1 DEF ScanDoneFlag, TypeOK, StepsOK
  <2>34. CASE HandleStation
    <3>1. queue' \in Seq(EventKinds)
      BY <2>34, QueueType DEF HandleStation, TypeOK, EventKinds, Dispatch
    <3>2. ev' \in {"idle", "got_ip", "scan_flag", "callback"}
      BY <2>34 DEF HandleStation, TypeOK, Invoke
    <3>. QED
      BY <2>34, <3>1, <3>2 DEF HandleStation, TypeOK, Dispatch, StepsOK
  <2>35. CASE CallbackReturns
    BY <2>35 DEF CallbackReturns, TypeOK, StepsOK
  <2>36. CASE LinkUp
    <3>1. drv' \in Drivers
      BY <2>36 DEF LinkUp, TypeOK, Drivers, DriverPosts
    <3>2. queue' \in Seq(EventKinds)
      BY <2>36, QueueType DEF LinkUp, TypeOK, EventKinds, DriverPosts
    <3>. QED
      BY <2>36, <3>1, <3>2 DEF LinkUp, TypeOK, DriverPosts, StepsOK
  <2>37. CASE ConnectFails
    <3>1. drv' \in Drivers
      BY <2>37 DEF ConnectFails, TypeOK, Drivers, DriverPosts
    <3>2. queue' \in Seq(EventKinds)
      BY <2>37, QueueType DEF ConnectFails, TypeOK, EventKinds, DriverPosts
    <3>. QED
      BY <2>37, <3>1, <3>2 DEF ConnectFails, TypeOK, DriverPosts, StepsOK
  <2>38. CASE LinkLost
    <3>1. drv' \in Drivers
      BY <2>38 DEF LinkLost, TypeOK, Drivers, DriverPosts
    <3>2. queue' \in Seq(EventKinds)
      BY <2>38, QueueType DEF LinkLost, TypeOK, EventKinds, DriverPosts
    <3>. QED
      BY <2>38, <3>1, <3>2 DEF LinkLost, TypeOK, DriverPosts, StepsOK
  <2>39. CASE ScanFinished
    <3>1. drv' \in Drivers
      BY <2>39 DEF ScanFinished, TypeOK, Drivers, DriverPosts
    <3>2. queue' \in Seq(EventKinds)
      BY <2>39, QueueType DEF ScanFinished, TypeOK, EventKinds, DriverPosts
    <3>. QED
      BY <2>39, <3>1, <3>2 DEF ScanFinished, TypeOK, DriverPosts, StepsOK
  <2>40. CASE StationJoins
    <3>1. drv' \in Drivers
      BY <2>40 DEF StationJoins, TypeOK, Drivers, DriverPosts
    <3>2. queue' \in Seq(EventKinds)
      BY <2>40, QueueType DEF StationJoins, TypeOK, EventKinds, DriverPosts
    <3>. QED
      BY <2>40, <3>1, <3>2 DEF StationJoins, TypeOK, DriverPosts, StepsOK
  <2>41. CASE StationLeaves
    <3>1. drv' \in Drivers
      BY <2>41 DEF StationLeaves, TypeOK, Drivers, DriverPosts
    <3>2. queue' \in Seq(EventKinds)
      BY <2>41, QueueType DEF StationLeaves, TypeOK, EventKinds, DriverPosts
    <3>. QED
      BY <2>41, <3>1, <3>2 DEF StationLeaves, TypeOK, DriverPosts, StepsOK
  <2>42. CASE UNCHANGED vars
    BY <2>42 DEF vars, TypeOK, StepsOK
  <2>. QED
    BY <2>1, <2>2, <2>3, <2>4, <2>5, <2>6, <2>7, <2>8, <2>9, <2>10,
       <2>11, <2>12, <2>13, <2>14, <2>15, <2>16, <2>17, <2>18, <2>19,
       <2>20, <2>21, <2>22, <2>23, <2>24, <2>25, <2>26, <2>27, <2>28,
       <2>29, <2>30, <2>31, <2>32, <2>33, <2>34, <2>35, <2>36, <2>37,
       <2>38, <2>39, <2>40, <2>41, <2>42, <2>43
    DEF Next, OwnerCalls, OwnerContinues, ScannerCalls, ScannerContinues, EventTask, Driver
<1>. QED
  BY <1>1, <1>2, PTL DEF Spec

-----------------------------------------------------------------------------
(***************************************************************************)
(* The life cycle: what exists at each step                                *)
(***************************************************************************)

\* The steps of wifi_c_deinit that follow esp_wifi_deinit.
Dismantling == {"deinit_group", "deinit_loop", "deinit_clear"}

\* The strengthening that makes the properties inductive: what exists of the
\* netifs, the event loop, the event group and the driver at each step of the
\* Owner's call.
Lifecycle ==
  /\ loop <=> st.even_loop_started /\ ~At(Owner, "deinit_clear")
  /\ st.netif_initialized <=> st.even_loop_started
  /\ ~st.even_loop_started =>
        ~st.wifi_initialized /\ ~st.sta_connected /\ st.sta_ip = "0.0.0.0"
  /\ NetifsMatchMode
  /\ st.even_loop_started /\ pc[Owner] \notin {"deinit_loop", "deinit_clear"} =>
        group.alive
  /\ At(Owner, "create") => ~st.wifi_initialized
  /\ pc[Owner] \in {"init_driver", "init_done"} =>
        /\ st.even_loop_started /\ ~st.wifi_initialized
        /\ st.wifi_mode = call.mode
  /\ drv.power = "started" =>
        \/ At(Owner, "init_done")
        \/ st.wifi_initialized /\ pc[Owner] \notin Dismantling
  /\ st.wifi_initialized /\ pc[Owner] \notin Dismantling =>
        drv.power = "started" /\ drv.mode = st.wifi_mode
  /\ At(Owner, "init_done") => drv.power = "started" /\ drv.mode = call.mode
  /\ drv.power # "started" => drv.link = "down" /\ ~drv.scanning /\ ~drv.station
  /\ ~loop \/ At(Owner, "init_driver") => queue = <<>>

\* A step of a scanner leaves the Owner where it is.
LEMMA OwnerStays ==
  \A t \in Scanners : \A label : StepsOK /\ Goto(t, label) => pc'[Owner] = pc[Owner]
BY ConstantsAssumption DEF StepsOK, Tasks, Goto

\* A step of the Owner ends at the label it names.
LEMMA OwnerGoes ==
  \A label : StepsOK /\ Goto(Owner, label) => pc'[Owner] = label
BY DEF StepsOK, Tasks, Goto


\* Nothing exists at the start.
LEMMA LifecycleInit == Init => Lifecycle
BY ConstantsAssumption
DEF Init, Lifecycle, NetifsMatchMode, ClearedStatus, DriverOff, Dismantling, At, Tasks

\* Every step keeps Lifecycle, given the types.
LEMMA LifecycleStep == TypeOK /\ Lifecycle /\ [Next]_vars => Lifecycle'
<1> SUFFICES ASSUME TypeOK, Lifecycle, [Next]_vars
             PROVE  Lifecycle'
  OBVIOUS
<1> StepsOK
  BY DEF TypeOK
<1> st \in Statuses /\ group \in Groups /\ drv \in Drivers
  BY DEF TypeOK
<1> USE DEF Lifecycle, NetifsMatchMode, Dismantling, At, Statuses, Groups, Drivers,
            appVars, backends, evVars, callVars

<1>1. ASSUME NEW mode \in AppModes, InitWifi(mode)
     PROVE  Lifecycle'
  BY <1>1, OwnerGoes DEF InitWifi, Enter, Return, Continue
<1>2. ASSUME NEW mode \in AppModes, ChangeMode(mode)
     PROVE  Lifecycle'
  BY <1>2, OwnerGoes DEF ChangeMode, Enter, Return, Continue
<1>3. CASE Deinit
  BY <1>3, OwnerGoes DEF Deinit, Enter, Return, Continue
<1>4. CASE InitCreate
  <2>1. CASE Return("ESP_ERR") /\ UNCHANGED <<loop, st, netifs>>
    <3>1. pc'[Owner] = "idle" /\ call' = NoCall
      BY <2>1, OwnerGoes DEF Return
    <3>2. pc[Owner] = "create" /\ ~st.wifi_initialized /\ drv.power # "started"
      BY <1>4 DEF InitCreate
    <3>3. group'.alive /\ UNCHANGED <<drv, queue>>
      BY <1>4 DEF InitCreate
    <3>. QED
      BY <2>1, <3>1, <3>2, <3>3
  <2>2. CASE /\ ~loop
             /\ loop' = TRUE
             /\ netifs' = netifs \cup NetifsOf(call.mode)
             /\ st' = [st EXCEPT !.even_loop_started = TRUE,
                                !.netif_initialized = TRUE, !.wifi_mode = call.mode]
             /\ Continue("init_driver")
    <3>1. netifs = {} /\ queue = <<>> /\ ~st.wifi_initialized /\ drv.power # "started"
      BY <1>4, <2>2 DEF InitCreate
    <3>2. netifs' = NetifsOf(call.mode)
      BY <2>2, <3>1
    <3>3. /\ st'.even_loop_started /\ st'.netif_initialized
          /\ st'.wifi_mode = call.mode /\ ~st'.wifi_initialized
      BY <2>2, <3>1
    <3>4. pc'[Owner] = "init_driver" /\ call' = call
      BY <2>2, OwnerGoes DEF Continue
    <3>5. group'.alive /\ UNCHANGED <<drv, queue>>
      BY <1>4 DEF InitCreate
    <3>. QED
      BY <2>2, <3>1, <3>2, <3>3, <3>4, <3>5
  <2>. QED
    BY <1>4, <2>1, <2>2 DEF InitCreate
<1>5. CASE InitDriver
  BY <1>5, OwnerGoes DEF InitDriver, Enter, Return, Continue, DriverOff, Calls
<1>6. CASE InitDone
  BY <1>6, OwnerGoes DEF InitDone, Enter, Return, Continue
<1>43. CASE DeinitDisconnect
  BY <1>43, OwnerGoes DEF DeinitDisconnect, Continue
<1>7. CASE DeinitDriver
  <2>1. pc[Owner] = "deinit_driver" /\ pc'[Owner] = "deinit_group"
    BY <1>7, OwnerGoes DEF DeinitDriver, Continue
  <2>2. /\ drv'.power # "started" /\ drv'.link = "down"
        /\ ~drv'.scanning /\ ~drv'.station
    BY <1>7, <2>1 DEF DeinitDriver, DriverOff
  <2>3. netifs' = {}
    BY <1>7, <2>1 DEF DeinitDriver, NetifsLeft
  <2>4. UNCHANGED <<st, group, loop>> /\ (queue = <<>> /\ ~loop => queue' = <<>>)
    BY <1>7, <2>1 DEF DeinitDriver
  <2>. QED
    BY <2>1, <2>2, <2>3, <2>4
<1>8. CASE DeinitGroup
  BY <1>8, OwnerGoes DEF DeinitGroup, Enter, Return, Continue
<1>9. CASE DeinitLoop
  BY <1>9, OwnerGoes DEF DeinitLoop, Enter, Return, Continue
<1>10. CASE DeinitClear
  BY <1>10, OwnerGoes DEF DeinitClear, Enter, Return, Continue, ClearedStatus
<1>11. ASSUME NEW ssid \in Ssids \cup {""}, StartSta(ssid)
     PROVE  Lifecycle'
  BY <1>11, OwnerGoes DEF StartSta, Enter, Return, Continue
<1>12. CASE StaConfig
  BY <1>12, OwnerGoes DEF StaConfig, Enter, Return, Continue
<1>13. CASE StaConnect
  BY <1>13, OwnerGoes DEF StaConnect, Enter, Return, Continue, CanConnect, Connects
<1>14. CASE StaResult
  BY <1>14, OwnerGoes DEF StaResult, Enter, Return, Continue
<1>15. ASSUME NEW ssid \in Ssids \cup {""}, StartAp(ssid)
     PROVE  Lifecycle'
  BY <1>15, OwnerGoes DEF StartAp, Enter, Return, Continue
<1>16. CASE ApConfig
  BY <1>16, OwnerGoes DEF ApConfig, Enter, Return, Continue
<1>17. CASE Disconnect
  BY <1>17, OwnerGoes DEF Disconnect, Enter, Return, Continue
<1>18. CASE DisconnectUpdate
  BY <1>18, OwnerGoes DEF DisconnectUpdate, Enter, Return, Continue
<1>19. ASSUME NEW cb \in Callbacks, Register(cb)
     PROVE  Lifecycle'
  BY <1>19 DEF Register
<1>20. ASSUME NEW t \in Scanners, ScanAllAp(t)
     PROVE  Lifecycle'
  BY <1>20, OwnerStays DEF ScanAllAp, ScanFails
<1>21. ASSUME NEW t \in Scanners, ScanStart(t)
     PROVE  Lifecycle'
  BY <1>21, OwnerStays DEF ScanStart, ScanFails, CanScan
<1>22. ASSUME NEW t \in Scanners, ScanUnblocked(t)
     PROVE  Lifecycle'
  BY <1>22, OwnerStays DEF ScanUnblocked, ScanFails
<1>23. ASSUME NEW t \in Scanners, ScanWait(t)
     PROVE  Lifecycle'
  BY <1>23, OwnerStays DEF ScanWait, ScanFails
<1>24. ASSUME NEW t \in Scanners, ScanRead(t)
     PROVE  Lifecycle'
  BY <1>24, OwnerStays DEF ScanRead, ScanFails
<1>25. ASSUME NEW t \in Scanners, StoreScanResult(t)
     PROVE  Lifecycle'
  BY <1>25, OwnerStays DEF StoreScanResult
<1>26. ASSUME NEW t \in Scanners, JsonWait(t)
     PROVE  Lifecycle'
  BY <1>26, OwnerStays DEF JsonWait
<1>27. ASSUME NEW t \in Scanners, JsonRead(t)
     PROVE  Lifecycle'
  BY <1>27, OwnerStays DEF JsonRead
<1>28. CASE HandleStaStart
  BY <1>28 DEF HandleStaStart, Dispatch, WithBit
<1>29. CASE HandleStaDisconnected
  BY <1>29 DEF HandleStaDisconnected, Dispatch, WithBit, Reconnect, CanConnect,
              Connects
<1>30. CASE HandleGotIp
  BY <1>30 DEF HandleGotIp, Dispatch
<1>31. CASE GotIpSetBit
  BY <1>31 DEF GotIpSetBit, WithBit
<1>32. CASE HandleScanDone
  BY <1>32 DEF HandleScanDone, Dispatch, WithBit
<1>33. CASE ScanDoneFlag
  BY <1>33 DEF ScanDoneFlag
<1>34. CASE HandleStation
  BY <1>34 DEF HandleStation, Dispatch
<1>35. CASE CallbackReturns
  BY <1>35 DEF CallbackReturns
<1>36. CASE LinkUp
  BY <1>36 DEF LinkUp, DriverPosts
<1>37. CASE ConnectFails
  BY <1>37 DEF ConnectFails, DriverPosts
<1>38. CASE LinkLost
  BY <1>38 DEF LinkLost, DriverPosts
<1>39. CASE ScanFinished
  BY <1>39 DEF ScanFinished, DriverPosts
<1>40. CASE StationJoins
  BY <1>40 DEF StationJoins, DriverPosts
<1>41. CASE StationLeaves
  BY <1>41 DEF StationLeaves, DriverPosts
<1>42. CASE UNCHANGED vars
  BY <1>42 DEF vars
<1>. QED
  BY <1>1, <1>2, <1>3, <1>4, <1>5, <1>6, <1>7, <1>8, <1>9, <1>10, <1>11,
     <1>12, <1>13, <1>14, <1>15, <1>16, <1>17, <1>18, <1>19, <1>20,
     <1>21, <1>22, <1>23, <1>24, <1>25, <1>26, <1>27, <1>28, <1>29,
     <1>30, <1>31, <1>32, <1>33, <1>34, <1>35, <1>36, <1>37, <1>38,
     <1>39, <1>40, <1>41, <1>42, <1>43
  DEF Next, OwnerCalls, OwnerContinues, ScannerCalls, ScannerContinues, EventTask, Driver
\* What exists matches the step of the Owner's call.
THEOREM LifecycleCorrect == Spec => []Lifecycle
<1>1. Init => Lifecycle
  BY LifecycleInit
<1>2. TypeOK /\ Lifecycle /\ [Next]_vars => Lifecycle'
  BY LifecycleStep
<1>. QED
  BY <1>1, <1>2, TypeCorrect, PTL DEF Spec

\* The status claims no more than there is, whatever initialization failed.
THEOREM StatusMatchesBackends == Spec => []BackendsMatchStatus
<1>1. Lifecycle => BackendsMatchStatus
  BY DEF Lifecycle, BackendsMatchStatus, Dismantling, DeinitSteps, At
<1>. QED
  BY <1>1, LifecycleCorrect, PTL

\* No netif is created twice, lost or left behind.
THEOREM NetifsMatchTheMode == Spec => []NetifsMatchMode
<1>1. Lifecycle => NetifsMatchMode
  BY DEF Lifecycle
<1>. QED
  BY <1>1, LifecycleCorrect, PTL

\* Without an event loop the status shows no connection.
THEOREM ConnectionNeedsLoop == Spec => []NoConnectionWithoutLoop
<1>1. Lifecycle => NoConnectionWithoutLoop
  BY DEF Lifecycle, NoConnectionWithoutLoop, At
<1>. QED
  BY <1>1, LifecycleCorrect, PTL

-----------------------------------------------------------------------------
(***************************************************************************)
(* The driver's start, the retries and the table of the last scan          *)
(***************************************************************************)

\* Only wifi_c_init_wifi starts the driver.
LEMMA OnlyInitStarts ==
  TypeOK /\ [Next]_vars /\ drv.power # "started" /\ drv'.power = "started"
  => At(Owner, "init_driver")
<1> SUFFICES ASSUME TypeOK, [Next]_vars, ~InitDriver, drv.power # "started"
             PROVE  drv'.power # "started"
  BY DEF InitDriver
<1> drv \in Drivers
  BY DEF TypeOK
<1> USE DEF Drivers, appVars, backends, evVars, callVars
<1>1. CASE OwnerCalls
  BY <1>1 DEF OwnerCalls, InitWifi, ChangeMode, Deinit, StartSta, StartAp, Register,
              Disconnect
<1>2. CASE OwnerContinues
  <2>1. CASE InitCreate \/ InitDone \/ DeinitGroup \/ DeinitLoop \/ DeinitClear
    BY <2>1 DEF InitCreate, InitDone, DeinitGroup, DeinitLoop, DeinitClear
  <2>2. CASE DeinitDisconnect \/ DeinitDriver
    BY <2>2 DEF DeinitDisconnect, DeinitDriver, DriverOff
  <2>3. CASE StaConnect
    BY <2>3 DEF StaConnect, CanConnect, Connects
  <2>4. CASE StaConfig \/ StaResult \/ ApConfig \/ DisconnectUpdate
    BY <2>4 DEF StaConfig, StaResult, ApConfig, DisconnectUpdate
  <2>. QED
    BY <1>2, <2>1, <2>2, <2>3, <2>4 DEF OwnerContinues
<1>3. ASSUME NEW t \in Scanners, ScannerCalls(t) \/ ScannerContinues(t)
      PROVE  drv'.power # "started"
  BY <1>3 DEF ScannerCalls, ScannerContinues, ScanAllAp, StoreScanResult, ScanStart,
              CanScan, ScanUnblocked, ScanWait, ScanRead, JsonWait, JsonRead
<1>4. CASE EventTask
  BY <1>4 DEF EventTask, HandleStaStart, HandleStaDisconnected, Reconnect, CanConnect,
              Connects, HandleGotIp, GotIpSetBit, HandleScanDone, ScanDoneFlag, HandleStation,
              CallbackReturns
<1>5. CASE Driver
  BY <1>5 DEF Driver, LinkUp, ConnectFails, LinkLost, ScanFinished, StationJoins,
              StationLeaves, DriverPosts
<1>6. CASE UNCHANGED vars
  BY <1>6 DEF vars
<1>. QED
  BY <1>1, <1>2, <1>3, <1>4, <1>5, <1>6 DEF Next

\* A driver starts with no event of the one before it in the queue.
THEOREM StartsWithEmptyQueue == Spec => NoStaleEvents
<1>1. TypeOK /\ Lifecycle /\ [Next]_vars
      => [drv.power # "started" /\ drv'.power = "started" => queue = <<>>]_vars
  BY OnlyInitStarts DEF Lifecycle
<1>. QED
  BY <1>1, TypeCorrect, LifecycleCorrect, PTL DEF Spec, NoStaleEvents

\* A reported failure has used up the retries, which nothing gives back.
RetriesSpent == "CONNECT_FAIL" \in group.bits => retry_num = RetryCount

\* Every step keeps RetriesSpent.
LEMMA RetriesSpentStep == TypeOK /\ RetriesSpent /\ [Next]_vars => RetriesSpent'
<1> SUFFICES ASSUME TypeOK, RetriesSpent, [Next]_vars
             PROVE  RetriesSpent'
  OBVIOUS
<1> group \in Groups /\ retry_num \in 0..RetryCount
  BY DEF TypeOK
<1> USE ConstantsAssumption
    DEF RetriesSpent, Groups, appVars, backends, evVars, callVars
<1>1. CASE OwnerCalls
  BY <1>1 DEF OwnerCalls, InitWifi, ChangeMode, Deinit, StartSta, StartAp, Register,
              Disconnect
<1>2. CASE OwnerContinues
  <2>1. CASE InitCreate \/ DeinitGroup
    BY <2>1 DEF InitCreate, DeinitGroup
  <2>2. CASE \/ InitDriver \/ InitDone \/ DeinitDriver \/ DeinitLoop \/ DeinitClear
             \/ StaConfig \/ StaConnect \/ StaResult \/ ApConfig \/ DisconnectUpdate
             \/ DeinitDisconnect
    <3>1. UNCHANGED <<group, retry_num>>
      BY <2>2 DEF DeinitDisconnect, InitDriver, InitDone, DeinitDriver, DeinitLoop, DeinitClear, StaConfig,
                  StaConnect, StaResult, ApConfig, DisconnectUpdate
    <3>. QED
      BY <3>1
  <2>. QED
    BY <1>2, <2>1, <2>2 DEF OwnerContinues
<1>3. ASSUME NEW t \in Scanners, ScannerCalls(t) \/ ScannerContinues(t)
      PROVE  RetriesSpent'
  BY <1>3 DEF ScannerCalls, ScannerContinues, ScanAllAp, StoreScanResult, ScanStart,
              ScanUnblocked, ScanWait, ScanRead, JsonWait, JsonRead
<1>4. CASE HandleStaDisconnected
  BY <1>4 DEF HandleStaDisconnected, Dispatch, RetriesLeft, WithBit
<1>5. CASE EventTask /\ ~HandleStaDisconnected
  BY <1>5 DEF EventTask, HandleStaStart, HandleGotIp, GotIpSetBit, HandleScanDone,
              ScanDoneFlag, HandleStation, CallbackReturns, WithBit
<1>6. CASE Driver
  BY <1>6 DEF Driver, LinkUp, ConnectFails, LinkLost, ScanFinished, StationJoins,
              StationLeaves, DriverPosts
<1>7. CASE UNCHANGED vars
  BY <1>7 DEF vars
<1>. QED
  BY <1>1, <1>2, <1>3, <1>4, <1>5, <1>6, <1>7 DEF Next

\* Only a call of wifi_c_start_sta or a retry that is left connects.
LEMMA WhoConnects ==
  TypeOK /\ [Next]_vars /\ drv.link = "down" /\ drv'.link = "connecting"
  => At(Owner, "sta_connect") \/ RetriesLeft
<1> SUFFICES ASSUME TypeOK, [Next]_vars, ~At(Owner, "sta_connect"), ~RetriesLeft,
                    drv.link = "down"
             PROVE  drv'.link # "connecting"
  OBVIOUS
<1> drv \in Drivers
  BY DEF TypeOK
<1> USE DEF Drivers, appVars, backends, evVars, callVars
<1>1. CASE OwnerCalls
  BY <1>1 DEF OwnerCalls, InitWifi, ChangeMode, Deinit, StartSta, StartAp, Register,
              Disconnect
<1>2. CASE OwnerContinues
  <2>1. CASE InitDriver \/ DeinitDriver \/ DeinitDisconnect
    <3>1. \A p : [drv EXCEPT !.power = p].link = "down"
      OBVIOUS
    <3>2. \A mode : [DriverOff EXCEPT !.power = "started", !.mode = mode].link = "down"
      BY DEF DriverOff
    <3>3. CASE InitDriver
      BY <3>1, <3>2, <3>3 DEF InitDriver
    <3>4. CASE DeinitDriver
      BY <3>4 DEF DeinitDriver, DriverOff
    <3>5. CASE DeinitDisconnect
      BY <3>5 DEF DeinitDisconnect
    <3>. QED
      BY <2>1, <3>3, <3>4, <3>5
  <2>2. CASE \/ InitCreate \/ InitDone \/ DeinitGroup \/ DeinitLoop \/ DeinitClear
             \/ StaConfig \/ StaConnect \/ StaResult \/ ApConfig \/ DisconnectUpdate
    <3>1. UNCHANGED drv
      BY <2>2 DEF InitCreate, InitDone, DeinitGroup, DeinitLoop, DeinitClear, StaConfig,
                  StaConnect, StaResult, ApConfig, DisconnectUpdate, At
    <3>. QED
      BY <3>1
  <2>. QED
    BY <1>2, <2>1, <2>2 DEF OwnerContinues
<1>3. ASSUME NEW t \in Scanners, ScannerCalls(t) \/ ScannerContinues(t)
      PROVE  drv'.link # "connecting"
  BY <1>3 DEF ScannerCalls, ScannerContinues, ScanAllAp, StoreScanResult, ScanStart,
              ScanUnblocked, ScanWait, ScanRead, JsonWait, JsonRead
<1>4. CASE EventTask
  BY <1>4 DEF EventTask, HandleStaStart, HandleStaDisconnected, HandleGotIp,
              GotIpSetBit, HandleScanDone, ScanDoneFlag, HandleStation, CallbackReturns
<1>5. CASE Driver
  BY <1>5 DEF Driver, LinkUp, ConnectFails, LinkLost, ScanFinished, StationJoins,
              StationLeaves, DriverPosts
<1>6. CASE UNCHANGED vars
  BY <1>6 DEF vars
<1>. QED
  BY <1>1, <1>2, <1>3, <1>4, <1>5, <1>6 DEF Next

\* After the failure is reported only a new wifi_c_start_sta connects.
THEOREM StaysDownAfterGivingUp == Spec => GivenUpStaysDown
<1>1. Init => RetriesSpent
  BY DEF Init, RetriesSpent
<1>2. TypeOK /\ RetriesSpent /\ [Next]_vars => RetriesSpent'
  BY RetriesSpentStep
<1>3. TypeOK /\ RetriesSpent /\ [Next]_vars
      => [ /\ "CONNECT_FAIL" \in group.bits
           /\ drv.link = "down" /\ drv'.link = "connecting"
           => At(Owner, "sta_connect") ]_vars
  BY ConstantsAssumption, WhoConnects DEF RetriesSpent, RetriesLeft
<1>. QED
  BY <1>1, <1>2, <1>3, TypeCorrect, PTL DEF Spec, GivenUpStaysDown

\* The steps between wifi_c_scan_all_ap's entry and the reading of the records.
Scanning == {"scan_start", "scan_retry", "scan_block", "scan_wait", "scan_read"}

\* ap_count announces records without a table only while a scan is under way.
CountBelongsToScan ==
  scan.ap_count > 0 /\ ~scan.ap_record => \E t \in Scanners : pc[t] \in Scanning

\* Every step keeps CountBelongsToScan.
LEMMA CountBelongsToScanStep ==
  TypeOK /\ CountBelongsToScan /\ [Next]_vars => CountBelongsToScan'
<1> SUFFICES ASSUME TypeOK, CountBelongsToScan, [Next]_vars
             PROVE  CountBelongsToScan'
  OBVIOUS
<1> StepsOK /\ scan \in ScanTables
  BY DEF TypeOK
<1> USE ConstantsAssumption DEF appVars, backends, evVars, callVars, At
<1>1. ASSUME UNCHANGED scan, \A t \in Scanners : pc[t] \in Scanning => pc'[t] \in Scanning
      PROVE  CountBelongsToScan'
  BY <1>1 DEF CountBelongsToScan
<1>2. ASSUME UNCHANGED scan, NEW label, Goto(Owner, label)
      PROVE  CountBelongsToScan'
  BY <1>1, <1>2 DEF Goto, StepsOK, Tasks
<1>3. CASE OwnerCalls
  BY <1>1, <1>2, <1>3 DEF OwnerCalls, InitWifi, ChangeMode, Deinit, StartSta, StartAp,
     Register, Disconnect, Enter, Return
<1>4. CASE OwnerContinues
  BY <1>2, <1>4 DEF OwnerContinues, InitCreate, InitDriver, InitDone,
     DeinitDisconnect, DeinitDriver, DeinitGroup, DeinitLoop, DeinitClear, StaConfig,
     StaConnect, StaResult, ApConfig, DisconnectUpdate, Return, Continue
<1>5. ASSUME NEW t \in Scanners, ScannerCalls(t) \/ ScannerContinues(t)
      PROVE  CountBelongsToScan'
  <2>1. ASSUME ScanFails(t)
        PROVE  CountBelongsToScan'
    BY <2>1 DEF ScanFails, CountBelongsToScan
  <2>2. ASSUME NEW label \in Scanning, Goto(t, label)
        PROVE  CountBelongsToScan'
    BY <2>2 DEF Goto, StepsOK, Tasks, CountBelongsToScan
  <2>3. ASSUME UNCHANGED scan, NEW label, Goto(t, label), pc[t] \notin Scanning
        PROVE  CountBelongsToScan'
    BY <1>1, <2>3 DEF Goto, StepsOK, Tasks
  <2>4. ASSUME scan'.ap_record
        PROVE  CountBelongsToScan'
    BY <2>4 DEF CountBelongsToScan
  <2>5. CASE ScannerCalls(t)
    BY <2>1, <2>2, <2>3, <2>5 DEF ScannerCalls, ScanAllAp, StoreScanResult, Scanning
  <2>6. CASE ScanStart(t) \/ ScanUnblocked(t) \/ ScanWait(t)
    BY <2>1, <2>2, <2>6 DEF ScanStart, ScanUnblocked, ScanWait, Scanning
  <2>7. CASE ScanRead(t)
    BY <2>1, <2>4, <2>7 DEF ScanRead
  <2>8. CASE JsonWait(t) \/ JsonRead(t)
    BY <2>3, <2>8 DEF JsonWait, JsonRead, Scanning
  <2>. QED
    BY <1>5, <2>5, <2>6, <2>7, <2>8 DEF ScannerContinues
<1>6. CASE EventTask
  BY <1>1, <1>6 DEF EventTask, HandleStaStart, HandleStaDisconnected, HandleGotIp,
     GotIpSetBit, HandleScanDone, ScanDoneFlag, HandleStation, CallbackReturns
<1>7. CASE Driver
  BY <1>1, <1>7 DEF Driver, LinkUp, ConnectFails, LinkLost, ScanFinished, StationJoins,
     StationLeaves, DriverPosts
<1>8. CASE UNCHANGED vars
  BY <1>1, <1>8 DEF vars
<1>. QED
  BY <1>3, <1>4, <1>5, <1>6, <1>7, <1>8 DEF Next

\* With one scanning task, as in the firmware (the http server's), the records
\* are there when they are read.  Two scanning tasks break it.
THEOREM TableIsThere ==
  ASSUME \A t, u \in Scanners : t = u
  PROVE  Spec => []ScanTableValid
<1>1. Init => CountBelongsToScan
  BY DEF Init, CountBelongsToScan
<1>2. TypeOK /\ CountBelongsToScan /\ [Next]_vars => CountBelongsToScan'
  BY CountBelongsToScanStep
<1>3. TypeOK /\ CountBelongsToScan => ScanTableValid
  BY DEF CountBelongsToScan, ScanTableValid, Scanning, At
<1>. QED
  BY <1>1, <1>2, <1>3, TypeCorrect, PTL DEF Spec

-----------------------------------------------------------------------------
(***************************************************************************)
(* The handlers and what they work on                                      *)
(***************************************************************************)

\* A handler runs only in an event loop that exists.
HandlerInLoop == ev # "idle" => loop

\* Every step keeps HandlerInLoop: the deletion of the loop waits for the handler.
LEMMA HandlerInLoopStep ==
  TypeOK /\ Lifecycle /\ HandlerInLoop /\ [Next]_vars => HandlerInLoop'
<1> SUFFICES ASSUME TypeOK, Lifecycle, HandlerInLoop, [Next]_vars
             PROVE  HandlerInLoop'
  OBVIOUS
<1> USE DEF HandlerInLoop, appVars, backends, evVars, callVars
<1>1. CASE OwnerCalls
  BY <1>1 DEF OwnerCalls, InitWifi, ChangeMode, Deinit, StartSta, StartAp, Register,
              Disconnect
<1>2. CASE DeinitLoop
  <2>1. ev' = ev /\ (ev = "idle" \/ loop' = loop)
    BY <1>2 DEF DeinitLoop
  <2>. QED
    BY <2>1
<1>3. CASE InitCreate
  <2>1. ev' = ev /\ (loop' = loop \/ loop' = TRUE)
    BY <1>3 DEF InitCreate
  <2>. QED
    BY <2>1
<1>4. CASE \/ InitDriver \/ InitDone \/ DeinitDriver \/ DeinitGroup \/ DeinitClear
           \/ StaConfig \/ StaConnect \/ StaResult \/ ApConfig \/ DisconnectUpdate
           \/ DeinitDisconnect
  <2>1. UNCHANGED <<ev, loop>>
    BY <1>4 DEF DeinitDisconnect, InitDriver, InitDone, DeinitDriver, DeinitGroup, DeinitClear, StaConfig,
                StaConnect, StaResult, ApConfig, DisconnectUpdate
  <2>. QED
    BY <2>1
<1>5. ASSUME NEW t \in Scanners, ScannerCalls(t) \/ ScannerContinues(t)
      PROVE  HandlerInLoop'
  BY <1>5 DEF ScannerCalls, ScannerContinues, ScanAllAp, StoreScanResult, ScanStart,
              ScanUnblocked, ScanWait, ScanRead, JsonWait, JsonRead
<1>6. CASE EventTask
  BY <1>6 DEF EventTask, HandleStaStart, HandleStaDisconnected, HandleGotIp, GotIpSetBit,
              HandleScanDone, ScanDoneFlag, HandleStation, CallbackReturns, Dispatch
<1>7. CASE Driver
  BY <1>7 DEF Driver, LinkUp, ConnectFails, LinkLost, ScanFinished, StationJoins,
              StationLeaves, DriverPosts
<1>8. CASE UNCHANGED vars
  BY <1>8 DEF vars
<1>. QED
  BY <1>1, <1>2, <1>3, <1>4, <1>5, <1>6, <1>7, <1>8 DEF Next, OwnerContinues

\* An event or a handler finds the event group deleted only between the deletion
\* of the group and that of the loop.
THEOREM HandlersFindGroup == Spec => []HandlersHaveGroup
<1>1. Init => HandlerInLoop
  BY DEF Init, HandlerInLoop
<1>2. TypeOK /\ Lifecycle /\ HandlerInLoop /\ [Next]_vars => HandlerInLoop'
  BY HandlerInLoopStep
<1>3. Lifecycle /\ HandlerInLoop => HandlersHaveGroup
  BY DEF Lifecycle, HandlerInLoop, HandlersHaveGroup, At
<1>. QED
  BY <1>1, <1>2, <1>3, TypeCorrect, LifecycleCorrect, PTL DEF Spec

\* What tells of a connection: the status (at 0), or an event that will set it.
Claims(i) == IF i = 0 THEN st.sta_connected ELSE queue[i] = "STA_GOT_IP"

\* The loss of the connection that is told of at i waits for the handler.
Announced(i) == \E j \in 1..Len(queue) : j > i /\ queue[j] = "STA_DISCONNECTED"

\* A connection is only told of while the driver runs as a station, and while a
\* retry is left its loss is announced after it, unless its retry was refused.
Tracked(i) ==
  /\ drv.power = "started" /\ drv.mode \in StaModes
  /\ retry_num < RetryCount /\ drv.link = "down" /\ ~drv.refused => Announced(i)

\* Every connection that is told of is tracked, except while a stopped driver is
\* cleared away.
ConnectionTracked ==
  /\ drv.link # "down" => drv.mode \in StaModes
  /\ pc[Owner] \notin Dismantling => \A i \in 0..Len(queue) : Claims(i) => Tracked(i)

\* What a new event at the end of the queue leaves of it.
LEMMA PostedQueue ==
  ASSUME queue \in Seq(EventKinds), NEW kind \in EventKinds, queue' = Posted(kind)
  PROVE  /\ Len(queue) \in Nat /\ Len(queue') = Len(queue) + 1
         /\ \A i \in 1..Len(queue) : queue'[i] = queue[i]
         /\ queue'[Len(queue) + 1] = kind
BY AppendProperties, LenProperties DEF Posted

\* What the dispatch of the first event leaves of it.
LEMMA DispatchedQueue ==
  ASSUME queue \in Seq(EventKinds), NEW kind, Dispatch(kind)
  PROVE  /\ Len(queue) \in Nat \ {0} /\ Len(queue') = Len(queue) - 1
         /\ queue[1] = kind
         /\ \A i \in 1..Len(queue') : queue'[i] = queue[i + 1]
BY HeadTailProperties, EmptySeq, LenProperties DEF Dispatch

\* A step that posts nothing, handles nothing and touches neither the station nor
\* what the status says of it keeps ConnectionTracked.
LEMMA NothingOfConnection ==
  ASSUME ConnectionTracked, UNCHANGED <<queue, retry_num>>,
         drv'.power = drv.power, drv'.mode = drv.mode, drv'.link = drv.link,
         drv'.refused = drv.refused, st'.sta_connected => st.sta_connected,
         pc'[Owner] \notin Dismantling => pc[Owner] \notin Dismantling
  PROVE  ConnectionTracked'
BY DEF ConnectionTracked, Claims, Tracked, Announced

\* A posted event other than STA_GOT_IP, with a link that does not change or whose
\* loss it announces, keeps ConnectionTracked.
LEMMA PostingKeepsTrack ==
  ASSUME TypeOK, ConnectionTracked, NEW kind \in EventKinds \ {"STA_GOT_IP"},
         queue' = Posted(kind), UNCHANGED <<retry_num, st>>,
         drv'.power = drv.power, drv'.mode = drv.mode, drv'.refused = drv.refused,
         drv'.link = drv.link \/ (drv'.link = "down" /\ kind = "STA_DISCONNECTED"),
         pc'[Owner] \notin Dismantling => pc[Owner] \notin Dismantling
  PROVE  ConnectionTracked'
<1>. DEFINE n == Len(queue)
<1>1. queue \in Seq(EventKinds)
  BY DEF TypeOK
<1>2. /\ n \in Nat /\ Len(queue') = n + 1 /\ queue'[n + 1] = kind
      /\ \A i \in 1..n : queue'[i] = queue[i]
  BY <1>1, PostedQueue
<1>3. SUFFICES ASSUME NEW i \in 0..Len(queue'), Claims(i)', pc[Owner] \notin Dismantling
               PROVE  Tracked(i)'
  BY DEF ConnectionTracked
<1>4. i \in 0..n /\ Claims(i)
  BY <1>2, <1>3 DEF Claims
<1>5. Tracked(i)
  BY <1>3, <1>4 DEF ConnectionTracked
<1>6. Announced(i) \/ kind = "STA_DISCONNECTED" => Announced(i)'
  BY <1>2, <1>4 DEF Announced
<1>. QED
  BY <1>5, <1>6 DEF Tracked

\* A handled event that neither connects nor disconnects keeps ConnectionTracked.
LEMMA OtherEventKeepsTrack ==
  ASSUME TypeOK, ConnectionTracked,
         NEW kind \in EventKinds \ {"STA_GOT_IP", "STA_DISCONNECTED"}, Dispatch(kind),
         UNCHANGED <<drv, retry_num, pc, st>>
  PROVE  ConnectionTracked'
<1>1. queue \in Seq(EventKinds)
  BY DEF TypeOK
<1>2. /\ Len(queue) \in Nat \ {0} /\ Len(queue') = Len(queue) - 1 /\ queue[1] = kind
      /\ \A i \in 1..Len(queue') : queue'[i] = queue[i + 1]
  BY <1>1, DispatchedQueue
<1>3. SUFFICES ASSUME NEW i \in 0..Len(queue'), Claims(i)', pc[Owner] \notin Dismantling
               PROVE  Tracked(i)'
  BY DEF ConnectionTracked
<1>4. PICK k \in {i, i + 1} : k \in 0..Len(queue) /\ Claims(k) /\ (i = 0 => k = 0)
                              /\ (i > 0 => k = i + 1)
  <2>1. CASE i = 0
    BY <1>2, <1>3, <2>1 DEF Claims
  <2>2. CASE i > 0
    BY <1>2, <1>3, <2>2 DEF Claims
  <2>. QED
    BY <1>2, <2>1, <2>2
<1>5. Tracked(k)
  BY <1>3, <1>4 DEF ConnectionTracked
<1>6. ASSUME Announced(k) PROVE Announced(i)'
  <2>1. PICK j \in 1..Len(queue) : j > k /\ queue[j] = "STA_DISCONNECTED"
    BY <1>6 DEF Announced
  <2>2. j - 1 \in 1..Len(queue') /\ j - 1 > i /\ queue'[j - 1] = "STA_DISCONNECTED"
    BY <1>2, <1>4, <2>1
  <2>. QED
    BY <2>2 DEF Announced
<1>. QED
  BY <1>5, <1>6 DEF Tracked

\* A station that is told to connect is tracked whatever is told of it.
LEMMA ConnectingIsTracked ==
  ASSUME drv'.link = "connecting", drv'.power = "started", drv'.mode \in StaModes
  PROVE  ConnectionTracked'
BY DEF ConnectionTracked, Tracked

\* Where nothing tells of a connection there is nothing to track.
LEMMA NoClaimsToTrack ==
  ASSUME drv'.link = "down", ~st'.sta_connected,
         \A i \in 1..Len(queue') : queue'[i] # "STA_GOT_IP"
  PROVE  ConnectionTracked'
BY DEF ConnectionTracked, Claims

\* The lost connection is tried again, unless the driver refuses, is not a
\* station any more or no retry is left.
LEMMA LossIsHandled ==
  ASSUME TypeOK, Lifecycle, ConnectionTracked, HandleStaDisconnected
  PROVE  ConnectionTracked'
<1>1. queue \in Seq(EventKinds) /\ drv \in Drivers /\ RetryCount \in Nat
      /\ retry_num \in 0..RetryCount /\ UNCHANGED <<st, pc>>
  BY ConstantsAssumption DEF TypeOK, HandleStaDisconnected, appVars, callVars
<1>2. /\ Len(queue) \in Nat \ {0} /\ Len(queue') = Len(queue) - 1
      /\ \A i \in 1..Len(queue') : queue'[i] = queue[i + 1]
  BY <1>1, DispatchedQueue DEF HandleStaDisconnected
<1>3. ASSUME NEW i \in 0..Len(queue'), Claims(i)', pc[Owner] \notin Dismantling
      PROVE  drv.power = "started" /\ drv.mode \in StaModes
  <2>1. \E k \in 0..Len(queue) : Claims(k)
    <3>1. CASE i = 0
      BY <1>1, <1>2, <1>3, <3>1 DEF Claims
    <3>2. CASE i > 0
      <4>1. i + 1 \in 0..Len(queue) /\ i + 1 # 0 /\ queue[i + 1] = "STA_GOT_IP"
        BY <1>2, <1>3, <3>2 DEF Claims
      <4>. QED
        BY <4>1 DEF Claims
    <3>. QED
      BY <1>2, <3>1, <3>2
  <2>. QED
    BY <1>3, <2>1 DEF ConnectionTracked, Tracked
<1>4. CASE RetriesLeft
  <2>1. Reconnect
    BY <1>4 DEF HandleStaDisconnected
  <2>2. CASE CanConnect
    <3>1. CASE Connects
      BY <1>1, <2>2, <3>1, ConnectingIsTracked DEF Connects, CanConnect, Drivers
    <3>2. CASE drv' = [drv EXCEPT !.refused = TRUE]
      <4>1. drv'.refused /\ drv'.power = "started" /\ drv'.mode \in StaModes
        BY <1>1, <2>2, <3>2 DEF CanConnect, Drivers
      <4>. QED
        BY <4>1 DEF ConnectionTracked, Tracked
    <3>. QED
      BY <2>1, <2>2, <3>1, <3>2 DEF Reconnect
  <2>3. CASE ~CanConnect
    <3>1. drv' = drv
      BY <2>1, <2>3 DEF Reconnect
    <3>2. (\E i \in 0..Len(queue') : Claims(i)') /\ pc[Owner] \notin Dismantling
          => drv.link # "down"
      BY <1>3, <2>3 DEF CanConnect
    <3>. QED
      BY <1>1, <1>3, <3>1, <3>2 DEF ConnectionTracked, Tracked
  <2>. QED
    BY <2>2, <2>3
<1>5. CASE ~RetriesLeft
  <2>1. drv' = drv /\ ~(retry_num' < RetryCount)
    BY <1>1, <1>5 DEF HandleStaDisconnected, RetriesLeft
  <2>. QED
    BY <1>1, <1>3, <2>1 DEF ConnectionTracked, Tracked
<1>. QED
  BY <1>4, <1>5

\* The status now tells of the connection that the event told of.
LEMMA GotIpIsTracked ==
  ASSUME TypeOK, ConnectionTracked, HandleGotIp
  PROVE  ConnectionTracked'
<1>1. queue \in Seq(EventKinds) /\ UNCHANGED <<drv, retry_num, pc>>
  BY DEF TypeOK, HandleGotIp, callVars
<1>2. /\ Len(queue) \in Nat \ {0} /\ Len(queue') = Len(queue) - 1
      /\ queue[1] = "STA_GOT_IP"
      /\ \A i \in 1..Len(queue') : queue'[i] = queue[i + 1]
  BY <1>1, DispatchedQueue DEF HandleGotIp
<1>3. SUFFICES ASSUME NEW i \in 0..Len(queue'), Claims(i)', pc[Owner] \notin Dismantling
               PROVE  Tracked(i)'
  BY <1>1 DEF ConnectionTracked
<1>4. i + 1 \in 0..Len(queue) /\ Claims(i + 1)
  BY <1>2, <1>3 DEF Claims
<1>5. Tracked(i + 1)
  BY <1>3, <1>4 DEF ConnectionTracked
<1>6. ASSUME Announced(i + 1) PROVE Announced(i)'
  <2>1. PICK j \in 1..Len(queue) : j > i + 1 /\ queue[j] = "STA_DISCONNECTED"
    BY <1>6 DEF Announced
  <2>2. j - 1 \in 1..Len(queue') /\ j - 1 > i /\ queue'[j - 1] = "STA_DISCONNECTED"
    BY <1>2, <2>1
  <2>. QED
    BY <2>2 DEF Announced
<1>. QED
  BY <1>1, <1>5, <1>6 DEF Tracked

\* A link that comes up is told of by its event.
LEMMA LinkUpIsTracked ==
  ASSUME TypeOK, Lifecycle, ConnectionTracked, LinkUp
  PROVE  ConnectionTracked'
<1>1. /\ queue \in Seq(EventKinds) /\ queue' = Posted("STA_GOT_IP")
      /\ drv \in Drivers /\ drv' = [drv EXCEPT !.link = "up"] /\ drv.link = "connecting"
      /\ UNCHANGED <<st, pc, retry_num>>
  BY DEF TypeOK, LinkUp, DriverPosts, appVars, evVars, callVars
<1>2. drv'.link = "up" /\ drv'.power = "started" /\ drv'.mode \in StaModes
  BY <1>1 DEF Lifecycle, ConnectionTracked, Drivers
<1>. QED
  BY <1>2 DEF ConnectionTracked, Tracked

\* Every step keeps ConnectionTracked.
LEMMA ConnectionTrackedStep ==
  TypeOK /\ Lifecycle /\ ConnectionTracked /\ [Next]_vars => ConnectionTracked'
<1> SUFFICES ASSUME TypeOK, Lifecycle, ConnectionTracked, [Next]_vars
             PROVE  ConnectionTracked'
  OBVIOUS
<1> StepsOK /\ drv \in Drivers /\ st \in Statuses /\ queue \in Seq(EventKinds)
  BY DEF TypeOK
<1> USE DEF Drivers, Statuses, appVars, backends, evVars, callVars
<1>1. CASE OwnerCalls
  <2>1. CASE Disconnect
    <3>1. UNCHANGED <<st, retry_num>> /\ (pc'[Owner] \notin Dismantling => pc[Owner] \notin Dismantling)
          /\ drv'.power = drv.power /\ drv'.mode = drv.mode /\ drv'.refused = drv.refused
      BY <2>1 DEF Disconnect, At, Dismantling
    <3>2. CASE queue' = Posted("STA_DISCONNECTED") /\ drv'.link = "down"
      BY <3>1, <3>2, PostingKeepsTrack DEF EventKinds
    <3>3. CASE ~(queue' = Posted("STA_DISCONNECTED") /\ drv'.link = "down")
      <4>1. queue' = queue /\ drv'.link = drv.link
        BY <2>1, <3>3 DEF Disconnect
      <4>. QED
        BY <3>1, <4>1, NothingOfConnection
    <3>. QED
      BY <3>2, <3>3
  <2>2. CASE ~Disconnect
    <3>1. UNCHANGED <<st, retry_num, drv, queue>> /\ pc[Owner] \notin Dismantling
      BY <1>1, <2>2 DEF OwnerCalls, InitWifi, ChangeMode, Deinit, StartSta, StartAp,
                  Register, At, Dismantling
    <3>. QED
      BY <3>1, NothingOfConnection
  <2>. QED
    BY <2>1, <2>2
<1>2. CASE OwnerContinues
  <2>1. CASE InitCreate
    <3>1. UNCHANGED <<queue, retry_num, drv>> /\ pc[Owner] \notin Dismantling
          /\ st'.sta_connected = st.sta_connected
      BY <2>1 DEF InitCreate, At, Dismantling
    <3>. QED
      BY <3>1, NothingOfConnection
  <2>2. CASE InitDriver
    <3>1. pc[Owner] = "init_driver" /\ queue = <<>> /\ drv.power # "started"
          /\ drv.link = "down" /\ UNCHANGED st
      BY <2>2 DEF InitDriver, Lifecycle, At, Dismantling
    <3>2. ~st'.sta_connected
      <4>1. Claims(0) => drv.power = "started"
        BY <3>1, LenProperties DEF ConnectionTracked, Tracked, Dismantling
      <4>. QED
        BY <3>1, <4>1 DEF Claims
    <3>3. drv'.link = "down"
      <4>1. CASE \E p : drv' = [drv EXCEPT !.power = p]
        BY <3>1, <4>1
      <4>2. CASE drv' = [DriverOff EXCEPT !.power = "started", !.mode = call.mode]
        BY <4>2 DEF DriverOff
      <4>3. \/ \E p : drv' = [drv EXCEPT !.power = p]
            \/ drv' = [DriverOff EXCEPT !.power = "started", !.mode = call.mode]
        BY <2>2 DEF InitDriver
      <4>. QED
        BY <4>1, <4>2, <4>3
    <3>4. queue' = queue \/ queue' = Posted("STA_START")
      BY <2>2 DEF InitDriver
    <3>5. \A i \in 1..Len(queue') : queue'[i] # "STA_GOT_IP"
      <4>1. CASE queue' = queue
        BY <3>1, <4>1
      <4>2. CASE queue' = Posted("STA_START")
        <5>1. Len(queue') = Len(queue) + 1 /\ queue'[Len(queue) + 1] = "STA_START"
          BY <4>2, PostedQueue DEF EventKinds
        <5>2. Len(queue) = 0
          BY <3>1
        <5>. QED
          BY <5>1, <5>2
      <4>. QED
        BY <3>4, <4>1, <4>2
    <3>. QED
      BY <3>2, <3>3, <3>5, NoClaimsToTrack
  <2>7. CASE DeinitDisconnect
    <3>1. /\ UNCHANGED <<st, retry_num>> /\ pc[Owner] \notin Dismantling
          /\ drv'.power = drv.power /\ drv'.mode = drv.mode /\ drv'.refused = drv.refused
      BY <2>7 DEF DeinitDisconnect, At, Dismantling
    <3>2. \/ queue' = Posted("STA_DISCONNECTED") /\ drv'.link = "down"
          \/ queue' = queue /\ drv' = drv
      BY <2>7 DEF DeinitDisconnect
    <3>. QED
      BY <3>1, <3>2, PostingKeepsTrack, NothingOfConnection DEF EventKinds
  <2>3. CASE DeinitDriver \/ DeinitGroup \/ DeinitLoop
    <3>1. pc'[Owner] \in Dismantling
      BY <2>3, OwnerGoes DEF DeinitDriver, DeinitGroup, DeinitLoop, Continue, Dismantling
    <3>2. drv' = drv \/ drv'.link = "down"
      BY <2>3 DEF DeinitDriver, DeinitGroup, DeinitLoop, DriverOff
    <3>. QED
      BY <3>1, <3>2 DEF ConnectionTracked
  <2>4. CASE DeinitClear
    <3>1. ~st'.sta_connected /\ drv' = drv /\ queue' = queue
      BY <2>4 DEF DeinitClear, ClearedStatus
    <3>2. queue = <<>> /\ drv.link = "down"
      BY <2>4 DEF DeinitClear, Lifecycle, At, Dismantling
    <3>3. \A i \in 1..Len(queue') : queue'[i] # "STA_GOT_IP"
      BY <3>1, <3>2
    <3>. QED
      BY <3>1, <3>2, <3>3, NoClaimsToTrack
  <2>5. CASE StaConnect
    <3>1. CASE CanConnect /\ Connects
      BY <3>1, ConnectingIsTracked DEF CanConnect, Connects
    <3>2. CASE UNCHANGED drv
      <4>1. UNCHANGED <<queue, retry_num, drv, st>> /\ pc[Owner] \notin Dismantling
        BY <2>5, <3>2 DEF StaConnect, At, Dismantling
      <4>. QED
        BY <4>1, NothingOfConnection
    <3>. QED
      BY <2>5, <3>1, <3>2 DEF StaConnect
  <2>6. CASE InitDone \/ StaConfig \/ StaResult \/ ApConfig \/ DisconnectUpdate
    <3>1. UNCHANGED <<queue, retry_num, drv>> /\ pc[Owner] \notin Dismantling
      BY <2>6 DEF InitDone, StaConfig, StaResult, ApConfig, DisconnectUpdate, At, Dismantling
    <3>2. st'.sta_connected => st.sta_connected
      BY <2>6 DEF InitDone, StaConfig, StaResult, ApConfig, DisconnectUpdate
    <3>. QED
      BY <3>1, <3>2, NothingOfConnection
  <2>. QED
    BY <1>2, <2>1, <2>2, <2>3, <2>4, <2>5, <2>6, <2>7 DEF OwnerContinues
<1>3. ASSUME NEW t \in Scanners, ScannerCalls(t) \/ ScannerContinues(t)
      PROVE  ConnectionTracked'
  <2>1. pc'[Owner] = pc[Owner]
    BY <1>3, OwnerStays DEF ScannerCalls, ScannerContinues, ScanAllAp, StoreScanResult,
              ScanStart, ScanUnblocked, ScanWait, ScanRead, JsonWait, JsonRead, ScanFails
  <2>2. /\ UNCHANGED <<st, queue, retry_num>>
        /\ drv'.power = drv.power /\ drv'.mode = drv.mode /\ drv'.link = drv.link
        /\ drv'.refused = drv.refused
    BY <1>3 DEF ScannerCalls, ScannerContinues, ScanAllAp, StoreScanResult, ScanStart,
              ScanUnblocked, ScanWait, ScanRead, JsonWait, JsonRead
  <2>. QED
    BY <2>1, <2>2, NothingOfConnection
<1>4. CASE EventTask
  <2>1. CASE HandleStaStart \/ HandleScanDone \/ HandleStation
    <3>1. UNCHANGED <<drv, retry_num, pc, st>>
      BY <2>1 DEF HandleStaStart, HandleScanDone, HandleStation
    <3>2. \E kind \in EventKinds \ {"STA_GOT_IP", "STA_DISCONNECTED"} : Dispatch(kind)
      BY <2>1 DEF HandleStaStart, HandleScanDone, HandleStation, EventKinds
    <3>. QED
      BY <3>1, <3>2, OtherEventKeepsTrack
  <2>2. CASE GotIpSetBit \/ ScanDoneFlag \/ CallbackReturns
    <3>1. /\ UNCHANGED <<queue, drv, retry_num, pc>>
          /\ st'.sta_connected = st.sta_connected
      BY <2>2 DEF GotIpSetBit, ScanDoneFlag, CallbackReturns
    <3>. QED
      BY <3>1, NothingOfConnection
  <2>. QED
    BY <1>4, <2>1, <2>2, LossIsHandled, GotIpIsTracked DEF EventTask
<1>5. CASE Driver
  <2>1. CASE ConnectFails \/ LinkLost
    <3>1. /\ queue' = Posted("STA_DISCONNECTED") /\ UNCHANGED <<retry_num, st, pc>>
          /\ drv'.power = drv.power /\ drv'.mode = drv.mode /\ drv'.link = "down"
          /\ drv'.refused = drv.refused
      BY <2>1 DEF ConnectFails, LinkLost, DriverPosts
    <3>. QED
      BY <3>1, PostingKeepsTrack DEF EventKinds
  <2>2. CASE ScanFinished \/ StationJoins \/ StationLeaves
    <3>1. /\ \E kind \in EventKinds \ {"STA_GOT_IP"} : queue' = Posted(kind)
          /\ UNCHANGED <<retry_num, st, pc>>
          /\ drv'.power = drv.power /\ drv'.mode = drv.mode /\ drv'.link = drv.link
          /\ drv'.refused = drv.refused
      BY <2>2 DEF ScanFinished, StationJoins, StationLeaves, DriverPosts, EventKinds
    <3>. QED
      BY <3>1, PostingKeepsTrack
  <2>. QED
    BY <1>5, <2>1, <2>2, LinkUpIsTracked DEF Driver
<1>6. CASE UNCHANGED vars
  BY <1>6, NothingOfConnection DEF vars
<1>. QED
  BY <1>1, <1>2, <1>3, <1>4, <1>5, <1>6 DEF Next

\* While a retry is left and none was refused, sta_connected is true only of a
\* station that is connected or connecting.
THEOREM TruthfulWithRetries == Spec => []TruthfulWhileRetrying
<1>1. Init => ConnectionTracked
  BY DEF Init, ConnectionTracked, DriverOff, ClearedStatus, Claims
<1>2. TypeOK /\ Lifecycle /\ ConnectionTracked /\ [Next]_vars => ConnectionTracked'
  BY ConnectionTrackedStep
<1>3. ConnectionTracked => TruthfulWhileRetrying
  <2> SUFFICES ASSUME ConnectionTracked, retry_num < RetryCount, ~drv.refused,
                      st.sta_connected, queue = <<>>, At(Owner, "idle")
               PROVE  drv.link # "down"
    BY DEF TruthfulWhileRetrying, StaConnectedTruthful
  <2>1. Len(queue) = 0 /\ Claims(0) /\ ~Announced(0)
    BY DEF Claims, Announced
  <2>2. Tracked(0)
    BY <2>1 DEF ConnectionTracked, At, Dismantling
  <2>. QED
    BY <2>1, <2>2 DEF Tracked
<1>. QED
  BY <1>1, <1>2, <1>3, TypeCorrect, LifecycleCorrect, PTL DEF Spec

\* Until a loss has been tried again, a link that is up is shown by the status or
\* by an event that waits, and a wifi_c_disconnect under way has it down.
ConnectionShown ==
  retry_num = 0 =>
    /\ drv.link = "up" =>
         st.sta_connected \/ \E i \in 1..Len(queue) : queue[i] = "STA_GOT_IP"
    /\ At(Owner, "disc_update") => drv.link = "down"

\* A step that brings no link up, takes no event and lets the status go keeps
\* ConnectionShown, unless it enters wifi_c_disconnect.
LEMMA NothingHidden ==
  ASSUME TypeOK, ConnectionShown, retry_num' = retry_num, drv'.link \in {drv.link, "down"},
         st.sta_connected => st'.sta_connected,
         queue' = queue \/ \E kind \in EventKinds : queue' = Posted(kind),
         At(Owner, "disc_update")' => At(Owner, "disc_update") \/ drv'.link = "down"
  PROVE  ConnectionShown'
<1>1. queue \in Seq(EventKinds)
  BY DEF TypeOK
<1>2. ASSUME \E i \in 1..Len(queue) : queue[i] = "STA_GOT_IP"
      PROVE  \E i \in 1..Len(queue') : queue'[i] = "STA_GOT_IP"
  <2>1. CASE queue' = queue
    BY <1>2, <2>1
  <2>2. ASSUME NEW kind \in EventKinds, queue' = Posted(kind)
        PROVE  \E i \in 1..Len(queue') : queue'[i] = "STA_GOT_IP"
    BY <1>1, <1>2, <2>2, PostedQueue
  <2>. QED
    BY <2>1, <2>2
<1>. QED
  BY <1>2 DEF ConnectionShown

\* Where no link is up nothing has to be shown.
LEMMA DownNeedsNoShow ==
  ASSUME drv'.link = "down" \/ (drv'.link = "connecting" /\ ~At(Owner, "disc_update")')
  PROVE  ConnectionShown'
BY DEF ConnectionShown

\* Every step keeps ConnectionShown.
LEMMA ConnectionShownStep ==
  TypeOK /\ Lifecycle /\ ConnectionShown /\ [Next]_vars => ConnectionShown'
<1> SUFFICES ASSUME TypeOK, Lifecycle, ConnectionShown, [Next]_vars
             PROVE  ConnectionShown'
  OBVIOUS
<1> StepsOK /\ drv \in Drivers /\ st \in Statuses /\ queue \in Seq(EventKinds)
    /\ retry_num \in Nat
  BY ConstantsAssumption DEF TypeOK
<1> USE DEF Drivers, Statuses, appVars, backends, evVars, callVars
<1>1. CASE OwnerCalls
  <2>1. CASE Disconnect
    <3>1. CASE drv'.link = "down"
      BY <3>1, DownNeedsNoShow
    <3>2. CASE drv'.link # "down"
      <4>1. UNCHANGED <<st, queue, drv, retry_num>> /\ pc'[Owner] = "idle"
        BY <2>1, <3>2, OwnerGoes DEF Disconnect, Return
      <4>. QED
        BY <4>1, NothingHidden DEF At
    <3>. QED
      BY <3>1, <3>2
  <2>2. CASE ~Disconnect
    <3>1. UNCHANGED <<st, retry_num, drv, queue>>
      BY <1>1, <2>2 DEF OwnerCalls, InitWifi, ChangeMode, Deinit, StartSta, StartAp, Register
    <3>2. pc'[Owner] # "disc_update"
      BY <1>1, <2>2, OwnerGoes DEF OwnerCalls, InitWifi, ChangeMode, Deinit, StartSta,
          StartAp, Register, Enter, Return, At
    <3>. QED
      BY <3>1, <3>2, NothingHidden DEF At
  <2>. QED
    BY <2>1, <2>2
<1>2. CASE OwnerContinues
  <2>1. CASE InitDriver \/ DeinitDriver \/ DeinitClear
    <3>1. drv'.link = "down"
      <4>1. CASE InitDriver
        <5>1. drv.link = "down"
          BY <4>1 DEF InitDriver, Lifecycle, At, Dismantling
        <5>2. CASE \E p : drv' = [drv EXCEPT !.power = p]
          BY <5>1, <5>2
        <5>3. CASE drv' = [DriverOff EXCEPT !.power = "started", !.mode = call.mode]
          BY <5>3 DEF DriverOff
        <5>4. \/ \E p : drv' = [drv EXCEPT !.power = p]
              \/ drv' = [DriverOff EXCEPT !.power = "started", !.mode = call.mode]
          BY <4>1 DEF InitDriver
        <5>. QED
          BY <5>2, <5>3, <5>4
      <4>2. CASE DeinitDriver
        BY <4>2 DEF DeinitDriver, DriverOff, Lifecycle, At, Dismantling
      <4>3. CASE DeinitClear
        BY <4>3 DEF DeinitClear, Lifecycle, At, Dismantling
      <4>. QED
        BY <2>1, <4>1, <4>2, <4>3
    <3>. QED
      BY <3>1, DownNeedsNoShow
  <2>2. CASE DeinitLoop
    <3>1. drv'.link = "down"
      BY <2>2 DEF DeinitLoop, Lifecycle, At, Dismantling
    <3>. QED
      BY <3>1, DownNeedsNoShow
  <2>6. CASE DeinitDisconnect
    <3>1. \/ drv'.link = "down"
          \/ pc'[Owner] # "disc_update" /\ UNCHANGED <<st, queue, retry_num, drv>>
      BY <2>6, OwnerGoes DEF DeinitDisconnect, Continue
    <3>. QED
      BY <3>1, NothingHidden, DownNeedsNoShow DEF At
  <2>3. CASE StaConnect
    <3>1. pc'[Owner] # "disc_update" /\ UNCHANGED <<st, queue, retry_num>>
      BY <2>3, OwnerGoes DEF StaConnect, Continue, Return
    <3>2. drv'.link = drv.link \/ drv'.link = "connecting"
      BY <2>3 DEF StaConnect, Connects
    <3>. QED
      BY <3>1, <3>2, NothingHidden, DownNeedsNoShow DEF At
  <2>4. CASE DisconnectUpdate
    <3>1. /\ pc[Owner] = "disc_update" /\ pc'[Owner] = "idle"
          /\ UNCHANGED <<drv, queue, retry_num>>
      BY <2>4, OwnerGoes DEF DisconnectUpdate, Return, At
    <3>. QED
      BY <3>1 DEF ConnectionShown, At
  <2>5. CASE InitCreate \/ InitDone \/ DeinitGroup \/ StaConfig \/ StaResult \/ ApConfig
    <3>1. pc'[Owner] # "disc_update"
      BY <2>5, OwnerGoes DEF InitCreate, InitDone, DeinitGroup, StaConfig, StaResult,
          ApConfig, Continue, Return
    <3>2. UNCHANGED <<drv, queue, retry_num>> /\ st'.sta_connected = st.sta_connected
      BY <2>5 DEF InitCreate, InitDone, DeinitGroup, StaConfig, StaResult, ApConfig
    <3>. QED
      BY <3>1, <3>2, NothingHidden DEF At
  <2>. QED
    BY <1>2, <2>1, <2>2, <2>3, <2>4, <2>5, <2>6 DEF OwnerContinues
<1>3. ASSUME NEW t \in Scanners, ScannerCalls(t) \/ ScannerContinues(t)
      PROVE  ConnectionShown'
  <2>1. pc'[Owner] = pc[Owner]
    BY <1>3, OwnerStays DEF ScannerCalls, ScannerContinues, ScanAllAp, StoreScanResult,
              ScanStart, ScanUnblocked, ScanWait, ScanRead, JsonWait, JsonRead, ScanFails
  <2>2. UNCHANGED <<st, queue, retry_num>> /\ drv'.link = drv.link
    BY <1>3 DEF ScannerCalls, ScannerContinues, ScanAllAp, StoreScanResult, ScanStart,
              ScanUnblocked, ScanWait, ScanRead, JsonWait, JsonRead
  <2>. QED
    BY <2>1, <2>2, NothingHidden DEF At
<1>4. CASE EventTask
  <2>1. CASE HandleStaStart \/ HandleScanDone \/ HandleStation
    <3>1. UNCHANGED <<drv, retry_num, pc, st>>
      BY <2>1 DEF HandleStaStart, HandleScanDone, HandleStation
    <3>2. PICK kind \in EventKinds \ {"STA_GOT_IP"} : Dispatch(kind)
      BY <2>1 DEF HandleStaStart, HandleScanDone, HandleStation, EventKinds
    <3>3. ASSUME \E i \in 1..Len(queue) : queue[i] = "STA_GOT_IP"
          PROVE  \E i \in 1..Len(queue') : queue'[i] = "STA_GOT_IP"
      <4>1. PICK i \in 1..Len(queue) : queue[i] = "STA_GOT_IP"
        BY <3>3
      <4>2. i - 1 \in 1..Len(queue') /\ queue'[i - 1] = "STA_GOT_IP"
        BY <3>2, <4>1, DispatchedQueue
      <4>. QED
        BY <4>2
    <3>. QED
      BY <3>1, <3>3 DEF ConnectionShown, At
  <2>2. CASE HandleStaDisconnected
    <3>1. CASE RetriesLeft
      <4>1. retry_num' # 0
        BY <2>2, <3>1 DEF HandleStaDisconnected
      <4>. QED
        BY <4>1 DEF ConnectionShown
    <3>2. CASE ~RetriesLeft
      <4>1. UNCHANGED <<drv, retry_num, pc, st>> /\ Dispatch("STA_DISCONNECTED")
        BY <2>2, <3>2 DEF HandleStaDisconnected
      <4>2. ASSUME \E i \in 1..Len(queue) : queue[i] = "STA_GOT_IP"
            PROVE  \E i \in 1..Len(queue') : queue'[i] = "STA_GOT_IP"
        <5>1. PICK i \in 1..Len(queue) : queue[i] = "STA_GOT_IP"
          BY <4>2
        <5>2. i - 1 \in 1..Len(queue') /\ queue'[i - 1] = "STA_GOT_IP"
          BY <4>1, <5>1, DispatchedQueue
        <5>. QED
          BY <5>2
      <4>. QED
        BY <4>1, <4>2 DEF ConnectionShown, At
    <3>. QED
      BY <3>1, <3>2
  <2>3. CASE HandleGotIp
    <3>1. st'.sta_connected /\ UNCHANGED <<drv, retry_num, pc>>
      BY <2>3 DEF HandleGotIp
    <3>. QED
      BY <3>1 DEF ConnectionShown, At
  <2>4. CASE GotIpSetBit \/ ScanDoneFlag \/ CallbackReturns
    <3>1. UNCHANGED <<queue, drv, retry_num, pc>> /\ st'.sta_connected = st.sta_connected
      BY <2>4 DEF GotIpSetBit, ScanDoneFlag, CallbackReturns
    <3>. QED
      BY <3>1, NothingHidden DEF At
  <2>. QED
    BY <1>4, <2>1, <2>2, <2>3, <2>4 DEF EventTask
<1>5. CASE Driver
  <2>1. CASE LinkUp
    <3>1. /\ queue' = Posted("STA_GOT_IP") /\ drv.link = "connecting"
          /\ UNCHANGED <<pc, retry_num>>
      BY <2>1 DEF LinkUp, DriverPosts
    <3>2. Len(queue) \in Nat /\ Len(queue') = Len(queue) + 1
          /\ queue'[Len(queue) + 1] = "STA_GOT_IP"
      BY <3>1, PostedQueue DEF EventKinds
    <3>. QED
      BY <3>1, <3>2 DEF ConnectionShown, At
  <2>2. CASE ConnectFails \/ LinkLost \/ ScanFinished \/ StationJoins \/ StationLeaves
    <3>1. /\ \E kind \in EventKinds : queue' = Posted(kind)
          /\ UNCHANGED <<retry_num, st, pc>> /\ drv'.link \in {drv.link, "down"}
      BY <2>2 DEF ConnectFails, LinkLost, ScanFinished, StationJoins, StationLeaves,
                  DriverPosts, EventKinds
    <3>. QED
      BY <3>1, NothingHidden DEF At
  <2>. QED
    BY <1>5, <2>1, <2>2 DEF Driver
<1>6. CASE UNCHANGED vars
  BY <1>6, NothingHidden DEF vars, At
<1>. QED
  BY <1>1, <1>2, <1>3, <1>4, <1>5, <1>6 DEF Next

\* Until a loss has been tried again, a station that is up is shown as connected
\* once its event is handled, whatever calls and events come between.
THEOREM ShownBeforeRetries == Spec => []ShownUntilRetried
<1>1. Init => ConnectionShown
  BY DEF Init, ConnectionShown, DriverOff
<1>2. TypeOK /\ Lifecycle /\ ConnectionShown /\ [Next]_vars => ConnectionShown'
  BY ConnectionShownStep
<1>3. ConnectionShown => ShownUntilRetried
  <2> SUFFICES ASSUME ConnectionShown, retry_num = 0, drv.link = "up", queue = <<>>
               PROVE  st.sta_connected
    BY DEF ShownUntilRetried
  <2>1. ~ \E i \in 1..Len(queue) : queue[i] = "STA_GOT_IP"
    OBVIOUS
  <2>. QED
    BY <2>1 DEF ConnectionShown
<1>. QED
  BY <1>1, <1>2, <1>3, TypeCorrect, LifecycleCorrect, PTL DEF Spec

-----------------------------------------------------------------------------
(***************************************************************************)
(* Deinitialization, where initializations succeed                         *)
(***************************************************************************)

\* No initialization was left half-way: the driver is off or started, and the
\* event group is there only with an event loop.
NothingHalfway ==
  /\ drv.power # "inited"
  /\ group.alive => st.even_loop_started /\ pc[Owner] \notin {"deinit_loop", "deinit_clear"}

\* An event group that is left alone stays in step with the loop while neither
\* the Owner nor the status moves.
LEMMA GroupKept ==
  ASSUME NothingHalfway, TypeOK, pc'[Owner] = pc[Owner], group'.alive = group.alive,
         st'.even_loop_started = st.even_loop_started, drv'.power = drv.power
  PROVE  NothingHalfway'
BY DEF NothingHalfway

\* Initializations that succeed leave nothing half-way.
LEMMA NothingHalfwayStep ==
  ~InitMayFail /\ TypeOK /\ Lifecycle /\ NothingHalfway /\ [Next]_vars => NothingHalfway'
<1> SUFFICES ASSUME ~InitMayFail, TypeOK, Lifecycle, NothingHalfway, [Next]_vars
             PROVE  NothingHalfway'
  OBVIOUS
<1> StepsOK /\ st \in Statuses /\ group \in Groups /\ drv \in Drivers
  BY DEF TypeOK
<1> USE DEF Statuses, Groups, Drivers, appVars, backends, evVars, callVars
<1>1. CASE OwnerCalls
  BY <1>1, OwnerGoes DEF OwnerCalls, InitWifi, ChangeMode, Deinit, StartSta, StartAp,
              Register, Disconnect, Enter, Return, At, NothingHalfway
<1>2. CASE OwnerContinues
  <2>1. CASE InitCreate
    BY <2>1, OwnerGoes DEF InitCreate, Return, Continue, Lifecycle, NothingHalfway, At
  <2>2. CASE InitDriver
    BY <2>2, OwnerGoes DEF InitDriver, Continue, DriverOff, NothingHalfway, At
  <2>8. CASE DeinitDisconnect
    BY <2>8, OwnerGoes DEF DeinitDisconnect, Continue, NothingHalfway, At
  <2>3. CASE DeinitDriver
    BY <2>3, OwnerGoes DEF DeinitDriver, Continue, DriverOff, NothingHalfway, At
  <2>4. CASE DeinitGroup \/ DeinitLoop
    BY <2>4, OwnerGoes DEF DeinitGroup, DeinitLoop, Continue, NothingHalfway, At
  <2>5. CASE DeinitClear
    BY <2>5, OwnerGoes DEF DeinitClear, Return, Continue, NothingHalfway, At
  <2>6. CASE StaConnect
    BY <2>6, OwnerGoes DEF StaConnect, Return, Continue, CanConnect, Connects,
                NothingHalfway, At
  <2>7. CASE InitDone \/ StaConfig \/ StaResult \/ ApConfig \/ DisconnectUpdate
    BY <2>7, OwnerGoes DEF InitDone, StaConfig, StaResult, ApConfig, DisconnectUpdate,
                Return, Continue, NothingHalfway, At
  <2>. QED
    BY <1>2, <2>1, <2>2, <2>3, <2>4, <2>5, <2>6, <2>7, <2>8 DEF OwnerContinues
<1>3. ASSUME NEW t \in Scanners, ScannerCalls(t) \/ ScannerContinues(t)
      PROVE  NothingHalfway'
  <2>1. pc'[Owner] = pc[Owner]
    BY <1>3, OwnerStays DEF ScannerCalls, ScannerContinues, ScanAllAp, StoreScanResult,
              ScanStart, ScanUnblocked, ScanWait, ScanRead, JsonWait, JsonRead, ScanFails
  <2>2. group'.alive = group.alive /\ UNCHANGED st /\ drv'.power = drv.power
    BY <1>3 DEF ScannerCalls, ScannerContinues, ScanAllAp, StoreScanResult, ScanStart,
              CanScan, ScanUnblocked, ScanWait, ScanRead, JsonWait, JsonRead
  <2>. QED
    BY <2>1, <2>2, GroupKept
<1>4. CASE EventTask
  <2>1. group'.alive = group.alive /\ st'.even_loop_started = st.even_loop_started
        /\ drv'.power = drv.power /\ UNCHANGED pc
    BY <1>4 DEF EventTask, HandleStaStart, HandleStaDisconnected, Reconnect, CanConnect,
              Connects, HandleGotIp, GotIpSetBit, HandleScanDone, ScanDoneFlag, HandleStation,
              CallbackReturns, WithBit
  <2>. QED
    BY <2>1, GroupKept
<1>5. CASE Driver
  <2>1. UNCHANGED <<group, st, pc>> /\ drv'.power = drv.power
    BY <1>5 DEF Driver, LinkUp, ConnectFails, LinkLost, ScanFinished, StationJoins,
              StationLeaves, DriverPosts
  <2>. QED
    BY <2>1, GroupKept
<1>6. CASE UNCHANGED vars
  BY <1>6, GroupKept DEF vars
<1>. QED
  BY <1>1, <1>2, <1>3, <1>4, <1>5, <1>6 DEF Next

\* Where initializations succeed, wifi_c_deinit leaves neither driver nor event
\* group, event loop or netif, whatever was called before and is handled meanwhile.
THEOREM DeinitFreesEverything ==
  ASSUME ~InitMayFail PROVE Spec => DeinitFreesAll
<1>1. Init => NothingHalfway
  BY DEF Init, NothingHalfway, DriverOff
<1>2. TypeOK /\ Lifecycle /\ NothingHalfway /\ [Next]_vars => NothingHalfway'
  BY NothingHalfwayStep
<1>3. TypeOK /\ Lifecycle /\ NothingHalfway /\ [Next]_vars
      => [At(Owner, "deinit_clear") /\ At(Owner, "idle")'
          => drv.power = "off" /\ ~group.alive /\ ~loop /\ netifs = {}]_vars
  <2> SUFFICES ASSUME TypeOK, Lifecycle, NothingHalfway, At(Owner, "deinit_clear")
               PROVE  drv.power = "off" /\ ~group.alive /\ ~loop /\ netifs = {}
    OBVIOUS
  <2>1. ~loop /\ drv.power # "started" /\ netifs = {}
    BY DEF Lifecycle, NetifsMatchMode, Dismantling, At
  <2>2. drv.power \in {"off", "inited", "started"}
    BY DEF TypeOK, Drivers
  <2>. QED
    BY <2>1, <2>2 DEF NothingHalfway, At
<1>. QED
  BY <1>1, <1>2, <1>3, TypeCorrect, LifecycleCorrect, PTL DEF Spec, DeinitFreesAll
=============================================================================
