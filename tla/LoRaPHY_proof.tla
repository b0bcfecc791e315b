--------------------------- MODULE LoRaPHY_proof ----------------------------
(***************************************************************************)
(* Proofs about the PHY.  The types hold for every instance.  The safety   *)
(* of its cycles is proved for the clients of this repository (Callers),   *)
(* which request uplinks, transmissions without windows and, between two   *)
(* passes, receptions without an uplink: for every delay, window and set   *)
(* of parameters, for handlers that run between any two statements, for a  *)
(* main thread of any speed and a radio that may lose anything.            *)
(***************************************************************************)
EXTENDS LoRaPHY, TLAPS

\* The clients of this repository.  One that asks for a reception without an
\* uplink does so between two passes: from a handler, its request could come
\* while the flags of an earlier one are being stored, and undo them.
Callers ==
  /\ Requests \subseteq {"FSM", "TX", "RX"}
  /\ "RX" \in Requests => ClientPoints \subseteq {"main"}

CycleEvents ==
  RequestFlags \union {"TX_Done", "RX_Delay_End", "RX_Detect", "RX_Fail"}

\* An uplink whose windows will open; a reception that follows none.
Uplink == Has("TX_Req") /\ ~Has("TX_Only_Req")
RxOnly == Has("RX_Only_Req") /\ eventFlag \cap UplinkRequests = {}

DelaysOff == delay1Timer = Off /\ delay2Timer = Off
Ends(s) == pc = "commit" /\ nextState = s

\* What holds at every statement.
Common ==
  /\ "RX" \notin Requests => ~Has("RX_Only_Req")
  /\ RxOnly => currentStatus = "PHYs_Rx"
  /\ eventFlag \subseteq CycleEvents /\ loaded \subseteq CycleEvents
  /\ presentState \in PHYStates /\ nextState \in PHYStates
  /\ pc \in {"run", "main"} => nextState = presentState
  /\ presentState \in {"PHY_RX_WAIT", "PHY_RX_RUN"} /\ ~Ends("PHY_IDLE") =>
       Uplink \/ RxOnly
  /\ pc = "store" => loaded \cap RequestFlags = eventFlag \cap RequestFlags
  /\ signal # "none" => link = "rx"
  /\ wdTimer # Off => link = "tx"

\* Idle, or starting the transmission or the reception.
InIdle ==
  /\ pc \in {"run", "main", "txConfig", "txGo", "load", "store", "commit"}
  /\ rxNum = 0 /\ DelaysOff /\ windowTimer = Off
  /\ nextState \in {"PHY_IDLE", "PHY_TX_RUN", "PHY_RX_WAIT"}
  /\ pc \in {"txConfig", "txGo"} => nextState = "PHY_TX_RUN"
  /\ pc \in {"load", "store"} => nextState = "PHY_RX_WAIT"
  /\ nextState = "PHY_TX_RUN" => eventFlag \cap UplinkRequests # {}
  /\ nextState = "PHY_RX_WAIT" => RxOnly
  /\ pc = "store" => loaded \subseteq RequestFlags \union {"RX_Delay_End"}
  /\ CASE Ends("PHY_TX_RUN") ->
            /\ eventFlag \subseteq RequestFlags \union {"TX_Done"}
            /\ link \in {"idle", "tx"} /\ (Has("TX_Done") => link = "idle")
       [] Ends("PHY_RX_WAIT") ->
            eventFlag \subseteq RequestFlags \union {"RX_Delay_End"} /\ link = "idle"
       [] OTHER -> eventFlag \subseteq RequestFlags /\ link = "idle"

\* Transmitting: the delays start with the last statement.
InTx ==
  /\ pc \in {"run", "main", "txEnd", "attachDelays", "commit"}
  /\ rxNum = 0 /\ windowTimer = Off
  /\ nextState \in {"PHY_TX_RUN", "PHY_RX_WAIT", "PHY_IDLE"}
  /\ link \in {"idle", "tx"} /\ (Has("TX_Done") => link = "idle")
  /\ nextState # "PHY_TX_RUN" => link = "idle"
  /\ pc = "attachDelays" => nextState = "PHY_RX_WAIT"
  /\ pc = "txEnd" => nextState = "PHY_IDLE" /\ Has("TX_Only_Req")
  /\ nextState = "PHY_RX_WAIT" => Uplink
  /\ IF Ends("PHY_IDLE") THEN eventFlag = {}
     ELSE eventFlag \cap UplinkRequests # {}
  /\ eventFlag \subseteq RequestFlags \union {"TX_Done", "RX_Delay_End"}
  /\ ~Ends("PHY_RX_WAIT") => DelaysOff /\ ~Has("RX_Delay_End")

\* Waiting for a delay, or opening the window.
InWait ==
  /\ pc \in {"run", "main", "open", "rxConfig", "rxGo", "load", "store", "commit"}
  /\ nextState \in {"PHY_RX_WAIT", "PHY_RX_RUN"}
  /\ pc \in {"open", "rxConfig", "rxGo"} => nextState = "PHY_RX_WAIT"
  /\ pc \in {"load", "store"} => nextState = "PHY_RX_RUN"
  /\ link \in {"idle", "rx"} /\ (nextState = "PHY_RX_WAIT" => link = "idle")
  /\ ~Opening => windowTimer = Off
  /\ IF RxOnly THEN rxNum = 0 /\ DelaysOff
     ELSE IF Opening THEN rxNum \in {1, 2} ELSE rxNum \in {0, 1}

\* A window, or closing it.
InRx ==
  /\ pc \in {"run", "main", "detect", "detSleep", "deliver", "failSleep",
             "failed", "load", "store", "finish", "commit"}
  /\ nextState \in {"PHY_RX_RUN", "PHY_RX_WAIT", "PHY_IDLE"}
  /\ pc \in {"detect", "detSleep", "deliver", "failSleep", "failed", "finish"} =>
       nextState = "PHY_IDLE"
  /\ pc \in {"load", "store"} => nextState = "PHY_RX_WAIT"
  /\ link \in {"idle", "rx"}
  /\ pc \in {"deliver", "failed", "load", "store", "finish"}
       \/ Ends("PHY_RX_WAIT") \/ Ends("PHY_IDLE") => link = "idle"
  /\ CASE pc \in {"detSleep", "deliver", "finish"} \/ Ends("PHY_IDLE") ->
            rxNum = 0 /\ DelaysOff /\ windowTimer = Off
       [] pc \in {"load", "store"} \/ Ends("PHY_RX_WAIT") ->
            rxNum = 1 /\ windowTimer = Off /\ Uplink
       [] OTHER -> IF RxOnly THEN rxNum = 0 /\ DelaysOff ELSE rxNum \in {1, 2}
  /\ Ends("PHY_IDLE") => eventFlag = {}

\* The inductive invariant.
CycleInv ==
  /\ TypeOK /\ Common
  /\ presentState = "PHY_IDLE" => InIdle
  /\ presentState = "PHY_TX_RUN" => InTx
  /\ presentState = "PHY_RX_WAIT" => InWait
  /\ presentState = "PHY_RX_RUN" => InRx
-----------------------------------------------------------------------------
(***************************************************************************)
(* The types, in groups the provers can take one at a time.                *)
(***************************************************************************)
FlagsOK == rxErr \in BOOLEAN /\ repeatFlag \in BOOLEAN /\ ulPayload \in BOOLEAN
ControlOK ==
  /\ presentState \in PHYStates \union {Unknown}
  /\ nextState \in PHYStates \union {Unknown}
  /\ pc \in Labels
EventsOK ==
  /\ eventFlag \subseteq PHYEvents /\ loaded \subseteq PHYEvents
  /\ currentStatus \in {"PHYs_default", "PHYs_Tx", "PHYs_Rx"}
CountersOK ==
  /\ rxNum \in 0..255
  /\ delay1Timer \in -1..RxDelay1 /\ delay2Timer \in -1..RxDelay1 + 1
  /\ windowTimer \in Int /\ windowTimer >= Off /\ wdTimer \in -1..TxTimeout
DataOK ==
  /\ ul \in Params /\ dl \in Params /\ slot \in Params
  /\ cfg \in Params /\ txCfg \in Params
  /\ dlPayload \in {"NULL", "stale", "fresh"}
  /\ link \in {"idle", "tx", "rx"} /\ signal \in {"none", "preamble", "frame"}

\* The PHY starts with its types.
LEMMA InitTypes == Init => TypeOK
<1>1. Init => FlagsOK
  BY Zenon DEF Init, FlagsOK
<1> QED
  BY <1>1, ParametersAssumption DEF Init, FlagsOK, TypeOK, Labels, PHYStates,
     PHYEvents, UplinkRequests, RequestFlags, Unknown, Off, RxMax

\* Every statement, handler, client call and second keeps the types.
LEMMA TypeStep == TypeOK /\ [Next]_vars => TypeOK'
<1> SUFFICES ASSUME TypeOK, [Next]_vars PROVE TypeOK'
  OBVIOUS
<1> USE ParametersAssumption
<1> USE DEF TypeOK, ControlOK, EventsOK, CountersOK, DataOK, Labels,
        PHYStates, PHYEvents, UplinkRequests, RequestFlags, Unknown, Off,
        RxMax, phyVars, clientVars, threadVars, delayVars, timerVars,
        radioVars, At, Has, GoTo, GoOn, Interruptible
<1>1. CASE Run
  <2> USE <1>1 DEF Run, RunIdle, RunTx, RunRxWait, RunRx, Stay
  <2>1. FlagsOK'
    BY Zenon DEF FlagsOK
  <2>2. CASE presentState = "PHY_TX_RUN"
    BY <2>1, <2>2 DEF FlagsOK
  <2>3. CASE presentState = "PHY_RX_WAIT"
    BY <2>1, <2>3 DEF FlagsOK
  <2>4. CASE presentState = "PHY_RX_RUN"
    BY <2>1, <2>4 DEF FlagsOK
  <2>5. CASE presentState \notin {"PHY_TX_RUN", "PHY_RX_WAIT", "PHY_RX_RUN"}
    BY <2>1, <2>5 DEF FlagsOK
  <2> QED
    BY <2>2, <2>3, <2>4, <2>5
<1>2. CASE TxConfig
  BY <1>2 DEF TxConfig, ConfigureRadio
<1>3. CASE TxGo
  <2> USE <1>3 DEF TxGo, HAL_cmd_transmit
  <2>1. FlagsOK'
    BY Zenon DEF FlagsOK
  <2> QED
    BY <2>1 DEF FlagsOK
<1>4. CASE TxEnd
  BY <1>4 DEF TxEnd
<1>5. CASE AttachDelays
  BY <1>5 DEF AttachDelays
<1>6. CASE Open
  <2> USE <1>6 DEF Open
  <2>1. FlagsOK'
    BY Zenon DEF FlagsOK
  <2>2. ControlOK'
    OBVIOUS
  <2>3. EventsOK'
    OBVIOUS
  <2>4. CountersOK'
    OBVIOUS
  <2>5. DataOK'
    OBVIOUS
  <2> QED
    BY <2>1, <2>2, <2>3, <2>4, <2>5 DEF FlagsOK
<1>7. CASE RxConfig
  <2> USE <1>7 DEF RxConfig, ConfigureRadio
  <2>1. FlagsOK'
    BY Zenon DEF FlagsOK
  <2>2. ControlOK'
    OBVIOUS
  <2>3. EventsOK'
    OBVIOUS
  <2>4. CountersOK'
    OBVIOUS
  <2>5. DataOK'
    OBVIOUS
  <2> QED
    BY <2>1, <2>2, <2>3, <2>4, <2>5 DEF FlagsOK
<1>8. CASE RxGo
  BY <1>8 DEF RxGo, HAL_cmd_receive, HAL_isRfActive
<1>9. CASE Detect
  <2> USE <1>9 DEF Detect
  <2>1. FlagsOK'
    BY Zenon DEF FlagsOK
  <2> QED
    BY <2>1 DEF FlagsOK
<1>10. CASE DetSleep
  BY <1>10 DEF DetSleep, HAL_cmd_Sleep
<1>11. CASE Deliver
  BY <1>11 DEF Deliver
<1>12. CASE FailSleep
  BY <1>12 DEF FailSleep, HAL_cmd_Sleep
<1>13. CASE Failed
  <2> USE <1>13 DEF Failed
  <2>1. FlagsOK'
    BY Zenon DEF FlagsOK
  <2>2. ControlOK'
    OBVIOUS
  <2>3. EventsOK'
    OBVIOUS
  <2>4. CountersOK'
    OBVIOUS
  <2>5. DataOK'
    OBVIOUS
  <2> QED
    BY <2>1, <2>2, <2>3, <2>4, <2>5 DEF FlagsOK
<1>14. CASE Finish
  BY <1>14 DEF Finish
<1>15. CASE Load
  BY <1>15 DEF Load
<1>16. CASE Store
  BY <1>16 DEF Store
<1>17. CASE Commit
  BY <1>17 DEF Commit
<1>18. CASE MainLoop
  BY <1>18 DEF MainLoop
<1>19. CASE RxDelay1End
  BY <1>19 DEF RxDelay1End, PHYEvent_setEventFlag
<1>20. CASE RxDelay2End
  BY <1>20 DEF RxDelay2End, PHYEvent_setEventFlag
<1>21. CASE ExpireWindow
  <2> USE <1>21 DEF ExpireWindow, PHYEvent_setEventFlag
  <2>1. FlagsOK'
    BY Zenon DEF FlagsOK
  <2>2. ControlOK'
    OBVIOUS
  <2>3. EventsOK'
    OBVIOUS
  <2>4. CountersOK'
    OBVIOUS
  <2>5. DataOK'
    OBVIOUS
  <2> QED
    BY <2>1, <2>2, <2>3, <2>4, <2>5 DEF FlagsOK
<1>22. CASE HalTxTimeout
  BY <1>22 DEF HalTxTimeout
<1>23. CASE HalTxDone
  BY <1>23 DEF HalTxDone, PHYEvent_setEventFlag
<1>24. CASE HalRxDone
  BY <1>24 DEF HalRxDone, PHYEvent_setEventFlag
<1>25. CASE HalRxCrcError
  BY <1>25 DEF HalRxCrcError, PHYEvent_setEventFlag
<1>26. CASE Preamble
  BY <1>26 DEF Preamble
<1>27. CASE Frame
  BY <1>27 DEF Frame
<1>28. CASE FalsePreamble
  BY <1>28 DEF FalsePreamble
<1>29. CASE Client
  <2> USE <1>29 DEF Client, PHY_indicateEvent, PHYEvent_setEventFlag,
        RequestFlag, StatusOf, PHY_configUlPayload, PHY_setRxSlot,
        RequestNames
  <2>1. FlagsOK'
    BY Zenon DEF FlagsOK
  <2> QED
    BY <2>1 DEF FlagsOK
<1>30. CASE Tick
  BY <1>30 DEF Tick, MayTick, TickTimers, Count
<1>31. CASE UNCHANGED vars
  BY <1>31 DEF vars
<1> QED
  BY <1>1, <1>2, <1>3, <1>4, <1>5, <1>6, <1>7, <1>8, <1>9, <1>10, <1>11,
     <1>12, <1>13, <1>14, <1>15, <1>16, <1>17, <1>18, <1>19, <1>20, <1>21,
     <1>22, <1>23, <1>24, <1>25, <1>26, <1>27, <1>28, <1>29, <1>30, <1>31
     DEF Next, PHYStep, PHY_FSM_run, TimerInterrupt, FrameEnd, Air

\* The types hold in every behaviour of every instance.
THEOREM TypeCorrect == Spec => []TypeOK
  BY InitTypes, TypeStep, PTL DEF Spec
-----------------------------------------------------------------------------
(***************************************************************************)
(* The uplink cycle.                                                       *)
(***************************************************************************)
\* The PHY starts idle.
LEMMA InitCycle == Init => CycleInv
  BY InitTypes DEF Init, CycleInv, TypeOK, Common, InIdle, InTx, InWait, InRx,
     CycleEvents, Uplink, RxOnly, DelaysOff, Ends, Opening, Labels, PHYStates, PHYEvents,
     UplinkRequests, RequestFlags, Unknown, Off, RxMax, Has

\* Every step keeps the invariant of the cycle.
LEMMA CycleStep ==
  ASSUME Callers, CycleInv, [Next]_vars
  PROVE  CycleInv'
<1>a. TypeOK'
  BY TypeStep DEF CycleInv
<1> USE <1>a
<1> USE DEF Callers, CycleInv, TypeOK, Common, InIdle, InTx, InWait, InRx, CycleEvents,
        Uplink, RxOnly,
        DelaysOff, Ends, Opening, Labels, PHYStates, PHYEvents,
        UplinkRequests, RequestFlags, Unknown, Off, RxMax, phyVars,
        clientVars, threadVars, delayVars, timerVars, radioVars, At, Has,
        GoTo, GoOn, Interruptible
<1>1. CASE Run
  BY <1>1 DEF Run, RunIdle, RunTx, RunRxWait, RunRx, Stay
<1>2. CASE TxConfig
  BY <1>2 DEF TxConfig, ConfigureRadio
<1>3. CASE TxGo
  BY <1>3 DEF TxGo, HAL_cmd_transmit
<1>4. CASE TxEnd
  BY <1>4 DEF TxEnd
<1>5. CASE AttachDelays
  BY <1>5 DEF AttachDelays
<1>6. CASE Open
  BY <1>6 DEF Open
<1>7. CASE RxConfig
  BY <1>7 DEF RxConfig, ConfigureRadio
<1>8. CASE RxGo
  BY <1>8 DEF RxGo, HAL_cmd_receive, HAL_isRfActive
<1>9. CASE Detect
  BY <1>9 DEF Detect
<1>10. CASE DetSleep
  BY <1>10 DEF DetSleep, HAL_cmd_Sleep
<1>11. CASE Deliver
  BY <1>11 DEF Deliver
<1>12. CASE FailSleep
  BY <1>12 DEF FailSleep, HAL_cmd_Sleep
<1>13. CASE Failed
  BY <1>13 DEF Failed
<1>14. CASE Finish
  BY <1>14 DEF Finish
<1>15. CASE Load
  BY <1>15 DEF Load
<1>16. CASE Store
  <2> USE <1>16 DEF Store
  <2>1. \A e \in RequestFlags : e \in eventFlag' <=> e \in eventFlag
    OBVIOUS
  <2>2. (Uplink' <=> Uplink) /\ (RxOnly' <=> RxOnly)
    BY <2>1
  <2>3. Common'
    BY <2>1, <2>2
  <2>4. CASE presentState = "PHY_IDLE"
    BY <2>1, <2>2, <2>3, <2>4
  <2>5. CASE presentState = "PHY_RX_WAIT"
    BY <2>1, <2>2, <2>3, <2>5
  <2>6. CASE presentState = "PHY_RX_RUN"
    BY <2>1, <2>2, <2>3, <2>6
  <2> QED
    BY <2>4, <2>5, <2>6
<1>17. CASE Commit
  BY <1>17 DEF Commit
<1>18. CASE MainLoop
  BY <1>18 DEF MainLoop
<1>19. CASE RxDelay1End
  BY <1>19 DEF RxDelay1End, PHYEvent_setEventFlag
<1>20. CASE RxDelay2End
  BY <1>20 DEF RxDelay2End, PHYEvent_setEventFlag
<1>21. CASE ExpireWindow
  BY <1>21 DEF ExpireWindow, PHYEvent_setEventFlag
<1>22. CASE HalTxTimeout
  BY <1>22 DEF HalTxTimeout
<1>23. CASE HalTxDone
  BY <1>23 DEF HalTxDone, PHYEvent_setEventFlag
<1>24. CASE HalRxDone
  BY <1>24 DEF HalRxDone, PHYEvent_setEventFlag
<1>25. CASE HalRxCrcError
  BY <1>25 DEF HalRxCrcError, PHYEvent_setEventFlag
<1>26. CASE Preamble
  BY <1>26 DEF Preamble
<1>27. CASE Frame
  BY <1>27 DEF Frame
<1>28. CASE FalsePreamble
  BY <1>28 DEF FalsePreamble
<1>29. CASE Client
  BY <1>29 DEF Client, PHY_indicateEvent, PHYEvent_setEventFlag, RequestFlag,
     StatusOf, PHY_configUlPayload, PHY_setRxSlot, RequestNames
<1>30. CASE Tick
  BY <1>30 DEF Tick, MayTick, TickTimers, Count
<1>31. CASE UNCHANGED vars
  BY <1>31 DEF vars
<1> QED
  BY <1>1, <1>2, <1>3, <1>4, <1>5, <1>6, <1>7, <1>8, <1>9, <1>10, <1>11,
     <1>12, <1>13, <1>14, <1>15, <1>16, <1>17, <1>18, <1>19, <1>20, <1>21,
     <1>22, <1>23, <1>24, <1>25, <1>26, <1>27, <1>28, <1>29, <1>30, <1>31
     DEF Next, PHYStep, PHY_FSM_run, TimerInterrupt, FrameEnd, Air

\* The invariant of the cycle holds when clients request transmissions only.
THEOREM CycleInvariant ==
  ASSUME Callers
  PROVE  Spec => []CycleInv
<1>1. CycleInv /\ [Next]_vars => CycleInv'
  BY CycleStep
<1> QED
  BY <1>1, InitCycle, PTL DEF Spec

\* No uplink opens a third window, nor is the error branch of FSM_receive_dl
\* reached.
THEOREM WindowsCorrect ==
  ASSUME Callers
  PROVE  Spec => []TwoWindows
<1>1. CycleInv => TwoWindows
  BY DEF TwoWindows, RxMax, At, PHYStates, CycleInv, TypeOK, Common, InIdle,
     InTx, InWait, InRx, CycleEvents, Uplink, RxOnly, DelaysOff, Ends, Opening
<1> QED
  BY <1>1, CycleInvariant, PTL

\* Back in PHY_IDLE nothing of the last cycle is left.
THEOREM IdleCorrect ==
  ASSUME Callers
  PROVE  Spec => []IdleIsClean
<1>1. CycleInv => IdleIsClean
  BY DEF IdleIsClean, RequestFlags, UplinkRequests, CycleInv, TypeOK, Common,
     InIdle, InTx, InWait, InRx, CycleEvents, Uplink, RxOnly, DelaysOff, Ends, Opening
<1> QED
  BY <1>1, CycleInvariant, PTL
-----------------------------------------------------------------------------
(***************************************************************************)
(* Requests are kept to the end of their cycle.                            *)
(***************************************************************************)
Dropped == Has("TX_Req") /\ "TX_Req" \notin eventFlag'
CycleAtEnd ==
  \/ At("finish") /\ presentState = "PHY_RX_RUN"
  \/ At("txEnd") /\ Has("TX_Only_Req")

\* Only the end of a reception, or of a transmission without windows, forgets
\* the request.
LEMMA KeptStep ==
  ASSUME Callers, CycleInv, [Next]_vars, Dropped
  PROVE  CycleAtEnd
<1> USE DEF Dropped, CycleAtEnd, CycleInv, TypeOK, Common, InIdle, InTx,
        InWait, InRx, CycleEvents, Uplink, RxOnly, DelaysOff, Ends, Opening, Labels,
        PHYStates, PHYEvents, UplinkRequests, RequestFlags, Unknown, Off,
        RxMax, phyVars, clientVars, threadVars, delayVars, timerVars,
        radioVars, At, Has, GoTo, GoOn, Interruptible
<1>1. CASE Run
  BY <1>1 DEF Run, RunIdle, RunTx, RunRxWait, RunRx, Stay
<1>2. CASE TxConfig
  BY <1>2 DEF TxConfig, ConfigureRadio
<1>3. CASE TxGo
  BY <1>3 DEF TxGo, HAL_cmd_transmit
<1>4. CASE TxEnd
  BY <1>4 DEF TxEnd
<1>5. CASE AttachDelays
  BY <1>5 DEF AttachDelays
<1>6. CASE Open
  BY <1>6 DEF Open
<1>7. CASE RxConfig
  BY <1>7 DEF RxConfig, ConfigureRadio
<1>8. CASE RxGo
  BY <1>8 DEF RxGo, HAL_cmd_receive, HAL_isRfActive
<1>9. CASE Detect
  BY <1>9 DEF Detect
<1>10. CASE DetSleep
  BY <1>10 DEF DetSleep, HAL_cmd_Sleep
<1>11. CASE Deliver
  BY <1>11 DEF Deliver
<1>12. CASE FailSleep
  BY <1>12 DEF FailSleep, HAL_cmd_Sleep
<1>13. CASE Failed
  BY <1>13 DEF Failed
<1>14. CASE Finish
  BY <1>14 DEF Finish
<1>15. CASE Load
  BY <1>15 DEF Load
<1>16. CASE Store
  BY <1>16 DEF Store
<1>17. CASE Commit
  BY <1>17 DEF Commit
<1>18. CASE MainLoop
  BY <1>18 DEF MainLoop
<1>19. CASE RxDelay1End
  BY <1>19 DEF RxDelay1End, PHYEvent_setEventFlag
<1>20. CASE RxDelay2End
  BY <1>20 DEF RxDelay2End, PHYEvent_setEventFlag
<1>21. CASE ExpireWindow
  BY <1>21 DEF ExpireWindow, PHYEvent_setEventFlag
<1>22. CASE HalTxTimeout
  BY <1>22 DEF HalTxTimeout
<1>23. CASE HalTxDone
  BY <1>23 DEF HalTxDone, PHYEvent_setEventFlag
<1>24. CASE HalRxDone
  BY <1>24 DEF HalRxDone, PHYEvent_setEventFlag
<1>25. CASE HalRxCrcError
  BY <1>25 DEF HalRxCrcError, PHYEvent_setEventFlag
<1>26. CASE Preamble
  BY <1>26 DEF Preamble
<1>27. CASE Frame
  BY <1>27 DEF Frame
<1>28. CASE FalsePreamble
  BY <1>28 DEF FalsePreamble
<1>29. CASE Client
  <2>a. "CLEAR" \notin Requests
    BY DEF Callers
  <2>1. eventFlag \subseteq eventFlag'
    BY <1>29, <2>a DEF Client, PHY_indicateEvent, PHYEvent_setEventFlag
  <2> QED
    BY <2>1
<1>30. CASE Tick
  BY <1>30 DEF Tick, MayTick, TickTimers, Count
<1>31. CASE UNCHANGED vars
  BY <1>31 DEF vars
<1> QED
  BY <1>1, <1>2, <1>3, <1>4, <1>5, <1>6, <1>7, <1>8, <1>9, <1>10, <1>11,
     <1>12, <1>13, <1>14, <1>15, <1>16, <1>17, <1>18, <1>19, <1>20, <1>21,
     <1>22, <1>23, <1>24, <1>25, <1>26, <1>27, <1>28, <1>29, <1>30, <1>31
     DEF Next, PHYStep, PHY_FSM_run, TimerInterrupt, FrameEnd, Air

\* A request that was taken is dropped only at the end of its own cycle.
THEOREM KeptCorrect ==
  ASSUME Callers
  PROVE  Spec => RequestKept
<1>1. CycleInv /\ [Next]_vars => [Dropped => CycleAtEnd]_vars
  BY KeptStep
<1> QED
  BY <1>1, CycleInvariant, PTL DEF Spec, RequestKept, Dropped, CycleAtEnd
-----------------------------------------------------------------------------
(***************************************************************************)
(* The PHY implements ClassA.                                              *)
(***************************************************************************)
\* Every step of the PHY is a step of the abstract cycle, or none at all.
LEMMA ClassAStep ==
  ASSUME Requests \subseteq {"FSM", "TX"}, CycleInv, CycleInv', [Next]_vars
  PROVE  [Cycle!Next]_ClassAPhase
<1> USE DEF ClassAPhase, Opened, Cycle!Next, Cycle!Transmit,
        Cycle!Transmitted, Cycle!TransmitOnly,
        Cycle!TransmittedOnly, Cycle!OpenWindow, Cycle!Windows, Cycle!Find,
        Cycle!HandUp, Cycle!FirstMissed, Cycle!SecondMissed, Cycle!Close,
        CycleInv, TypeOK, Common, InIdle, InTx, InWait, InRx, CycleEvents,
        Uplink, RxOnly,
        DelaysOff, Ends, Opening, Labels, PHYStates, PHYEvents,
        UplinkRequests, RequestFlags, Unknown, Off, RxMax, phyVars,
        clientVars, threadVars, delayVars, timerVars, radioVars, At, Has,
        GoTo, GoOn, Interruptible
<1>1. CASE Run
  BY <1>1 DEF Run, RunIdle, RunTx, RunRxWait, RunRx, Stay
<1>2. CASE TxConfig
  BY <1>2 DEF TxConfig, ConfigureRadio
<1>3. CASE TxGo
  BY <1>3 DEF TxGo, HAL_cmd_transmit
<1>4. CASE TxEnd
  BY <1>4 DEF TxEnd
<1>5. CASE AttachDelays
  BY <1>5 DEF AttachDelays
<1>6. CASE Open
  BY <1>6 DEF Open
<1>7. CASE RxConfig
  BY <1>7 DEF RxConfig, ConfigureRadio
<1>8. CASE RxGo
  BY <1>8 DEF RxGo, HAL_cmd_receive, HAL_isRfActive
<1>9. CASE Detect
  BY <1>9 DEF Detect
<1>10. CASE DetSleep
  BY <1>10 DEF DetSleep, HAL_cmd_Sleep
<1>11. CASE Deliver
  BY <1>11 DEF Deliver
<1>12. CASE FailSleep
  BY <1>12 DEF FailSleep, HAL_cmd_Sleep
<1>13. CASE Failed
  BY <1>13 DEF Failed
<1>14. CASE Finish
  BY <1>14 DEF Finish
<1>15. CASE Load
  BY <1>15 DEF Load
<1>16. CASE Store
  BY <1>16 DEF Store
<1>17. CASE Commit
  BY <1>17 DEF Commit
<1>18. CASE MainLoop
  BY <1>18 DEF MainLoop
<1>19. CASE RxDelay1End
  BY <1>19 DEF RxDelay1End, PHYEvent_setEventFlag
<1>20. CASE RxDelay2End
  BY <1>20 DEF RxDelay2End, PHYEvent_setEventFlag
<1>21. CASE ExpireWindow
  BY <1>21 DEF ExpireWindow, PHYEvent_setEventFlag
<1>22. CASE HalTxTimeout
  BY <1>22 DEF HalTxTimeout
<1>23. CASE HalTxDone
  BY <1>23 DEF HalTxDone, PHYEvent_setEventFlag
<1>24. CASE HalRxDone
  BY <1>24 DEF HalRxDone, PHYEvent_setEventFlag
<1>25. CASE HalRxCrcError
  BY <1>25 DEF HalRxCrcError, PHYEvent_setEventFlag
<1>26. CASE Preamble
  BY <1>26 DEF Preamble
<1>27. CASE Frame
  BY <1>27 DEF Frame
<1>28. CASE FalsePreamble
  BY <1>28 DEF FalsePreamble
<1>29. CASE Client
  BY <1>29 DEF Client, PHY_indicateEvent, PHYEvent_setEventFlag, RequestFlag,
     StatusOf, PHY_configUlPayload, PHY_setRxSlot, RequestNames
<1>30. CASE Tick
  BY <1>30 DEF Tick, MayTick, TickTimers, Count
<1>31. CASE UNCHANGED vars
  BY <1>31 DEF vars
<1> QED
  BY <1>1, <1>2, <1>3, <1>4, <1>5, <1>6, <1>7, <1>8, <1>9, <1>10, <1>11,
     <1>12, <1>13, <1>14, <1>15, <1>16, <1>17, <1>18, <1>19, <1>20, <1>21,
     <1>22, <1>23, <1>24, <1>25, <1>26, <1>27, <1>28, <1>29, <1>30, <1>31
     DEF Next, PHYStep, PHY_FSM_run, TimerInterrupt, FrameEnd, Air

\* An uplink request is served by one transmission, at most two windows one
\* after the other and at most one downlink, at whatever statements the timers
\* and the radio interrupt.
THEOREM ClassACorrect ==
  ASSUME Requests \subseteq {"FSM", "TX"}
  PROVE  Spec => ImplementsClassA
<1>1. Init => Cycle!Init
  BY DEF Init, Cycle!Init, ClassAPhase
<1>2. Callers
  BY DEF Callers
<1>3. CycleInv /\ CycleInv' /\ [Next]_vars => [Cycle!Next]_ClassAPhase
  BY ClassAStep
<1> QED
  BY <1>1, <1>2, <1>3, CycleInvariant, PTL DEF Spec, ImplementsClassA, Cycle!Spec
-----------------------------------------------------------------------------
(***************************************************************************)
(* What is handed up.  A main thread that outruns the frames closes the    *)
(* window after the first one, so that a frame never meets the error, or   *)
(* the downlink, of another.                                               *)
(***************************************************************************)
\* A frame that is coming in meets an open window that has seen none before it.
InvFrame ==
  signal = "frame" =>
    /\ presentState = "PHY_RX_RUN" /\ ~rxErr
    /\ ~Has("RX_Detect") /\ ~Has("RX_Fail")

\* A frame that was received is in the buffer until it is handed up ...
InvDetect ==
  /\ Has("RX_Detect") => presentState = "PHY_RX_RUN" /\ dlPayload = "fresh"
  /\ pc \in {"detect", "detSleep", "deliver"} => Has("RX_Detect")

\* ... and one that was not closes its window.
InvFail ==
  /\ presentState = "PHY_RX_WAIT" /\ Opening => ~rxErr
  /\ presentState = "PHY_RX_RUN" /\ link = "rx" /\ rxErr => Has("RX_Fail")
  /\ pc = "failSleep" => Has("RX_Fail")
  /\ pc \in {"failSleep", "failed", "load", "store"} \/ Ends("PHY_RX_WAIT") =>
       ~Has("RX_Detect")
  /\ "RX_Detect" \notin loaded

FrameInv == InvFrame /\ InvDetect /\ InvFail

\* Every step keeps the frame of the window.
LEMMA FrameStep ==
  ASSUME PromptMain, Callers, FrameInv, CycleInv, [Next]_vars
  PROVE  FrameInv'
<1> USE DEF FrameInv, InvFrame, InvDetect, InvFail, Callers, CycleInv, TypeOK,
        Common, InIdle, InTx, InWait, InRx, CycleEvents, Uplink, RxOnly,
        DelaysOff, Ends, Opening, Labels, PHYStates, PHYEvents,
        UplinkRequests, RequestFlags, Unknown, Off, RxMax, phyVars,
        clientVars, threadVars, delayVars, timerVars, radioVars, At, Has,
        GoTo, GoOn, Interruptible
<1>1. CASE Run
  BY <1>1 DEF Run, RunIdle, RunTx, RunRxWait, RunRx, Stay
<1>2. CASE TxConfig
  BY <1>2 DEF TxConfig, ConfigureRadio
<1>3. CASE TxGo
  BY <1>3 DEF TxGo, HAL_cmd_transmit
<1>4. CASE TxEnd
  BY <1>4 DEF TxEnd
<1>5. CASE AttachDelays
  BY <1>5 DEF AttachDelays
<1>6. CASE Open
  BY <1>6 DEF Open
<1>7. CASE RxConfig
  BY <1>7 DEF RxConfig, ConfigureRadio
<1>8. CASE RxGo
  BY <1>8 DEF RxGo, HAL_cmd_receive, HAL_isRfActive
<1>9. CASE Detect
  BY <1>9 DEF Detect
<1>10. CASE DetSleep
  BY <1>10 DEF DetSleep, HAL_cmd_Sleep
<1>11. CASE Deliver
  BY <1>11 DEF Deliver
<1>12. CASE FailSleep
  BY <1>12 DEF FailSleep, HAL_cmd_Sleep
<1>13. CASE Failed
  BY <1>13 DEF Failed
<1>14. CASE Finish
  BY <1>14 DEF Finish
<1>15. CASE Load
  BY <1>15 DEF Load
<1>16. CASE Store
  BY <1>16 DEF Store
<1>17. CASE Commit
  BY <1>17 DEF Commit
<1>18. CASE MainLoop
  BY <1>18 DEF MainLoop
<1>19. CASE RxDelay1End
  BY <1>19 DEF RxDelay1End, PHYEvent_setEventFlag
<1>20. CASE RxDelay2End
  BY <1>20 DEF RxDelay2End, PHYEvent_setEventFlag
<1>21. CASE ExpireWindow
  BY <1>21 DEF ExpireWindow, PHYEvent_setEventFlag, HAL_isSignalSynchronized
<1>22. CASE HalTxTimeout
  BY <1>22 DEF HalTxTimeout
<1>23. CASE HalTxDone
  BY <1>23 DEF HalTxDone, PHYEvent_setEventFlag
<1>24. CASE HalRxDone
  BY <1>24 DEF HalRxDone, PHYEvent_setEventFlag
<1>25. CASE HalRxCrcError
  BY <1>25 DEF HalRxCrcError, PHYEvent_setEventFlag
<1>26. CASE Preamble
  BY <1>26 DEF Preamble
<1>27. CASE Frame
  BY <1>27 DEF Frame, Prompt, Quiet
<1>28. CASE FalsePreamble
  BY <1>28 DEF FalsePreamble
<1>29. CASE Client
  BY <1>29 DEF Client, PHY_indicateEvent, PHYEvent_setEventFlag, RequestFlag,
     StatusOf, PHY_configUlPayload, PHY_setRxSlot
<1>30. CASE Tick
  BY <1>30 DEF Tick, MayTick, TickTimers, Count
<1>31. CASE UNCHANGED vars
  BY <1>31 DEF vars
<1> QED
  BY <1>1, <1>2, <1>3, <1>4, <1>5, <1>6, <1>7, <1>8, <1>9, <1>10, <1>11,
     <1>12, <1>13, <1>14, <1>15, <1>16, <1>17, <1>18, <1>19, <1>20, <1>21,
     <1>22, <1>23, <1>24, <1>25, <1>26, <1>27, <1>28, <1>29, <1>30, <1>31
     DEF Next, PHYStep, PHY_FSM_run, TimerInterrupt, FrameEnd, Air

\* What is handed up is the frame of this window, for every client of the
\* repository's kinds, every delay and wherever handlers run, when the main
\* thread outruns the frames.
THEOREM DeliveryCorrect ==
  ASSUME Callers, PromptMain
  PROVE  Spec => []DeliversCurrentFrame
<1>1. Init => FrameInv
  BY DEF Init, FrameInv, InvFrame, InvDetect, InvFail, Ends, Has
<1>2. FrameInv /\ CycleInv /\ [Next]_vars => FrameInv'
  BY FrameStep
<1>3. FrameInv => DeliversCurrentFrame
  BY DEF FrameInv, InvDetect, DeliversCurrentFrame, At
<1> QED
  BY <1>1, <1>2, <1>3, CycleInvariant, PTL DEF Spec
-----------------------------------------------------------------------------
(***************************************************************************)
(* Where a transmission that its watchdog ends leaves the PHY.             *)
(***************************************************************************)
\* In PHY_TX_RUN, or about to be, with nothing that could end it.
Hung ==
  /\ pc \in {"run", "main", "commit"} /\ nextState = "PHY_TX_RUN"
  /\ presentState = "PHY_TX_RUN" \/ (presentState = "PHY_IDLE" /\ pc = "commit")
  /\ link = "idle" /\ ~Has("TX_Done")

\* Whatever watchdog goes off hangs the PHY.
LEMMA HangStep ==
  ASSUME CycleInv, HalTxTimeout
  PROVE  Hung'
<1>1. link = "tx" /\ wdTimer = 0
  BY DEF CycleInv, Common, HalTxTimeout, Off
<1> QED
  BY <1>1
     DEF CycleInv, Common, InIdle, InTx, InWait, InRx, Ends, PHYStates, Labels,
         Hung, HalTxTimeout, phyVars, threadVars, Has

\* Nothing the main thread, a handler or a client does sets it going again.
LEMMA HungStep ==
  ASSUME Callers, Hung, CycleInv, [Next]_vars
  PROVE  Hung'
<1> USE DEF Hung, Callers, CycleInv, Common, InIdle, InTx, CycleEvents, Ends, DelaysOff,
        UplinkRequests, RequestFlags, Off, phyVars, clientVars, threadVars,
        delayVars, timerVars, radioVars, At, Has, GoTo, GoOn
<1>1. CASE Run
  BY <1>1 DEF Run, RunTx, Stay
<1>2. CASE \/ TxConfig \/ TxGo \/ TxEnd \/ AttachDelays \/ Open \/ RxConfig \/ RxGo
           \/ Detect \/ DetSleep \/ Deliver \/ FailSleep \/ Failed \/ Finish
           \/ Load \/ Store
  BY <1>2 DEF TxConfig, TxGo, TxEnd, AttachDelays, Open, RxConfig, RxGo, Detect,
     DetSleep, Deliver, FailSleep, Failed, Finish, Load, Store
<1>3. CASE Commit \/ MainLoop
  BY <1>3 DEF Commit, MainLoop
<1>4. CASE TimerInterrupt
  BY <1>4 DEF TimerInterrupt, RxDelay1End, RxDelay2End, ExpireWindow, HalTxTimeout,
     PHYEvent_setEventFlag
<1>5. CASE HalTxDone \/ FrameEnd
  BY <1>5 DEF HalTxDone, FrameEnd, HalRxDone, HalRxCrcError, PHYEvent_setEventFlag
<1>6. CASE Air
  BY <1>6 DEF Air, Preamble, Frame, FalsePreamble
<1>7. CASE Client
  BY <1>7 DEF Client, PHY_indicateEvent, PHYEvent_setEventFlag, RequestFlag
<1>8. CASE Tick \/ UNCHANGED vars
  BY <1>8 DEF Tick, vars
<1> QED
  BY <1>1, <1>2, <1>3, <1>4, <1>5, <1>6, <1>7, <1>8 DEF Next, PHYStep, PHY_FSM_run

\* Whenever the watchdog ends a transmission the PHY stays in PHY_TX_RUN for
\* ever: HAL_swTimeout gives no confirmation, and no request, handler or later
\* event takes its place.
THEOREM TimeoutHangs ==
  ASSUME Callers
  PROVE  Spec => [][HalTxTimeout => Hung']_vars /\ [](Hung => []Hung)
<1>1. CycleInv /\ Hung /\ [Next]_vars => Hung'
  BY HungStep
<1>2. CycleInv /\ [Next]_vars => [HalTxTimeout => Hung']_vars
  BY HangStep
<1> QED
  BY <1>1, <1>2, CycleInvariant, PTL DEF Spec
=============================================================================
