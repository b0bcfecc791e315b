--------------------------- MODULE RelayPHY_proof ----------------------------
(***************************************************************************)
(* Proofs about the relay and the PHY together: what the PHY keeps it      *)
(* keeps under the relay, the relay transmits nothing but what it relays,  *)
(* its cycles never overlap, it waits only for what the PHY is about to    *)
(* give it, and it implements RelayCycle.                                  *)
(***************************************************************************)
EXTENDS RelayMAC_proof
-----------------------------------------------------------------------------
(***************************************************************************)
(* The PHY under the relay.                                                *)
(***************************************************************************)
LEMMA RelayCalls == Callers
  BY RelayAssumption DEF Callers

\* The invariant of the PHY's cycle holds under the relay.
THEOREM RelayCycleInvariant == RelaySpec => []CycleInv
  BY RelayRefinesPHY, RelayCalls, CycleInvariant, PTL

\* No uplink the relay forwards opens a third window ...
THEOREM RelayWindows == RelaySpec => []TwoWindows
  BY RelayRefinesPHY, RelayCalls, WindowsCorrect, PTL

\* ... the PHY is clean whenever a monitoring, a wait or a reply has ended ...
THEOREM RelayClean == RelaySpec => []IdleIsClean
  BY RelayRefinesPHY, RelayCalls, IdleCorrect, PTL

\* ... and no request of the relay is dropped before the end of its cycle.
THEOREM RelayKept == RelaySpec => RequestKept
  BY RelayRefinesPHY, RelayCalls, KeptCorrect, PTL

\* What the relay is handed is the frame of this window.
THEOREM RelayDelivery ==
  ASSUME PromptMain
  PROVE  RelaySpec => []DeliversCurrentFrame
  BY RelayRefinesPHY, RelayCalls, DeliveryCorrect, PTL
-----------------------------------------------------------------------------
(***************************************************************************)
(* What the relay transmits.  The invariant holds wherever an unassigned   *)
(* nextRState leads: it follows a request from the statement that makes it *)
(* through the pass of the PHY that transmits.                             *)
(***************************************************************************)
Forwarding ==
  \/ rpc \in {"forget", "commit"} /\ nextRState = "RMAC_RELAY"
  \/ rpc = "phy" /\ pc # "main" /\ presentRState = "RMAC_RELAY"

Replying ==
  \/ rpc = "commit" /\ nextRState = "RMAC_IDLE"
  \/ rpc = "phy" /\ pc # "main" /\ presentRState = "RMAC_IDLE"

TxInv ==
  /\ rpc # "phy" => pc = "main"
  /\ pc = "txGo" => cfg = ul
  /\ presentState = "PHY_IDLE" /\ Has("TX_Req") =>
       Forwarding /\ pktStat = "01" /\ ul = RelayParams /\ ~Has("TX_Only_Req")
  /\ presentState = "PHY_IDLE" /\ Has("TX_Only_Req") =>
       Replying /\ pktStat = "11" /\ ul = MonitorParams /\ ~Has("TX_Req")
  /\ presentState = "PHY_IDLE" /\ Ends("PHY_IDLE") =>
       eventFlag \cap UplinkRequests = {}
  /\ rpc = "forward" => nextRState = "RMAC_RELAY"
  /\ rpc = "reply" => nextRState = "RMAC_IDLE"

\* Every step of the relay keeps the invariant of what it transmits.
LEMMA TxInvStep ==
  ASSUME TxInv, CycleInv, [RelayNext]_allVars
  PROVE  TxInv'
<1> USE RelayCalls
<1> USE DEF TxInv, Forwarding, Replying, Callers, CycleInv, TypeOK, Common, InIdle,
        InTx, InWait, InRx, CycleEvents, Uplink, RxOnly, DelaysOff, Ends,
        Opening, Labels, PHYStates, PHYEvents, UplinkRequests, RequestFlags,
        Unknown, Off, RxMax, phyVars, clientVars, threadVars, delayVars,
        timerVars, radioVars, At, Has, GoTo, GoOn, Interruptible, MacAt, MacGo,
        Unassigned, macVars, macTimers, PHYOwn
<1>1. CASE Run /\ Indications /\ Untouched
  BY <1>1 DEF Run, RunIdle, RunTx, RunRxWait, RunRx, Stay,
     Untouched, Indications, PHYRxDoneInterrupt, PHYRxFailInterrupt
<1>2. CASE TxConfig /\ Indications /\ Untouched
  BY <1>2 DEF TxConfig, ConfigureRadio,
     Untouched, Indications, PHYRxDoneInterrupt, PHYRxFailInterrupt
<1>3. CASE TxGo /\ Indications /\ Untouched
  BY <1>3 DEF TxGo, HAL_cmd_transmit,
     Untouched, Indications, PHYRxDoneInterrupt, PHYRxFailInterrupt
<1>4. CASE TxEnd /\ Indications /\ Untouched
  BY <1>4 DEF TxEnd,
     Untouched, Indications, PHYRxDoneInterrupt, PHYRxFailInterrupt
<1>5. CASE AttachDelays /\ Indications /\ Untouched
  BY <1>5 DEF AttachDelays,
     Untouched, Indications, PHYRxDoneInterrupt, PHYRxFailInterrupt
<1>6. CASE Open /\ Indications /\ Untouched
  BY <1>6 DEF Open,
     Untouched, Indications, PHYRxDoneInterrupt, PHYRxFailInterrupt
<1>7. CASE RxConfig /\ Indications /\ Untouched
  BY <1>7 DEF RxConfig, ConfigureRadio,
     Untouched, Indications, PHYRxDoneInterrupt, PHYRxFailInterrupt
<1>8. CASE RxGo /\ Indications /\ Untouched
  BY <1>8 DEF RxGo, HAL_cmd_receive, HAL_isRfActive,
     Untouched, Indications, PHYRxDoneInterrupt, PHYRxFailInterrupt
<1>9. CASE Detect /\ Indications /\ Untouched
  BY <1>9 DEF Detect,
     Untouched, Indications, PHYRxDoneInterrupt, PHYRxFailInterrupt
<1>10. CASE DetSleep /\ Indications /\ Untouched
  BY <1>10 DEF DetSleep, HAL_cmd_Sleep,
     Untouched, Indications, PHYRxDoneInterrupt, PHYRxFailInterrupt
<1>11. CASE Deliver /\ Indications /\ Untouched
  BY <1>11 DEF Deliver,
     Untouched, Indications, PHYRxDoneInterrupt, PHYRxFailInterrupt
<1>12. CASE FailSleep /\ Indications /\ Untouched
  BY <1>12 DEF FailSleep, HAL_cmd_Sleep,
     Untouched, Indications, PHYRxDoneInterrupt, PHYRxFailInterrupt
<1>13. CASE Failed /\ Indications /\ Untouched
  BY <1>13 DEF Failed,
     Untouched, Indications, PHYRxDoneInterrupt, PHYRxFailInterrupt
<1>14. CASE Finish /\ Indications /\ Untouched
  BY <1>14 DEF Finish,
     Untouched, Indications, PHYRxDoneInterrupt, PHYRxFailInterrupt
<1>15. CASE Load /\ Indications /\ Untouched
  BY <1>15 DEF Load,
     Untouched, Indications, PHYRxDoneInterrupt, PHYRxFailInterrupt
<1>16. CASE Store /\ Indications /\ Untouched
  BY <1>16 DEF Store,
     Untouched, Indications, PHYRxDoneInterrupt, PHYRxFailInterrupt
<1>17. CASE Commit /\ Indications /\ Untouched
  BY <1>17 DEF Commit,
     Untouched, Indications, PHYRxDoneInterrupt, PHYRxFailInterrupt
<1>18. CASE RxDelay1End /\ Indications /\ Untouched
  BY <1>18 DEF RxDelay1End, PHYEvent_setEventFlag,
     Untouched, Indications, PHYRxDoneInterrupt, PHYRxFailInterrupt
<1>19. CASE RxDelay2End /\ Indications /\ Untouched
  BY <1>19 DEF RxDelay2End, PHYEvent_setEventFlag,
     Untouched, Indications, PHYRxDoneInterrupt, PHYRxFailInterrupt
<1>20. CASE ExpireWindow /\ Indications /\ Untouched
  BY <1>20 DEF ExpireWindow, PHYEvent_setEventFlag,
     Untouched, Indications, PHYRxDoneInterrupt, PHYRxFailInterrupt
<1>21. CASE HalTxTimeout /\ Indications /\ Untouched
  BY <1>21 DEF HalTxTimeout,
     Untouched, Indications, PHYRxDoneInterrupt, PHYRxFailInterrupt
<1>22. CASE HalTxDone /\ Indications /\ Untouched
  BY <1>22 DEF HalTxDone, PHYEvent_setEventFlag,
     Untouched, Indications, PHYRxDoneInterrupt, PHYRxFailInterrupt
<1>23. CASE HalRxDone /\ Indications /\ Untouched
  BY <1>23 DEF HalRxDone, PHYEvent_setEventFlag,
     Untouched, Indications, PHYRxDoneInterrupt, PHYRxFailInterrupt
<1>24. CASE HalRxCrcError /\ Indications /\ Untouched
  BY <1>24 DEF HalRxCrcError, PHYEvent_setEventFlag,
     Untouched, Indications, PHYRxDoneInterrupt, PHYRxFailInterrupt
<1>25. CASE Preamble /\ Indications /\ Untouched
  BY <1>25 DEF Preamble,
     Untouched, Indications, PHYRxDoneInterrupt, PHYRxFailInterrupt
<1>26. CASE Frame /\ Indications /\ Untouched
  BY <1>26 DEF Frame,
     Untouched, Indications, PHYRxDoneInterrupt, PHYRxFailInterrupt
<1>27. CASE FalsePreamble /\ Indications /\ Untouched
  BY <1>27 DEF FalsePreamble,
     Untouched, Indications, PHYRxDoneInterrupt, PHYRxFailInterrupt
<1>28. CASE RelayCheck
  BY <1>28 DEF RelayCheck, vars
<1>29. CASE Test
  BY <1>29 DEF Test, TestIdle, TestMonitor, TestRelay, TestClear, vars
<1>30. CASE Prepare
  BY <1>30 DEF Prepare, PHY_setRxSlot
<1>31. CASE ListenRx
  BY <1>31 DEF ListenRx, PHY_indicateEvent, PHYEvent_setEventFlag, RequestFlag, StatusOf
<1>32. CASE ForwardUl
  BY <1>32 DEF ForwardUl, PHY_indicateEvent, PHYEvent_setEventFlag, RequestFlag,
     StatusOf, PHY_configUlPayload
<1>33. CASE PassReply
  BY <1>33 DEF PassReply, PHY_indicateEvent, PHYEvent_setEventFlag, RequestFlag,
     StatusOf, PHY_configUlPayload
<1>34. CASE Forget
  BY <1>34 DEF Forget, vars
<1>35. CASE MacCommit
  BY <1>35 DEF MacCommit, MainLoop
<1>36. CASE HandleMonitor
  BY <1>36 DEF HandleMonitor, vars
<1>37. CASE DelayEnd
  BY <1>37 DEF DelayEnd, vars
<1>38. CASE RelayTick
  BY <1>38 DEF RelayTick, TickTimers, MayTick, Count
<1>39. CASE UNCHANGED allVars
  BY <1>39 DEF allVars, relayVars, vars
<1> QED
  BY <1>1, <1>2, <1>3, <1>4, <1>5, <1>6, <1>7, <1>8, <1>9, <1>10, <1>11,
     <1>12, <1>13, <1>14, <1>15, <1>16, <1>17, <1>18, <1>19, <1>20, <1>21,
     <1>22, <1>23, <1>24, <1>25, <1>26, <1>27, <1>28, <1>29, <1>30, <1>31,
     <1>32, <1>33, <1>34, <1>35, <1>36, <1>37, <1>38, <1>39
     DEF RelayNext, MainThread, RMAC_FSM_run, Handlers, PHYPass, PHYStep, Untouched,
         PHY_FSM_run, TimerInterrupt, FrameEnd, Air

\* The relay starts with nothing asked.
LEMMA TxInvInit == RelayInit => TxInv
  BY DEF RelayInit, Init, TxInv, Ends, Has, UplinkRequests

\* A transmission begins with what the relay has asked for last.
LEMMA TransmitStep ==
  ASSUME TxInv, CycleInv, [RelayNext]_allVars, link # "tx", link' = "tx"
  PROVE  \/ presentRState = "RMAC_RELAY" /\ pktStat = "01" /\ cfg = RelayParams
         \/ presentRState = "RMAC_IDLE" /\ pktStat = "11" /\ cfg = MonitorParams
<1>1. TxGo /\ rpc = "phy"
  <2>1. [Next]_vars
    BY RelayStep
  <2>2. ~(\/ Run \/ TxConfig \/ TxEnd \/ AttachDelays \/ Open \/ RxConfig \/ Detect
          \/ Deliver \/ Failed \/ Finish \/ Load \/ Store \/ Commit \/ MainLoop
          \/ RxDelay1End \/ RxDelay2End \/ ExpireWindow \/ HalRxDone
          \/ HalRxCrcError \/ Air \/ Client \/ Tick \/ UNCHANGED vars)
    BY DEF Run, TxConfig, TxEnd, AttachDelays, Open, RxConfig, Detect, Deliver,
       Failed, Finish, Load, Store, Commit, MainLoop, RxDelay1End, RxDelay2End,
       ExpireWindow, HalRxDone, HalRxCrcError, Air, Preamble, Frame,
       FalsePreamble, Client, Tick, vars, radioVars
  <2>3. ~(RxGo \/ DetSleep \/ FailSleep \/ HalTxTimeout \/ HalTxDone)
    BY DEF RxGo, HAL_cmd_receive, DetSleep, FailSleep, HAL_cmd_Sleep,
       HalTxTimeout, HalTxDone
  <2>4. TxGo
    BY <2>1, <2>2, <2>3, Zenon DEF Next, PHYStep, PHY_FSM_run, TimerInterrupt, FrameEnd
  <2> QED
    BY <2>4 DEF TxGo, TxInv, At
<1>2. presentState = "PHY_IDLE" /\ eventFlag \cap UplinkRequests # {}
  BY <1>1 DEF TxGo, At, CycleInv, Common, InIdle, InTx, InWait, InRx, PHYStates
<1> QED
  BY <1>1, <1>2 DEF TxInv, Forwarding, Replying, TxGo, At, Has, UplinkRequests

\* The relay transmits nothing but the uplink it has taken, marked as relayed
\* and where relays send, and the reply to it, where end nodes listen: for
\* every period and every delay, wherever handlers run and wherever an
\* unassigned nextRState leads the machine.
THEOREM TransmitCorrect == RelaySpec => TransmitsOnlyRelayed
<1>1. TxInv /\ CycleInv /\ [RelayNext]_allVars => TxInv'
  BY TxInvStep
<1> DEFINE Relayed ==
      link # "tx" /\ link' = "tx" =>
        \/ presentRState = "RMAC_RELAY" /\ pktStat = "01" /\ cfg = RelayParams
        \/ presentRState = "RMAC_IDLE" /\ pktStat = "11" /\ cfg = MonitorParams
<1>2. TxInv /\ CycleInv /\ [RelayNext]_allVars => [Relayed]_allVars
  BY TransmitStep
<1> QED
  BY <1>1, <1>2, TxInvInit, RelayCycleInvariant, PTL
     DEF RelaySpec, TransmitsOnlyRelayed
-----------------------------------------------------------------------------
(***************************************************************************)
(* What the relay waits for.  Before an unassigned nextRState leads it   *)
(* astray, the relay and the PHY go through a cycle together: in each of   *)
(* its states the relay knows what the PHY is doing.  That the PHY is free *)
(* when the relay wants to listen again is a matter of time: a reply is    *)
(* transmitted, or given up by the watchdog, before the next monitoring is *)
(* due, for radios that complete their transmissions.                      *)
(***************************************************************************)
ReplyIsShort == TxCompletes /\ TxTimeout < MonitorPeriod

\* The PHY has forgotten every request, in the last statement of its cycle or
\* before.
Over == eventFlag = {} /\ (presentState = "PHY_IDLE" \/ Ends("PHY_IDLE"))

\* The PHY has been asked for e and has not begun.
Asked(e) == presentState = "PHY_IDLE" /\ eventFlag = {e}

\* The relay has asked it for e; its own event is forgotten by then.
Asking(e) ==
  /\ rpc \in {"forget", "commit"} /\ Asked(e)
  /\ rpc = "commit" => triggeredREvent = "NULL"

\* It is serving e and has not told the relay how that ended; it has told.
Serving(e) ==
  eventFlag \cap RequestFlags = {e} /\ pc # "finish" /\ ~Ends("PHY_IDLE")
Ending(e) == Over \/ (pc = "finish" /\ eventFlag \cap RequestFlags = {e})

InMonitor ==
  presentRState = "RMAC_MONITOR" =>
    CASE nextRState = "RMAC_MONITOR" ->
           /\ rpc \in {"phy", "test", "commit"}
           /\ IF triggeredREvent \in {"DETECT", "DETECT_FAIL"}
              THEN Ending("RX_Only_Req") ELSE Serving("RX_Only_Req")
      [] nextRState = "RMAC_RELAY" ->
           \/ rpc = "forward" /\ Over /\ triggeredREvent = "DETECT"
           \/ Asking("TX_Req")
      [] OTHER -> rpc \in {"forget", "commit"} /\ Over

InRelay ==
  presentRState = "RMAC_RELAY" =>
    IF nextRState = "RMAC_RELAY"
    THEN /\ rpc \in {"phy", "test", "commit"}
         /\ IF triggeredREvent \in {"RECEIVE", "RECEIVE_FAIL"}
            THEN Ending("TX_Req") ELSE Serving("TX_Req")
    ELSE /\ nextRState = "RMAC_IDLE"
         /\ \/ rpc \in {"reply", "forget", "commit"} /\ Over
            \/ rpc = "commit" /\ Asked("TX_Only_Req")

InIdleMac ==
  presentRState = "RMAC_IDLE" =>
    IF nextRState = "RMAC_MONITOR"
    THEN \/ rpc = "listen" /\ Over
         \/ Asking("RX_Only_Req")
    ELSE /\ nextRState = "RMAC_IDLE"
         /\ rpc \notin {"listen", "forward", "reply"}
         /\ \/ Over
            \/ /\ eventFlag \cap RequestFlags = {"TX_Only_Req"}
               /\ presentState \in {"PHY_IDLE", "PHY_TX_RUN"}

\* A reply begins before the next monitoring is planned, its watchdog goes off
\* before that monitoring is due, and the pass of the PHY that ends it comes
\* before the one of the relay that listens.
ReplyInTime ==
  Has("TX_Only_Req") =>
    /\ presentState = "PHY_IDLE" =>
         macRepeat /\ (rpc = "commit" \/ (rpc = "phy" /\ pc # "main"))
    /\ Has("TX_Done") \/ (macRepeat /\ rpc # "test") \/ monitorTimer > wdTimer
    /\ presentState = "PHY_TX_RUN" \/ Ends("PHY_TX_RUN") =>
         Has("TX_Done") \/ link = "tx"
    /\ delayTimer # Off \/ triggeredREvent = "DELAY_END" =>
         \/ rpc \in {"forget", "commit"}
         \/ rpc = "phy" /\ pc \in {"run", "txEnd"}

\* A transmission that was asked for begins, and a radio that completes it
\* keeps the watchdog from going off.
RadioAnswers ==
  /\ eventFlag \cap UplinkRequests # {} => ulPayload
  /\ link = "tx" => wdTimer >= 1

WaitInv ==
  TxInv /\ InMonitor /\ InRelay /\ InIdleMac /\ ReplyInTime /\ RadioAnswers

\* Every step that does not go astray keeps the relay and the PHY together.
LEMMA WaitStep ==
  ASSUME ReplyIsShort, WaitInv, TxInv', CycleInv, MacInv, MacTypes, MacFlags,
         ~stray, [RelayNext]_allVars, ~stray'
  PROVE  WaitInv'
<1> USE RelayCalls, ParametersAssumption, RelayAssumption
<1> USE DEF ReplyIsShort, WaitInv, TxInv, Over, Asked, Asking, Serving, Ending, InMonitor,
        InRelay, InIdleMac, ReplyInTime, RadioAnswers, MacInv, InvLabels,
        InvBusy, InvPlanned, InvDelay, InvRepeat, MacTypes, MacFlags,
        RStates, REvents, RLabels, Callers, CycleInv, TypeOK, Common, InIdle,
        InTx, InWait, InRx, CycleEvents, Uplink, RxOnly, DelaysOff, Ends,
        Opening, Labels, PHYStates, PHYEvents, UplinkRequests, RequestFlags,
        Unknown, Off, RxMax, phyVars, clientVars, threadVars, delayVars,
        timerVars, radioVars, At, Has, GoTo, GoOn, Interruptible, MacAt, MacGo,
        Unassigned, macVars, macTimers, PHYOwn
<1>1. CASE Run /\ Indications /\ Untouched
  BY <1>1 DEF Run, RunIdle, RunTx, RunRxWait, RunRx, Stay,
     Untouched, Indications, PHYRxDoneInterrupt, PHYRxFailInterrupt
<1>2. CASE TxConfig /\ Indications /\ Untouched
  BY <1>2 DEF TxConfig, ConfigureRadio,
     Untouched, Indications, PHYRxDoneInterrupt, PHYRxFailInterrupt
<1>3. CASE TxGo /\ Indications /\ Untouched
  BY <1>3 DEF TxGo, HAL_cmd_transmit,
     Untouched, Indications, PHYRxDoneInterrupt, PHYRxFailInterrupt
<1>4. CASE TxEnd /\ Indications /\ Untouched
  BY <1>4 DEF TxEnd,
     Untouched, Indications, PHYRxDoneInterrupt, PHYRxFailInterrupt
<1>5. CASE AttachDelays /\ Indications /\ Untouched
  BY <1>5 DEF AttachDelays,
     Untouched, Indications, PHYRxDoneInterrupt, PHYRxFailInterrupt
<1>6. CASE Open /\ Indications /\ Untouched
  BY <1>6 DEF Open,
     Untouched, Indications, PHYRxDoneInterrupt, PHYRxFailInterrupt
<1>7. CASE RxConfig /\ Indications /\ Untouched
  BY <1>7 DEF RxConfig, ConfigureRadio,
     Untouched, Indications, PHYRxDoneInterrupt, PHYRxFailInterrupt
<1>8. CASE RxGo /\ Indications /\ Untouched
  BY <1>8 DEF RxGo, HAL_cmd_receive, HAL_isRfActive,
     Untouched, Indications, PHYRxDoneInterrupt, PHYRxFailInterrupt
<1>9. CASE Detect /\ Indications /\ Untouched
  BY <1>9 DEF Detect,
     Untouched, Indications, PHYRxDoneInterrupt, PHYRxFailInterrupt
<1>10. CASE DetSleep /\ Indications /\ Untouched
  BY <1>10 DEF DetSleep, HAL_cmd_Sleep,
     Untouched, Indications, PHYRxDoneInterrupt, PHYRxFailInterrupt
<1>11. CASE Deliver /\ Indications /\ Untouched
  BY <1>11 DEF Deliver,
     Untouched, Indications, PHYRxDoneInterrupt, PHYRxFailInterrupt
<1>12. CASE FailSleep /\ Indications /\ Untouched
  BY <1>12 DEF FailSleep, HAL_cmd_Sleep,
     Untouched, Indications, PHYRxDoneInterrupt, PHYRxFailInterrupt
<1>13. CASE Failed /\ Indications /\ Untouched
  BY <1>13 DEF Failed,
     Untouched, Indications, PHYRxDoneInterrupt, PHYRxFailInterrupt
<1>14. CASE Finish /\ Indications /\ Untouched
  BY <1>14 DEF Finish,
     Untouched, Indications, PHYRxDoneInterrupt, PHYRxFailInterrupt
<1>15. CASE Load /\ Indications /\ Untouched
  BY <1>15 DEF Load,
     Untouched, Indications, PHYRxDoneInterrupt, PHYRxFailInterrupt
<1>16. CASE Store /\ Indications /\ Untouched
  <2> USE <1>16 DEF Store, Untouched, Indications
  <2>1. /\ pc = "store" /\ pc' = "commit" /\ rpc = "phy"
        /\ nextState # "PHY_IDLE" /\ eventFlag # {} /\ eventFlag' # {}
        /\ UNCHANGED <<presentState, nextState, triggeredREvent, link, ulPayload>>
    OBVIOUS
  <2>2. \A e \in RequestFlags : e \in eventFlag' <=> e \in eventFlag
    OBVIOUS
  <2>3. eventFlag' \cap RequestFlags = eventFlag \cap RequestFlags
    BY <2>2
  <2>4. ~Over /\ ~Over'
    BY <2>1, <2>3
  <2>5. ReplyInTime' /\ RadioAnswers'
    BY <2>1, <2>2
  <2> HIDE DEF CycleInv, MacInv, Over
  <2>6. InMonitor' /\ InRelay'
    BY <2>1, <2>3, <2>4
  <2>7. InIdleMac'
    BY <2>1, <2>3, <2>4
  <2> QED
    BY <2>5, <2>6, <2>7
<1>17. CASE Commit /\ Indications /\ Untouched
  <2> USE <1>17 DEF Commit, Untouched, Indications
  <2>1. /\ pc = "commit" /\ pc' = "main" /\ presentState' = nextState
        /\ rpc = "phy" /\ nextRState = presentRState
        /\ UNCHANGED <<eventFlag, link, wdTimer, ulPayload, triggeredREvent>>
        /\ UNCHANGED <<presentRState, nextRState, macRepeat, macTimers, rpc>>
    <3> HIDE DEF CycleInv, InMonitor, InRelay, InIdleMac, ReplyInTime, RadioAnswers
    <3> QED
      OBVIOUS
  <2>2. Over => Over'
    OBVIOUS
  <2>3. Has("TX_Only_Req") /\ presentRState = "RMAC_IDLE" => presentState' = "PHY_TX_RUN"
    <3>1. Has("TX_Only_Req") /\ presentRState = "RMAC_IDLE" =>
            presentState \in {"PHY_IDLE", "PHY_TX_RUN"} /\ ~Over
      BY <2>1
    <3> HIDE DEF InMonitor, InRelay, InIdleMac, ReplyInTime, MacInv
    <3> QED
      BY <2>1, <3>1
  <2> HIDE DEF CycleInv, MacInv, Over
  <2>4. InMonitor' /\ InRelay'
    BY <2>1, <2>2
  <2>5. InIdleMac'
    BY <2>1, <2>2, <2>3
  <2>6. Has("TX_Only_Req") => presentRState = "RMAC_IDLE"
    BY <2>1 DEF Over, MacInv
  <2>7. ReplyInTime' /\ RadioAnswers'
    BY <2>1, <2>3, <2>6
  <2> QED
    BY <2>4, <2>5, <2>7
<1>18. CASE RxDelay1End /\ Indications /\ Untouched
  BY <1>18 DEF RxDelay1End, PHYEvent_setEventFlag,
     Untouched, Indications, PHYRxDoneInterrupt, PHYRxFailInterrupt
<1>19. CASE RxDelay2End /\ Indications /\ Untouched
  BY <1>19 DEF RxDelay2End, PHYEvent_setEventFlag,
     Untouched, Indications, PHYRxDoneInterrupt, PHYRxFailInterrupt
<1>20. CASE ExpireWindow /\ Indications /\ Untouched
  BY <1>20 DEF ExpireWindow, PHYEvent_setEventFlag,
     Untouched, Indications, PHYRxDoneInterrupt, PHYRxFailInterrupt
<1>21. CASE HalTxTimeout /\ Indications /\ Untouched
  BY <1>21 DEF HalTxTimeout,
     Untouched, Indications, PHYRxDoneInterrupt, PHYRxFailInterrupt
<1>22. CASE HalTxDone /\ Indications /\ Untouched
  <2> USE <1>22 DEF HalTxDone, PHYEvent_setEventFlag, Untouched, Indications,
          PHYRxDoneInterrupt, PHYRxFailInterrupt
  <2>1. \A e \in RequestFlags : e \in eventFlag' <=> e \in eventFlag
    OBVIOUS
  <2>2. ~Over /\ pc # "finish" /\ (presentState = "PHY_IDLE" => Ends("PHY_TX_RUN"))
    OBVIOUS
  <2>3. UNCHANGED <<triggeredREvent, presentState, nextState, pc>>
    OBVIOUS
  <2>4. rpc # "phy" => pc = "main"
    <3> HIDE DEF CycleInv, MacInv, InMonitor, InRelay, InIdleMac, ReplyInTime
    <3> QED
      OBVIOUS
  <2>5. eventFlag' \cap RequestFlags = eventFlag \cap RequestFlags
    BY <2>1
  <2>6. ReplyInTime' /\ RadioAnswers'
    BY <2>1
  <2> HIDE DEF CycleInv, MacInv, Over
  <2>7. InMonitor' /\ InRelay'
    BY <2>2, <2>3, <2>4, <2>5
  <2>8. InIdleMac'
    BY <2>2, <2>3, <2>4, <2>5
  <2> QED
    BY <2>6, <2>7, <2>8
<1>23. CASE HalRxDone /\ Indications /\ Untouched
  BY <1>23 DEF HalRxDone, PHYEvent_setEventFlag,
     Untouched, Indications, PHYRxDoneInterrupt, PHYRxFailInterrupt
<1>24. CASE HalRxCrcError /\ Indications /\ Untouched
  BY <1>24 DEF HalRxCrcError, PHYEvent_setEventFlag,
     Untouched, Indications, PHYRxDoneInterrupt, PHYRxFailInterrupt
<1>25. CASE Preamble /\ Indications /\ Untouched
  BY <1>25 DEF Preamble,
     Untouched, Indications, PHYRxDoneInterrupt, PHYRxFailInterrupt
<1>26. CASE Frame /\ Indications /\ Untouched
  BY <1>26 DEF Frame,
     Untouched, Indications, PHYRxDoneInterrupt, PHYRxFailInterrupt
<1>27. CASE FalsePreamble /\ Indications /\ Untouched
  BY <1>27 DEF FalsePreamble,
     Untouched, Indications, PHYRxDoneInterrupt, PHYRxFailInterrupt
<1>28. CASE RelayCheck
  BY <1>28 DEF RelayCheck, vars
<1>29. CASE Test
  <2> USE <1>29 DEF Test, vars
  <2>1. /\ pc = "main" /\ rpc = "test" /\ nextRState = presentRState
        /\ UNCHANGED <<pc, presentState, nextState, eventFlag, presentRState,
                       triggeredREvent>>
    OBVIOUS
  <2>2. Over' <=> Over
    BY <2>1
  <2>3. CASE presentRState = "RMAC_MONITOR"
    <3> USE <2>3 DEF TestMonitor
    <3>1. InMonitor'
      OBVIOUS
    <3> QED
      BY <3>1
  <2>4. CASE presentRState = "RMAC_RELAY"
    <3> USE <2>4 DEF TestRelay
    <3>1. InRelay'
      OBVIOUS
    <3> QED
      BY <3>1
  <2>5. CASE presentRState = "RMAC_IDLE"
    <3> USE <2>5 DEF TestIdle
    <3>1. triggeredREvent = "DELAY_END" => Over
      OBVIOUS
    <3>2. nextRState' = IF triggeredREvent = "DELAY_END" THEN "RMAC_MONITOR" ELSE "RMAC_IDLE"
      OBVIOUS
    <3>3. rpc' = CASE triggeredREvent = "DELAY_END" -> "listen"
                   [] triggeredREvent = "PREPARE_MONITOR" -> "prepare"
                   [] OTHER -> "commit"
      OBVIOUS
    <3>4. ReplyInTime' /\ RadioAnswers'
      OBVIOUS
    <3>5. InIdleMac'
      <4> HIDE DEF CycleInv, MacInv, Over, Test
      <4> QED
        BY <2>1, <2>2, <3>1, <3>2, <3>3
    <3> QED
      BY <3>4, <3>5
  <2> QED
    BY <2>3, <2>4, <2>5
<1>30. CASE Prepare
  BY <1>30 DEF Prepare, PHY_setRxSlot
<1>31. CASE ListenRx
  BY <1>31 DEF ListenRx, PHY_indicateEvent, PHYEvent_setEventFlag, RequestFlag, StatusOf
<1>32. CASE ForwardUl
  BY <1>32 DEF ForwardUl, PHY_indicateEvent, PHYEvent_setEventFlag, RequestFlag,
     StatusOf, PHY_configUlPayload
<1>33. CASE PassReply
  BY <1>33 DEF PassReply, PHY_indicateEvent, PHYEvent_setEventFlag, RequestFlag,
     StatusOf, PHY_configUlPayload
<1>34. CASE Forget
  BY <1>34 DEF Forget, vars
<1>35. CASE MacCommit
  <2> USE <1>35 DEF MacCommit, MainLoop
  <2>1. /\ pc = "main" /\ pc' = "run" /\ rpc = "commit" /\ rpc' = "phy"
        /\ presentRState' = nextRState /\ nextRState' = nextRState
        /\ UNCHANGED <<presentState, nextState, eventFlag, triggeredREvent>>
    <3> HIDE DEF CycleInv, MacInv, WaitInv
    <3> QED
      OBVIOUS
  <2>2. {presentRState, nextRState} \subseteq {"RMAC_IDLE", "RMAC_MONITOR", "RMAC_RELAY"}
    <3> HIDE DEF CycleInv, WaitInv
    <3> QED
      OBVIOUS
  <2>3. ReplyInTime' /\ RadioAnswers'
    OBVIOUS
  <2>4. (Over' <=> Over) /\ (Over => presentState = "PHY_IDLE" /\ eventFlag = {})
    BY <2>1
  <2>5. ~Ends("PHY_IDLE") /\ ~Ends("PHY_IDLE")'
    BY <2>1
  <2>6. InMonitor /\ InRelay /\ InIdleMac
    OBVIOUS
  <2> HIDE DEF CycleInv, MacInv, WaitInv, Over, MacCommit, Ends
  <2>7. InMonitor'
    BY <2>1, <2>2, <2>4, <2>5, <2>6
  <2>8. InRelay'
    BY <2>1, <2>2, <2>4, <2>5, <2>6
  <2>9. InIdleMac'
    BY <2>1, <2>2, <2>4, <2>5, <2>6
  <2> HIDE DEF TxInv, InMonitor, InRelay, InIdleMac, ReplyInTime, RadioAnswers
  <2> QED
    BY <2>3, <2>7, <2>8, <2>9 DEF WaitInv
<1>36. CASE HandleMonitor
  BY <1>36 DEF HandleMonitor, vars
<1>37. CASE DelayEnd
  BY <1>37 DEF DelayEnd, vars
<1>38. CASE RelayTick
  BY <1>38 DEF RelayTick, TickTimers, MayTick, Count
<1>39. CASE UNCHANGED allVars
  BY <1>39 DEF allVars, relayVars, vars
<1> QED
  BY <1>1, <1>2, <1>3, <1>4, <1>5, <1>6, <1>7, <1>8, <1>9, <1>10, <1>11,
     <1>12, <1>13, <1>14, <1>15, <1>16, <1>17, <1>18, <1>19, <1>20, <1>21,
     <1>22, <1>23, <1>24, <1>25, <1>26, <1>27, <1>28, <1>29, <1>30, <1>31,
     <1>32, <1>33, <1>34, <1>35, <1>36, <1>37, <1>38, <1>39
     DEF RelayNext, MainThread, RMAC_FSM_run, Handlers, PHYPass, PHYStep,
         Untouched, PHY_FSM_run, TimerInterrupt, FrameEnd, Air

\* Nothing is asked when the relay starts.
LEMMA WaitInit == RelayInit => WaitInv
  BY TxInvInit
     DEF RelayInit, Init, WaitInv, InMonitor, InRelay, InIdleMac, ReplyInTime,
         RadioAnswers, Over, Has, UplinkRequests, RequestFlags

\* Before an unassigned nextRState has led it astray, the relay knows what the
\* PHY is doing: for every period and every delay, wherever handlers run,
\* when transmissions come to an end before the next monitoring is due.
Together == ~stray => WaitInv /\ MacInv

THEOREM WaitInvariant ==
  ASSUME ReplyIsShort
  PROVE  RelaySpec => [](Together /\ CycleInv /\ RelayTypeOK)
<1>1. RelayInit => Together
  BY WaitInit
     DEF Together, RelayInit, MacInv, InvLabels, InvBusy, InvPlanned, InvDelay,
         InvRepeat, Off
<1>2. Together /\ TxInv' /\ CycleInv /\ RelayTypeOK /\ [RelayNext]_allVars => Together'
  <2> SUFFICES ASSUME Together, TxInv', CycleInv, RelayTypeOK,
                      [RelayNext]_allVars, ~stray'
               PROVE  WaitInv' /\ MacInv'
    BY DEF Together
  <2>1. ~stray
    BY StrayStep
  <2>2. MacTypes /\ MacFlags
    BY Zenon DEF RelayTypeOK, MacTypes, MacFlags
  <2>3. MacInv'
    BY <2>1, <2>2, MacInvStep DEF Together
  <2> QED
    BY <2>1, <2>2, <2>3, WaitStep DEF Together
<1>3. TxInv /\ CycleInv /\ [RelayNext]_allVars => TxInv'
  BY TxInvStep
<1> QED
  BY <1>1, <1>2, <1>3, TxInvInit, RelayCycleInvariant, RelayTypeCorrect, PTL
     DEF RelaySpec

\* The relay never waits for what the PHY is not about to give it.
THEOREM WaitsCorrect ==
  ASSUME ReplyIsShort
  PROVE  RelaySpec => []WaitsForPHY
<1>1. Together => WaitsForPHY
  BY DEF Together, WaitsForPHY, WaitInv, InMonitor, InRelay, Over, Asked, Asking,
         Serving, Ending, Leaving, Has, RequestFlags, UplinkRequests, MacInv,
         InvLabels
<1> QED
  BY <1>1, WaitInvariant, PTL
-----------------------------------------------------------------------------
(***************************************************************************)
(* One cycle at a time, wherever an unassigned nextRState leads: a relay   *)
(* that went astray still waits for nothing, or plans nothing.  No timing  *)
(* is assumed: a request the PHY drops leaves the relay waiting, and what  *)
(* the PHY has taken it answers before anything else is planned.           *)
(***************************************************************************)
\* What the PHY will tell the relay the end of.
Waited == eventFlag \cap {"TX_Req", "RX_Only_Req"}

\* The event the relay's state waits for.
Answered ==
  \/ presentRState = "RMAC_MONITOR" /\ triggeredREvent \in {"DETECT", "DETECT_FAIL"}
  \/ presentRState = "RMAC_RELAY" /\ triggeredREvent \in {"RECEIVE", "RECEIVE_FAIL"}

\* Nothing of the next cycle is there.
NothingPlanned == monitorTimer = Off /\ delayTimer = Off /\ ~macRepeat

\* Where the statements of RMAC_FSM_run are, and that the PHY is free there.
OneLabels ==
  /\ rpc \in {"phy", "test"} => nextRState = presentRState
  /\ rpc = "prepare" => triggeredREvent = "PREPARE_MONITOR"
  /\ rpc = "listen" =>
       /\ triggeredREvent = "DELAY_END" /\ nextRState = "RMAC_MONITOR"
       /\ presentRState \notin {"RMAC_MONITOR", "RMAC_RELAY"}
  /\ rpc = "forward" =>
       presentRState = "RMAC_MONITOR" /\ nextRState = "RMAC_RELAY" /\ Answered
  /\ rpc = "reply" =>
       presentRState = "RMAC_RELAY" /\ nextRState = "RMAC_IDLE" /\ Answered
  /\ rpc \in {"prepare", "listen", "forward", "reply"} => NothingPlanned /\ Waited = {}

\* The next monitoring is planned, has come, and is a millisecond away.
OnePlanned ==
  /\ monitorTimer # Off =>
       /\ presentRState = "RMAC_IDLE" /\ nextRState = "RMAC_IDLE"
       /\ delayTimer = Off /\ Waited = {}
       /\ triggeredREvent \notin {"PREPARE_MONITOR", "DELAY_END"}
       /\ rpc \in {"phy", "test", "commit"}
  /\ triggeredREvent = "PREPARE_MONITOR" =>
       /\ presentRState = "RMAC_IDLE" /\ Waited = {}
       /\ rpc \in {"phy", "test", "commit"} => nextRState = "RMAC_IDLE"
       /\ rpc # "forget" => delayTimer = Off
  /\ delayTimer # Off =>
       Waited = {} /\ ~macRepeat /\ triggeredREvent \in {"NULL", "PREPARE_MONITOR"}
  /\ triggeredREvent = "DELAY_END" => Waited = {} \/ rpc = "forget"

\* The cycle has ended.
OneRepeat ==
  macRepeat =>
    /\ nextRState = "RMAC_IDLE" /\ delayTimer = Off /\ Waited = {}
    /\ rpc # "test" =>
         /\ monitorTimer = Off
         /\ triggeredREvent \notin {"PREPARE_MONITOR", "DELAY_END"}

\* The PHY has been asked and the relay waits for it, or is about to.
OneWaited ==
  Waited # {} =>
    /\ NothingPlanned
    /\ \/ pc = "finish"
       \/ /\ presentRState \in {"RMAC_MONITOR", "RMAC_RELAY"}
          /\ rpc \in {"phy", "test", "commit"} /\ nextRState = presentRState
          /\ ~Answered
       \/ /\ rpc \in {"forget", "commit"} /\ nextRState \in {"RMAC_MONITOR", "RMAC_RELAY"}
          /\ rpc = "commit" => triggeredREvent = "NULL"

OneInv == OneLabels /\ OnePlanned /\ OneRepeat /\ OneWaited

\* A pass of the PHY forgets requests, and tells the relay of none that is not
\* there.
LEMMA PHYAnswers ==
  ASSUME CycleInv, PHYStep
  PROVE  /\ Waited' \subseteq Waited
         /\ pc = "finish" => pc' = "finish" \/ Waited' = {}
         /\ pc \in {"deliver", "failed"} => Waited # {}
<1> USE RelayCalls
<1> USE DEF Waited, Callers, CycleInv, TypeOK, Common, InIdle, InTx, InWait, InRx,
        CycleEvents, Uplink, RxOnly, DelaysOff, Ends, Opening, Labels, PHYStates,
        PHYEvents, UplinkRequests, RequestFlags, Unknown, Off, RxMax, phyVars,
        clientVars, threadVars, delayVars, timerVars, radioVars, At, Has, GoTo,
        GoOn
<1>1. CASE Run \/ TxConfig \/ TxGo \/ AttachDelays \/ Open \/ RxConfig \/ RxGo
  BY <1>1 DEF Run, TxConfig, TxGo, AttachDelays, Open, RxConfig, RxGo
<1>2. CASE Detect \/ DetSleep \/ Deliver \/ FailSleep \/ Failed \/ Load
  BY <1>2 DEF Detect, DetSleep, Deliver, FailSleep, Failed, Load
<1>3. CASE TxEnd \/ Finish
  BY <1>3 DEF TxEnd, Finish
<1>4. CASE Store
  BY <1>4 DEF Store
<1>5. CASE Commit
  BY <1>5 DEF Commit
<1>6. CASE TimerInterrupt
  BY <1>6 DEF TimerInterrupt, RxDelay1End, RxDelay2End, ExpireWindow, HalTxTimeout,
     PHYEvent_setEventFlag
<1>7. CASE HalTxDone \/ FrameEnd
  BY <1>7 DEF HalTxDone, FrameEnd, HalRxDone, HalRxCrcError, PHYEvent_setEventFlag
<1>8. CASE Air
  BY <1>8 DEF Air, Preamble, Frame, FalsePreamble
<1> QED
  BY <1>1, <1>2, <1>3, <1>4, <1>5, <1>6, <1>7, <1>8 DEF PHYStep, PHY_FSM_run

\* Every step keeps the cycles apart.
LEMMA OneStep ==
  ASSUME OneInv, TxInv, CycleInv, MacTypes, MacFlags, [RelayNext]_allVars
  PROVE  OneInv'
<1>1. rpc # "phy" => pc = "main"
  BY DEF TxInv
<1> USE <1>1 DEF OneInv, OneLabels, OnePlanned, OneRepeat, OneWaited, NothingPlanned,
        Answered, MacAt, MacGo, Unassigned, macVars, macTimers, MacTypes, MacFlags,
        RStates, REvents, RLabels, Unknown, Off, At
<1>2. CASE PHYPass
  <2>1. /\ Waited' \subseteq Waited
        /\ pc = "finish" => pc' = "finish" \/ Waited' = {}
        /\ pc \in {"deliver", "failed"} => Waited # {}
    BY <1>2, PHYAnswers DEF PHYPass
  <2> QED
    BY <1>2, <2>1 DEF PHYPass, Indications, PHYRxDoneInterrupt, PHYRxFailInterrupt
<1>3. CASE RelayCheck
  BY <1>3, RelayAssumption DEF RelayCheck, Waited, vars, phyVars, threadVars
<1>4. CASE Test
  <2>1. UNCHANGED <<Waited, pc>>
    BY <1>4 DEF Test, Waited, vars, phyVars, threadVars
  <2>2. CASE presentRState = "RMAC_MONITOR"
    BY <1>4, <2>1, <2>2 DEF Test, TestMonitor
  <2>3. CASE presentRState = "RMAC_RELAY"
    BY <1>4, <2>1, <2>3 DEF Test, TestRelay
  <2>4. CASE presentRState = "RMAC_CLEAR"
    BY <1>4, <2>1, <2>4 DEF Test, TestClear
  <2>5. CASE presentRState \notin {"RMAC_MONITOR", "RMAC_RELAY", "RMAC_CLEAR"}
    BY <1>4, <2>1, <2>5 DEF Test, TestIdle
  <2> QED
    BY <2>2, <2>3, <2>4, <2>5
<1>5. CASE Prepare
  BY <1>5 DEF Prepare, Waited, PHYOwn, threadVars
<1>6. CASE ListenRx \/ ForwardUl
  BY <1>6 DEF ListenRx, ForwardUl, PHYOwn, threadVars
<1>7. CASE PassReply
  <2>1. UNCHANGED <<Waited, pc>>
    BY <1>7 DEF PassReply, PHYOwn, threadVars, Waited, PHY_indicateEvent,
       PHYEvent_setEventFlag, RequestFlag
  <2> QED
    BY <1>7, <2>1 DEF PassReply
<1>8. CASE Forget
  BY <1>8 DEF Forget, Waited, vars, phyVars, threadVars
<1>9. CASE MacCommit
  BY <1>9 DEF MacCommit, MainLoop, GoTo, Waited, phyVars
<1>10. CASE HandleMonitor \/ DelayEnd
  BY <1>10 DEF HandleMonitor, DelayEnd, Waited, vars, phyVars, threadVars
<1>11. CASE RelayTick
  BY <1>11 DEF RelayTick, Count, Waited, phyVars, threadVars
<1>12. CASE UNCHANGED allVars
  BY <1>12 DEF allVars, relayVars, Waited, vars, phyVars, threadVars
<1> QED
  BY <1>2, <1>3, <1>4, <1>5, <1>6, <1>7, <1>8, <1>9, <1>10, <1>11, <1>12
     DEF RelayNext, MainThread, RMAC_FSM_run, Handlers

\* No two monitoring cycles overlap, for every period, whatever the radio and
\* the clock do, wherever handlers run, and wherever an unassigned nextRState
\* leads the machine.
THEOREM OneCycleCorrect == RelaySpec => []OneCycle
<1>1. RelayInit => OneInv
  BY DEF RelayInit, Init, OneInv, OneLabels, OnePlanned, OneRepeat, OneWaited, Off,
         Waited
<1>2. OneInv /\ TxInv /\ CycleInv /\ RelayTypeOK /\ [RelayNext]_allVars => OneInv'
  <2>1. RelayTypeOK => MacTypes /\ MacFlags
    BY Zenon DEF RelayTypeOK, MacTypes, MacFlags
  <2> QED
    BY <2>1, OneStep
<1>3. TxInv /\ CycleInv /\ [RelayNext]_allVars => TxInv'
  BY TxInvStep
<1>4. OneInv => OneCycle
  BY DEF OneInv, OneLabels, OnePlanned, OneCycle
<1> QED
  BY <1>1, <1>2, <1>3, <1>4, TxInvInit, RelayCycleInvariant, RelayTypeCorrect, PTL
     DEF RelaySpec
-----------------------------------------------------------------------------
(***************************************************************************)
(* The relay implements RelayCycle.                                        *)
(***************************************************************************)
\* A pass of the PHY drops requests and makes none, and an uplink that has
\* been sent is not sent again.
LEMMA PHYForwardsOnce ==
  ASSUME CycleInv, PHYStep
  PROVE  /\ eventFlag' \cap UplinkRequests \subseteq eventFlag
         /\ presentState' \in {"PHY_IDLE", "PHY_TX_RUN"} /\ "TX_Req" \in eventFlag' =>
              presentState \in {"PHY_IDLE", "PHY_TX_RUN"}
<1> USE RelayCalls
<1> USE DEF Callers, CycleInv, TypeOK, Common, InIdle, InTx, InWait, InRx,
        CycleEvents, Uplink, RxOnly, DelaysOff, Ends, Opening, Labels, PHYStates,
        PHYEvents, UplinkRequests, RequestFlags, Unknown, Off, RxMax, phyVars,
        clientVars, threadVars, delayVars, timerVars, radioVars, At, Has, GoTo,
        GoOn
<1>1. CASE Run \/ TxConfig \/ TxGo \/ AttachDelays \/ Open \/ RxConfig \/ RxGo
  BY <1>1 DEF Run, TxConfig, TxGo, AttachDelays, Open, RxConfig, RxGo
<1>2. CASE Detect \/ DetSleep \/ Deliver \/ FailSleep \/ Failed \/ Load
  BY <1>2 DEF Detect, DetSleep, Deliver, FailSleep, Failed, Load
<1>3. CASE TxEnd \/ Finish
  BY <1>3 DEF TxEnd, Finish
<1>4. CASE Store
  BY <1>4 DEF Store
<1>5. CASE Commit
  BY <1>5 DEF Commit
<1>6. CASE TimerInterrupt
  BY <1>6 DEF TimerInterrupt, RxDelay1End, RxDelay2End, ExpireWindow, HalTxTimeout,
     PHYEvent_setEventFlag
<1>7. CASE HalTxDone \/ FrameEnd
  BY <1>7 DEF HalTxDone, FrameEnd, HalRxDone, HalRxCrcError, PHYEvent_setEventFlag
<1>8. CASE Air
  BY <1>8 DEF Air, Preamble, Frame, FalsePreamble
<1> QED
  BY <1>1, <1>2, <1>3, <1>4, <1>5, <1>6, <1>7, <1>8 DEF PHYStep, PHY_FSM_run

\* The relay gets lost in IDLE or while it listens, never between an uplink and
\* its reply.
LEMMA StrayFrom ==
  ASSUME MacInv, [RelayNext]_allVars, ~stray, stray'
  PROVE  /\ presentRState \in {"RMAC_IDLE", "RMAC_MONITOR"}
<1>1. Test
  BY Zenon DEF RelayNext, MainThread, RMAC_FSM_run, Handlers, PHYPass, RelayCheck,
     HandleMonitor, DelayEnd, RelayTick, Prepare, ListenRx, ForwardUl, PassReply,
     Forget, MacCommit, allVars, relayVars, macVars
<1>2. presentRState # "RMAC_RELAY"
  BY <1>1, Zenon DEF Test, TestRelay, MacGo
<1> QED
  BY <1>2 DEF MacInv, InvLabels

\* Every step of the relay is a step of RelayCycle or none.
LEMMA RelayCycleStep ==
  ASSUME Together, Together', CycleInv, [RelayNext]_allVars
  PROVE  [Cycles!Next]_RelayPhase
<1> USE DEF Cycles!Next, Cycles!Listen, Cycles!Forward, Cycles!Forwarded,
        Cycles!Reply, Cycles!End, Cycles!Lose
<1>1. CASE stray
  <2>1. stray'
    BY <1>1, StrayStep
  <2> QED
    BY <1>1, <2>1, Zenon DEF RelayPhase
<1>2. CASE ~stray /\ stray'
  <2>1. presentRState \in {"RMAC_IDLE", "RMAC_MONITOR"}
    BY <1>2, StrayFrom DEF Together
  <2>2. RelayPhase \in {"idle", "listening", "replying"} /\ RelayPhase' = "lost"
    BY <1>2, <2>1, Zenon DEF RelayPhase
  <2> QED
    BY <2>2
<1>3. CASE ~stray /\ ~stray'
  <2>1. WaitInv /\ MacInv /\ WaitInv' /\ MacInv'
    BY <1>3 DEF Together
  <2>2. CASE MacCommit
    <3>1. /\ rpc = "commit" /\ presentRState' = nextRState
          /\ UNCHANGED <<presentState, eventFlag>>
      BY <2>2 DEF MacCommit, MacAt, MainLoop, phyVars
    <3>2. /\ presentRState \in {"RMAC_IDLE", "RMAC_MONITOR", "RMAC_RELAY"}
          /\ nextRState \in {"RMAC_IDLE", "RMAC_MONITOR", "RMAC_RELAY"}
      BY <2>1 DEF MacInv, InvLabels
    <3>3. InMonitor /\ InRelay /\ InIdleMac
      BY <2>1 DEF WaitInv
    <3>4. CASE nextRState = presentRState
      BY <1>3, <3>1, <3>4, Zenon DEF RelayPhase, Has
    <3>5. CASE presentRState = "RMAC_IDLE" /\ nextRState = "RMAC_MONITOR"
      <4>1. eventFlag = {"RX_Only_Req"}
        BY <3>1, <3>3, <3>5 DEF InIdleMac, Asking, Asked
      <4>2. RelayPhase = "idle" /\ RelayPhase' = "listening"
        BY <1>3, <3>1, <3>5, <4>1, Zenon DEF RelayPhase, Has
      <4> QED
        BY <4>2
    <3>6. CASE presentRState = "RMAC_MONITOR" /\ nextRState = "RMAC_RELAY"
      <4>1. presentState = "PHY_IDLE" /\ eventFlag = {"TX_Req"}
        BY <3>1, <3>3, <3>6 DEF InMonitor, Asking, Asked
      <4>2. RelayPhase = "listening" /\ RelayPhase' = "forwarding"
        BY <1>3, <3>1, <3>6, <4>1, Zenon DEF RelayPhase, Has
      <4> QED
        BY <4>2
    <3>7. CASE presentRState = "RMAC_MONITOR" /\ nextRState = "RMAC_IDLE"
      <4>1. eventFlag = {}
        BY <3>3, <3>7 DEF InMonitor, Over
      <4>2. RelayPhase = "listening" /\ RelayPhase' = "idle"
        BY <1>3, <3>1, <3>7, <4>1, Zenon DEF RelayPhase, Has
      <4> QED
        BY <4>2
    <3>8. CASE presentRState = "RMAC_RELAY" /\ nextRState = "RMAC_IDLE"
      <4>1. eventFlag = {} \/ eventFlag = {"TX_Only_Req"}
        BY <3>3, <3>8 DEF InRelay, Over, Asked
      <4>2. RelayPhase = "waiting" /\ RelayPhase' \in {"idle", "replying"}
        BY <1>3, <3>1, <3>8, <4>1, Zenon DEF RelayPhase, Has
      <4> QED
        BY <4>2
    <3>9. ~(presentRState = "RMAC_IDLE" /\ nextRState = "RMAC_RELAY")
          /\ ~(presentRState = "RMAC_RELAY" /\ nextRState = "RMAC_MONITOR")
      BY <3>3 DEF InIdleMac, InRelay
    <3> QED
      BY <3>2, <3>4, <3>5, <3>6, <3>7, <3>8, <3>9
  <2>3. CASE PHYPass
    <3>1. presentRState' = presentRState /\ PHYStep
      BY <2>3 DEF PHYPass
    <3>2. PHYStep => /\ Has("TX_Req")' => Has("TX_Req")
                     /\ Has("TX_Only_Req")' => Has("TX_Only_Req")
                     /\ presentState' \in {"PHY_IDLE", "PHY_TX_RUN"} /\ Has("TX_Req")' =>
                          presentState \in {"PHY_IDLE", "PHY_TX_RUN"}
      BY PHYForwardsOnce DEF Has, UplinkRequests
    <3> QED
      BY <1>3, <3>1, <3>2, Zenon DEF RelayPhase
  <2>4. CASE ListenRx \/ ForwardUl \/ PassReply
    <3>1. /\ UNCHANGED <<presentRState, presentState>>
          /\ presentRState \in {"RMAC_IDLE", "RMAC_MONITOR", "RMAC_RELAY"}
          /\ presentRState = "RMAC_IDLE" => UNCHANGED Has("TX_Only_Req")
          /\ presentRState = "RMAC_RELAY" => ~Has("TX_Req") /\ ~Has("TX_Req")'
      BY <2>1, <2>4
         DEF MacInv, InvLabels, WaitInv, InRelay, InIdleMac, InMonitor, Over, Asked, Asking,
             ListenRx, ForwardUl, PassReply, MacAt, PHYOwn, macVars, PHY_indicateEvent,
             PHYEvent_setEventFlag, RequestFlag, Has
    <3> QED
      BY <1>3, <3>1, Zenon DEF RelayPhase
  <2>5. CASE UNCHANGED <<presentRState, presentState, eventFlag>>
    BY <1>3, <2>5, Zenon DEF RelayPhase, Has
  <2> QED
    BY <2>2, <2>3, <2>4, <2>5
       DEF RelayNext, MainThread, RMAC_FSM_run, Handlers, RelayCheck, Test, Prepare,
           Forget, HandleMonitor, DelayEnd, RelayTick, PHYOwn, vars, phyVars, macVars,
           allVars, relayVars
<1> QED
  BY <1>1, <1>2, <1>3

\* The relay forwards each uplink it takes exactly once and passes at most one
\* reply to it on, and never gets lost in between.
THEOREM RelayCycleCorrect ==
  ASSUME ReplyIsShort
  PROVE  RelaySpec => ImplementsRelayCycle
<1>1. RelayInit => RelayPhase = "idle"
  BY DEF RelayInit, Init, RelayPhase, Has
<1>2. Together /\ Together' /\ CycleInv /\ [RelayNext]_allVars
        => [Cycles!Next]_RelayPhase
  BY RelayCycleStep
<1> QED
  BY <1>1, <1>2, WaitInvariant, PTL
     DEF RelaySpec, ImplementsRelayCycle, Cycles!Spec, Cycles!Init
-----------------------------------------------------------------------------
(***************************************************************************)
(* Where a packet with an unexpected status leaves the relay that monitors. *)
(***************************************************************************)
Deaf == ForeignDetected /\ nextRState = "RMAC_MONITOR"

\* The relay tests the same packet in every pass; the PHY has nothing to tell.
LEMMA DeafStep ==
  ASSUME Deaf, ~stray, Together, CycleInv, [RelayNext]_allVars
  PROVE  Deaf' \/ stray'
<1> USE DEF Deaf, ForeignDetected, MacAt, MacGo, macVars, macTimers, Off
<1>1. /\ rpc \in {"phy", "test", "commit"} /\ Ending("RX_Only_Req")
      /\ monitorTimer = Off /\ delayTimer = Off
  BY DEF Together, WaitInv, InMonitor, MacInv, InvBusy
<1>2. CASE PHYPass
  <2>1. ~At("deliver") /\ ~At("failed")
    BY <1>1 DEF Ending, Over, Ends, At, CycleInv, Common, InIdle
  <2> QED
    BY <1>2, <2>1 DEF PHYPass, Indications
<1>3. CASE RelayCheck
  BY <1>3 DEF RelayCheck
<1>4. CASE Test
  BY <1>4 DEF Test, TestMonitor, Unassigned
<1>5. CASE Prepare \/ ListenRx \/ ForwardUl \/ PassReply \/ Forget
  BY <1>1, <1>5 DEF Prepare, ListenRx, ForwardUl, PassReply, Forget
<1>6. CASE MacCommit
  BY <1>6 DEF MacCommit
<1>7. CASE HandleMonitor \/ DelayEnd
  BY <1>1, <1>7 DEF HandleMonitor, DelayEnd
<1>8. CASE RelayTick
  BY <1>8 DEF RelayTick
<1>9. CASE UNCHANGED allVars
  BY <1>9 DEF allVars, relayVars
<1> QED
  BY <1>2, <1>3, <1>4, <1>5, <1>6, <1>7, <1>8, <1>9
     DEF RelayNext, MainThread, RMAC_FSM_run, Handlers

\* A monitored packet that is no end node's uplink stays the relay's only event
\* for ever, unless the nextRState its branch leaves unassigned leads astray:
\* the branch neither forgets the event nor asks the PHY for another reception.
THEOREM DeafCorrect ==
  ASSUME ReplyIsShort
  PROVE  RelaySpec => [](Deaf /\ ~stray => [](Deaf \/ stray))
<1>1. Deaf /\ ~stray /\ Together /\ CycleInv /\ [RelayNext]_allVars => Deaf' \/ stray'
  BY DeafStep
<1>2. stray /\ [RelayNext]_allVars => stray'
  BY StrayStep
<1> QED
  BY <1>1, <1>2, WaitInvariant, PTL DEF RelaySpec
=============================================================================
