--------------------------- MODULE EndNode_proof ----------------------------
(***************************************************************************)
(* Proofs about the end node: it is one of the clients the theorems of     *)
(* LoRaPHY_proof are about, so they hold of it, for every period.          *)
(***************************************************************************)
EXTENDS EndNode, LoRaPHY_proof

\* A step of the node is a step of the PHY with its clients, or none of it.
LEMMA NodeStep == [NodeNext]_allVars => [Next]_vars
<1> SUFFICES ASSUME [NodeNext]_allVars PROVE [Next]_vars
  OBVIOUS
<1>1. CASE PHYStep /\ UNCHANGED nodeVars
  BY <1>1 DEF Next
<1>2. CASE MainCheck
  BY <1>2 DEF MainCheck, Next
<1>3. CASE HandlerTxTimeout
  <2>1. PICK p \in Params : PHY_configUlPayload(p)
    BY <1>3 DEF HandlerTxTimeout
  <2>2. "FSM" \in Requests \cap {"FSM", "TX"}
    BY EndNodeAssumption
  <2>3. Client
    BY <1>3, <2>1, <2>2 DEF HandlerTxTimeout, Client
  <2> QED
    BY <2>3 DEF Next
<1>4. CASE NodeTick
  BY <1>4 DEF NodeTick, Tick, Next
<1>5. CASE UNCHANGED allVars
  BY <1>5 DEF allVars
<1> QED
  BY <1>1, <1>2, <1>3, <1>4, <1>5 DEF NodeNext

\* The end node is a client of the PHY like any other that requests uplinks.
THEOREM NodeRefinesPHY == NodeSpec => Spec
<1>1. NodeInit => Init
  BY DEF NodeInit
<1> QED
  BY <1>1, NodeStep, PTL DEF NodeSpec, Spec

\* So its uplinks are served as ClassA says ...
THEOREM NodeServed == NodeSpec => ImplementsClassA
  BY NodeRefinesPHY, ClassACorrect, EndNodeAssumption

\* ... and its PHY is clean whenever it is back in PHY_IDLE.
THEOREM NodeClean == NodeSpec => []IdleIsClean
  BY NodeRefinesPHY, IdleCorrect, EndNodeAssumption DEF Callers

NodeInv == NodeTypeOK /\ OneHandler

\* Every step of the node keeps its types and its one handler.
LEMMA HandlerStep == NodeInv /\ [NodeNext]_allVars => NodeInv'
<1> SUFFICES ASSUME NodeInv, [NodeNext]_allVars PROVE NodeInv'
  OBVIOUS
<1>1. TypeOK'
  BY NodeStep, TypeStep DEF NodeInv, NodeTypeOK
<1> USE EndNodeAssumption DEF NodeInv, NodeTypeOK, OneHandler, Off
<1>2. CASE UNCHANGED nodeVars
  BY <1>1, <1>2 DEF nodeVars
<1>3. CASE MainCheck
  <2>1. msg_pended' \in BOOLEAN
    BY <1>3, Zenon DEF MainCheck, nodeVars
  <2> QED
    BY <1>1, <1>3, <2>1 DEF MainCheck, nodeVars
<1>4. CASE HandlerTxTimeout
  BY <1>1, <1>4 DEF HandlerTxTimeout
<1>5. CASE NodeTick
  BY <1>1, <1>5 DEF NodeTick, Count
<1> QED
  BY <1>2, <1>3, <1>4, <1>5 DEF NodeNext, allVars, nodeVars

\* The node starts with one handler.
LEMMA HandlerInit == NodeInit => NodeInv
<1>1. msg_pended = FALSE => msg_pended \in BOOLEAN
  BY Zenon
<1> QED
  BY <1>1, InitTypes, EndNodeAssumption
     DEF NodeInit, NodeInv, NodeTypeOK, OneHandler, Off

\* The node's variables keep their types, for every period.
THEOREM NodeTypeCorrect == NodeSpec => []NodeTypeOK
<1>1. NodeInv => NodeTypeOK
  BY DEF NodeInv
<1> QED
  BY <1>1, HandlerInit, HandlerStep, PTL DEF NodeSpec

\* The handler is attached or its request is pending, for every period and
\* whatever the PHY does: there are never two attached handlers, and never none
\* with no request to attach the next.
THEOREM HandlerCorrect == NodeSpec => []OneHandler
<1>1. NodeInv => OneHandler
  BY DEF NodeInv
<1> QED
  BY <1>1, HandlerInit, HandlerStep, PTL DEF NodeSpec
-----------------------------------------------------------------------------
(***************************************************************************)
(* The first window listens where the uplink was sent although its         *)
(* parameters are read from ul, which the handler rewrites: only time      *)
(* keeps the handler from running between the two.  The invariant follows  *)
(* the handler's timer through a cycle; the cycle begins at the latest     *)
(* when that timer starts and its first window opens before it goes off.   *)
(***************************************************************************)
CycleIsShort == PromptMain /\ TxTimeout + RxDelay1 < Period

\* The handler will not run for the next t seconds.
NoHandlerFor(t) == handlerTimer = Off \/ handlerTimer > t

\* The first delay has been attached and its window has not begun to open.
FirstDelay ==
  \/ presentState = "PHY_TX_RUN" /\ Ends("PHY_RX_WAIT")
  \/ presentState = "PHY_RX_WAIT" /\ ~Opening /\ rxNum = 0

\* An uplink is sent with the parameters in ul.
InvUplink ==
  /\ ~Has("TX_Only_Req")
  /\ presentState = "PHY_IDLE" /\ Has("TX_Req") /\ ~Ends("PHY_TX_RUN") =>
       ulPayload /\ NoHandlerFor(Period - 1)
  /\ pc = "txGo" => cfg = ul
  /\ link = "tx" =>
       ul = txCfg /\ wdTimer >= 0 /\ NoHandlerFor(wdTimer + RxDelay1)
  /\ presentState \in {"PHY_IDLE", "PHY_TX_RUN"} /\ Has("TX_Done") =>
       ul = txCfg /\ (~Ends("PHY_RX_WAIT") => NoHandlerFor(RxDelay1))
  /\ presentState = "PHY_TX_RUN" /\ pc = "attachDelays" => Has("TX_Done")

\* They are still there when the first delay ends ...
InvDelay ==
  FirstDelay =>
    /\ ul = txCfg
    /\ \/ delay1Timer # Off /\ NoHandlerFor(delay1Timer)
       \/ Has("RX_Delay_End") /\ NoHandlerFor(0)

\* ... and the windows keep what the first one read.
InvWindows ==
  /\ presentState = "PHY_RX_WAIT" =>
       IF pc = "rxConfig" /\ rxNum = 1 THEN ul = txCfg /\ NoHandlerFor(0)
       ELSE /\ rxNum > 0 => dl = txCfg
            /\ Opening /\ pc # "rxConfig" => cfg = txCfg
  /\ presentState = "PHY_RX_RUN" =>
       cfg = txCfg /\ (~Ends("PHY_IDLE") => dl = txCfg)

FollowInv == InvUplink /\ InvDelay /\ InvWindows

\* Every step keeps the handler away from an uplink under way.
LEMMA FollowStep ==
  ASSUME CycleIsShort, FollowInv, CycleInv, NodeInv, [NodeNext]_allVars
  PROVE  FollowInv'
<1> USE ParametersAssumption, EndNodeAssumption
<1> USE DEF CycleIsShort, FollowInv, InvUplink, InvDelay, InvWindows, NoHandlerFor,
        FirstDelay, NodeInv, NodeTypeOK, nodeVars, CycleInv, TypeOK, Common, InIdle,
        InTx, InWait, InRx, CycleEvents, Uplink, RxOnly, DelaysOff, Ends,
        Opening, Labels, PHYStates, PHYEvents, UplinkRequests, RequestFlags,
        Unknown, Off, RxMax, phyVars, clientVars, threadVars, delayVars,
        timerVars, radioVars, At, Has, GoTo, GoOn, Interruptible
<1>1. CASE Run /\ UNCHANGED nodeVars
  BY <1>1 DEF Run, RunIdle, RunTx, RunRxWait, RunRx, Stay
<1>2. CASE TxConfig /\ UNCHANGED nodeVars
  BY <1>2 DEF TxConfig, ConfigureRadio
<1>3. CASE TxGo /\ UNCHANGED nodeVars
  BY <1>3 DEF TxGo, HAL_cmd_transmit
<1>4. CASE TxEnd /\ UNCHANGED nodeVars
  BY <1>4 DEF TxEnd
<1>5. CASE AttachDelays /\ UNCHANGED nodeVars
  BY <1>5 DEF AttachDelays
<1>6. CASE Open /\ UNCHANGED nodeVars
  BY <1>6 DEF Open
<1>7. CASE RxConfig /\ UNCHANGED nodeVars
  BY <1>7 DEF RxConfig, ConfigureRadio
<1>8. CASE RxGo /\ UNCHANGED nodeVars
  BY <1>8 DEF RxGo, HAL_cmd_receive, HAL_isRfActive
<1>9. CASE Detect /\ UNCHANGED nodeVars
  BY <1>9 DEF Detect
<1>10. CASE DetSleep /\ UNCHANGED nodeVars
  BY <1>10 DEF DetSleep, HAL_cmd_Sleep
<1>11. CASE Deliver /\ UNCHANGED nodeVars
  BY <1>11 DEF Deliver
<1>12. CASE FailSleep /\ UNCHANGED nodeVars
  BY <1>12 DEF FailSleep, HAL_cmd_Sleep
<1>13. CASE Failed /\ UNCHANGED nodeVars
  BY <1>13 DEF Failed
<1>14. CASE Finish /\ UNCHANGED nodeVars
  BY <1>14 DEF Finish
<1>15. CASE Load /\ UNCHANGED nodeVars
  BY <1>15 DEF Load
<1>16. CASE Store /\ UNCHANGED nodeVars
  BY <1>16 DEF Store
<1>17. CASE Commit /\ UNCHANGED nodeVars
  BY <1>17 DEF Commit
<1>18. CASE RxDelay1End /\ UNCHANGED nodeVars
  BY <1>18 DEF RxDelay1End, PHYEvent_setEventFlag
<1>19. CASE RxDelay2End /\ UNCHANGED nodeVars
  BY <1>19 DEF RxDelay2End, PHYEvent_setEventFlag
<1>20. CASE ExpireWindow /\ UNCHANGED nodeVars
  BY <1>20 DEF ExpireWindow, PHYEvent_setEventFlag
<1>21. CASE HalTxTimeout /\ UNCHANGED nodeVars
  BY <1>21 DEF HalTxTimeout
<1>22. CASE HalTxDone /\ UNCHANGED nodeVars
  BY <1>22 DEF HalTxDone, PHYEvent_setEventFlag
<1>23. CASE HalRxDone /\ UNCHANGED nodeVars
  BY <1>23 DEF HalRxDone, PHYEvent_setEventFlag
<1>24. CASE HalRxCrcError /\ UNCHANGED nodeVars
  BY <1>24 DEF HalRxCrcError, PHYEvent_setEventFlag
<1>25. CASE Preamble /\ UNCHANGED nodeVars
  BY <1>25 DEF Preamble
<1>26. CASE Frame /\ UNCHANGED nodeVars
  BY <1>26 DEF Frame
<1>27. CASE FalsePreamble /\ UNCHANGED nodeVars
  BY <1>27 DEF FalsePreamble
<1>28. CASE MainCheck
  BY <1>28 DEF MainCheck, MainLoop, CycleOver
<1>29. CASE HandlerTxTimeout
  BY <1>29 DEF HandlerTxTimeout, PHY_indicateEvent, PHYEvent_setEventFlag,
     RequestFlag, StatusOf, PHY_configUlPayload
<1>30. CASE NodeTick
  BY <1>30 DEF NodeTick, TickTimers, MayTick, Prompt, Quiet, Count
<1>31. CASE UNCHANGED allVars
  BY <1>31 DEF allVars, vars
<1> QED
  BY <1>1, <1>2, <1>3, <1>4, <1>5, <1>6, <1>7, <1>8, <1>9, <1>10, <1>11,
     <1>12, <1>13, <1>14, <1>15, <1>16, <1>17, <1>18, <1>19, <1>20, <1>21,
     <1>22, <1>23, <1>24, <1>25, <1>26, <1>27, <1>28, <1>29, <1>30, <1>31
     DEF NodeNext, PHYStep, PHY_FSM_run, TimerInterrupt, FrameEnd, Air

\* The node starts with no uplink under way.
LEMMA FollowInit == NodeInit => FollowInv
  BY DEF NodeInit, Init, FollowInv, InvUplink, InvDelay, InvWindows, FirstDelay,
         Ends, Has

\* The receive windows listen where the uplink was sent, for every period that
\* is longer than the watchdog of a transmission and the first delay together.
THEOREM FollowCorrect ==
  ASSUME CycleIsShort
  PROVE  NodeSpec => []WindowsFollowUplink
<1>1. CycleInv /\ NodeInv /\ FollowInv /\ [NodeNext]_allVars => FollowInv'
  BY FollowStep
<1>2. FollowInv => WindowsFollowUplink
  BY DEF FollowInv, InvWindows, WindowsFollowUplink
<1>3. Callers
  BY EndNodeAssumption DEF Callers
<1> QED
  BY <1>1, <1>2, <1>3, FollowInit, HandlerInit, HandlerStep, NodeRefinesPHY,
     CycleInvariant, PTL DEF NodeSpec
=============================================================================
