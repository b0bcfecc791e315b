------------------------------ MODULE RelayMAC -------------------------------
(***************************************************************************)
(* The relay: the state machine of LoRa_RMAC_FSM.cpp and the main loop of  *)
(* main.cpp over the PHY built with RMAC_ON, whose indicateRxFail takes    *)
(* the place of repeatFlag.                                                *)
(*                                                                         *)
(* The main thread runs RMAC_FSM_run statement by statement (rpc) while    *)
(* the PHY is between two of its passes (pc = "main"); the handlers of the *)
(* two Timeouts run between any two of these statements.                   *)
(***************************************************************************)
EXTENDS LoRaPHY

CONSTANTS
  MonitorPeriod,   \* seconds to the next monitoring: tx.attach(.., 5)
  MonitorParams,   \* where end nodes send: BW, SF, Fq
  RelayParams      \* where the relay forwards: 922300000

ASSUME RelayAssumption ==
  /\ MonitorPeriod \in Nat \ {0}
  /\ MonitorParams \in Params /\ RelayParams \in Params
  /\ Requests = {"FSM", "TX", "RX"} /\ ClientPoints = {"main"}

VARIABLES
  presentRState, nextRState, triggeredREvent,
  macRepeat,       \* repeatFlag of LoRa_RMAC_FSM.cpp
  pktStat,         \* the status relay_msg's packet begins with
  stray,           \* has an unassigned nextRState ever led astray?
  monitorTimer,    \* tx of main.cpp
  delayTimer,      \* RMACdelayTimer: one millisecond, due at once or Off
  rpc              \* next statement of RMAC_FSM_run, "phy" outside of it

macVars == <<presentRState, nextRState, triggeredREvent, macRepeat, pktStat, stray>>
macTimers == <<monitorTimer, delayTimer>>
relayVars == <<macVars, macTimers, rpc>>
allVars == <<vars, relayVars>>

RStates == {"RMAC_IDLE", "RMAC_MONITOR", "RMAC_CLEAR", "RMAC_RELAY"}
REvents == {"NULL", "PREPARE_MONITOR", "DELAY_END", "DETECT", "DETECT_FAIL",
            "RECEIVE", "RECEIVE_FAIL"}
RLabels == {"phy", "test", "prepare", "listen", "forward", "reply", "forget",
            "commit"}

\* An uplink, a relayed uplink, a reply to an end node, a reply to a relay.
Statuses == {"00", "01", "10", "11"}

\* RMAC_init; the first pass of RMAC_FSM_run finds nothing to do.
RelayInit ==
  /\ Init
  /\ presentRState = "RMAC_IDLE" /\ nextRState = "RMAC_IDLE"
  /\ triggeredREvent = "NULL" /\ macRepeat = FALSE /\ pktStat = "00"
  /\ stray = FALSE
  /\ monitorTimer = MonitorPeriod /\ delayTimer = Off
  /\ rpc = "phy"
-----------------------------------------------------------------------------
(***************************************************************************)
(* What the PHY tells the relay, in its own passes.                        *)
(***************************************************************************)
\* PHYRxDoneInterrupt: outside of its two waiting states the relay drops it.
PHYRxDoneInterrupt ==
  /\ triggeredREvent' = CASE presentRState = "RMAC_RELAY"   -> "RECEIVE"
                          [] presentRState = "RMAC_MONITOR" -> "DETECT"
                          [] OTHER                          -> triggeredREvent
  /\ IF presentRState \in {"RMAC_RELAY", "RMAC_MONITOR"}
     THEN pktStat' \in Statuses ELSE UNCHANGED pktStat

\* PHYRxFailInterrupt
PHYRxFailInterrupt ==
  /\ triggeredREvent' = CASE presentRState = "RMAC_RELAY"   -> "RECEIVE_FAIL"
                          [] presentRState = "RMAC_MONITOR" -> "DETECT_FAIL"
                          [] OTHER                          -> triggeredREvent
  /\ UNCHANGED pktStat

\* indicateRxDone and indicateRxFail; the failure of a first window is not
\* reported.
Indications ==
  CASE At("deliver") /\ pc' = "finish" -> PHYRxDoneInterrupt
    [] At("failed") /\ pc' = "finish" -> PHYRxFailInterrupt
    [] OTHER -> UNCHANGED <<triggeredREvent, pktStat>>

PHYPass ==
  /\ PHYStep
  /\ Indications
  /\ UNCHANGED <<presentRState, nextRState, macRepeat, stray, macTimers, rpc>>
-----------------------------------------------------------------------------
(***************************************************************************)
(* The main thread: RMAC_FSM_run, and the rest of the loop of main.        *)
(***************************************************************************)
MacAt(label) == At("main") /\ rpc = label
MacGo(label, s) == rpc' = label /\ nextRState' = s /\ UNCHANGED stray

\* The end of main's loop: back in RMAC_IDLE the next monitoring is planned.
RelayCheck ==
  /\ MacAt("phy")
  /\ monitorTimer' = IF presentRState = "RMAC_IDLE" /\ macRepeat
                     THEN MonitorPeriod ELSE monitorTimer
  /\ rpc' = "test"
  /\ UNCHANGED <<vars, macVars, delayTimer>>

\* nextRState has no initial value and some branches assign none: it may be
\* what the last pass left there, or anything.
Unassigned(label) ==
  /\ rpc' = label
  /\ nextRState' \in RStates \union {Unknown}
  /\ stray' = (stray \/ nextRState' # presentRState)

\* Mutated form: repeatFlag is not reset.
TestIdle_KeepsRepeat ==
  /\ CASE triggeredREvent = "DELAY_END" -> MacGo("listen", "RMAC_MONITOR")
       [] triggeredREvent = "PREPARE_MONITOR" -> Unassigned("prepare")
       [] OTHER -> MacGo("commit", "RMAC_IDLE")
  /\ UNCHANGED macRepeat

TestIdle ==
  /\ macRepeat' = FALSE
  /\ CASE triggeredREvent = "DELAY_END" -> MacGo("listen", "RMAC_MONITOR")
       [] triggeredREvent = "PREPARE_MONITOR" -> Unassigned("prepare")
       [] OTHER -> MacGo("commit", "RMAC_IDLE")

\* Mutated form: a reply heard while monitoring is passed on.
TestMonitor_PassesReplies ==
  CASE triggeredREvent = "DETECT" ->
         /\ CASE pktStat = "00" -> MacGo("forward", "RMAC_RELAY")
              [] pktStat = "11" -> MacGo("reply", "RMAC_IDLE")
              [] OTHER          -> Unassigned("commit")
         /\ UNCHANGED macRepeat
    [] triggeredREvent = "DETECT_FAIL" ->
         MacGo("forget", "RMAC_IDLE") /\ macRepeat' = TRUE
    [] OTHER -> MacGo("commit", "RMAC_MONITOR") /\ UNCHANGED macRepeat

\* A packet that is no end node's uplink is neither forwarded nor forgotten.
\* Nobody sets RMACe_CONVERT_REQ.
TestMonitor ==
  CASE triggeredREvent = "DETECT" ->
         /\ IF pktStat = "00" THEN MacGo("forward", "RMAC_RELAY")
                              ELSE Unassigned("commit")
         /\ UNCHANGED macRepeat
    [] triggeredREvent = "DETECT_FAIL" ->
         MacGo("forget", "RMAC_IDLE") /\ macRepeat' = TRUE
    [] OTHER -> MacGo("commit", "RMAC_MONITOR") /\ UNCHANGED macRepeat

\* Mutated form: the relay forgets to plan the next monitoring.
TestRelay_NoRepeat ==
  CASE triggeredREvent = "RECEIVE" ->
         /\ IF pktStat = "11" THEN MacGo("reply", "RMAC_IDLE")
                              ELSE MacGo("commit", "RMAC_IDLE")
         /\ UNCHANGED macRepeat
    [] triggeredREvent = "RECEIVE_FAIL" ->
         MacGo("forget", "RMAC_IDLE") /\ UNCHANGED macRepeat
    [] OTHER -> MacGo("commit", "RMAC_RELAY") /\ UNCHANGED macRepeat

\* A packet that is no reply to a relay ends the wait without repeatFlag.
TestRelay ==
  CASE triggeredREvent = "RECEIVE" ->
         /\ IF pktStat = "11" THEN MacGo("reply", "RMAC_IDLE")
                              ELSE MacGo("commit", "RMAC_IDLE")
         /\ UNCHANGED macRepeat
    [] triggeredREvent = "RECEIVE_FAIL" ->
         MacGo("forget", "RMAC_IDLE") /\ macRepeat' = TRUE
    [] OTHER -> MacGo("commit", "RMAC_RELAY") /\ UNCHANGED macRepeat

\* Nobody sets RMACe_CLEARED.
TestClear == MacGo("commit", "RMAC_CLEAR") /\ UNCHANGED macRepeat

\* The switch on presentRState; any value that is no enumerator takes IDLE's.
Test ==
  /\ MacAt("test")
  /\ CASE presentRState = "RMAC_MONITOR" -> TestMonitor
       [] presentRState = "RMAC_RELAY"   -> TestRelay
       [] presentRState = "RMAC_CLEAR"   -> TestClear
       [] OTHER                          -> TestIdle
  /\ UNCHANGED <<vars, presentRState, triggeredREvent, pktStat, macTimers>>

\* What the statements below leave alone besides the PHY's own state.
PHYOwn == <<presentState, nextState, rxNum, rxErr, repeatFlag, dl, dlPayload,
            threadVars, timerVars, radioVars>>

Prepare ==
  /\ MacAt("prepare")
  /\ delayTimer' = 0
  /\ PHY_setRxSlot(MonitorParams)
  /\ rpc' = "forget"
  /\ UNCHANGED <<PHYOwn, eventFlag, currentStatus, ul, ulPayload, macVars,
                 monitorTimer>>

\* PHY_setWindowSize(0, 10000) sets window_ms exactly when the request is taken.
ListenRx ==
  /\ MacAt("listen")
  /\ PHY_indicateEvent("RX")
  /\ rpc' = "forget"
  /\ UNCHANGED <<PHYOwn, clientVars, macVars, macTimers>>

\* Mutated form: the forwarded packet keeps its status.
ForwardUl_SameStatus ==
  /\ MacAt("forward")
  /\ UNCHANGED pktStat
  /\ PHY_configUlPayload(RelayParams) /\ PHY_indicateEvent("FSM")
  /\ rpc' = "forget"
  /\ UNCHANGED <<PHYOwn, slot, presentRState, nextRState, triggeredREvent,
                 macRepeat, stray, macTimers>>

\* Mutated form: the uplink is configured but not requested.
ForwardUl_NoRequest ==
  /\ MacAt("forward")
  /\ pktStat' = "01"
  /\ PHY_configUlPayload(RelayParams)
  /\ rpc' = "forget"
  /\ UNCHANGED <<PHYOwn, eventFlag, currentStatus, slot, presentRState,
                 nextRState, triggeredREvent, macRepeat, stray, macTimers>>

\* setPktStat(01), then an uplink of the relay's own.
ForwardUl ==
  /\ MacAt("forward")
  /\ pktStat' = "01"
  /\ PHY_configUlPayload(RelayParams) /\ PHY_indicateEvent("FSM")
  /\ rpc' = "forget"
  /\ UNCHANGED <<PHYOwn, slot, presentRState, nextRState, triggeredREvent,
                 macRepeat, stray, macTimers>>

\* Mutated form: the reply is requested as an uplink.
PassReply_AsUplink ==
  /\ MacAt("reply")
  /\ pktStat' = "11"
  /\ PHY_configUlPayload(MonitorParams) /\ PHY_indicateEvent("FSM")
  /\ macRepeat' = TRUE
  /\ rpc' = "commit"
  /\ UNCHANGED <<PHYOwn, slot, presentRState, nextRState, triggeredREvent, stray,
                 macTimers>>

\* setPktStat(11), then a transmission without windows.  RMACe_RECEIVE stays.
PassReply ==
  /\ MacAt("reply")
  /\ pktStat' = "11"
  /\ PHY_configUlPayload(MonitorParams) /\ PHY_indicateEvent("TX")
  /\ macRepeat' = TRUE
  /\ rpc' = "commit"
  /\ UNCHANGED <<PHYOwn, slot, presentRState, nextRState, triggeredREvent, stray,
                 macTimers>>

\* triggeredREvent = RMACe_NULL, whatever a handler has just put there.
Forget ==
  /\ MacAt("forget")
  /\ triggeredREvent' = "NULL"
  /\ rpc' = "commit"
  /\ UNCHANGED <<vars, presentRState, nextRState, macRepeat, pktStat, stray, macTimers>>

\* The end of RMAC_FSM_run; PHY_FSM_run is next.
MacCommit ==
  /\ MacAt("commit")
  /\ presentRState' = nextRState
  /\ rpc' = "phy"
  /\ MainLoop
  /\ UNCHANGED <<nextRState, triggeredREvent, macRepeat, pktStat, stray, macTimers>>

RMAC_FSM_run ==
  \/ Test \/ Prepare \/ ListenRx \/ ForwardUl \/ PassReply \/ Forget \/ MacCommit
-----------------------------------------------------------------------------
(***************************************************************************)
(* Handlers and time.                                                      *)
(***************************************************************************)
\* handleMonitor, indicateRMACMonitoring
HandleMonitor ==
  /\ Interruptible /\ monitorTimer = 0
  /\ monitorTimer' = Off
  /\ triggeredREvent' = "PREPARE_MONITOR"
  /\ UNCHANGED <<vars, presentRState, nextRState, macRepeat, pktStat, stray,
                 delayTimer, rpc>>

\* A millisecond outlasts the few statements of a prompt pass.
DelayEnd ==
  /\ Interruptible /\ delayTimer = 0
  /\ PromptMain => rpc = "phy"
  /\ delayTimer' = Off
  /\ triggeredREvent' = "DELAY_END"
  /\ UNCHANGED <<vars, presentRState, nextRState, macRepeat, pktStat, stray,
                 monitorTimer, rpc>>

\* A packet that was monitored and is no end node's uplink (nor one whose
\* status ForwardUl has just changed).
ForeignDetected ==
  /\ presentRState = "RMAC_MONITOR" /\ triggeredREvent = "DETECT"
  /\ pktStat # "00" /\ rpc # "forget"

\* A packet that came in the wait and is no reply to a relay.
ForeignReceived ==
  presentRState = "RMAC_RELAY" /\ triggeredREvent = "RECEIVE" /\ pktStat # "11"

\* The relay has handled every event too.
MacQuiet ==
  /\ ~macRepeat
  /\ CASE presentRState = "RMAC_MONITOR" ->
            triggeredREvent \notin {"DETECT", "DETECT_FAIL"} \/ ForeignDetected
       [] presentRState = "RMAC_RELAY" ->
            triggeredREvent \notin {"RECEIVE", "RECEIVE_FAIL"}
       [] presentRState = "RMAC_CLEAR" -> TRUE
       [] OTHER -> triggeredREvent \notin {"PREPARE_MONITOR", "DELAY_END"}

RelayTick ==
  /\ MayTick /\ 0 \notin {monitorTimer, delayTimer}
  /\ PromptMain => MacQuiet
  /\ TickTimers /\ monitorTimer' = Count(monitorTimer)
  /\ UNCHANGED <<phyVars, clientVars, threadVars, radioVars, macVars,
                 delayTimer, rpc>>

MainThread == RelayCheck \/ RMAC_FSM_run
Handlers == HandleMonitor \/ DelayEnd

RelayNext == PHYPass \/ MainThread \/ Handlers \/ RelayTick

RelaySpec == RelayInit /\ [][RelayNext]_allVars

\* As in LoRaPHY, for the loop of main.cpp, its handlers, the clock and frames.
Untouched == UNCHANGED <<presentRState, nextRState, macRepeat, stray, macTimers, rpc>>
RelayFairness ==
  /\ WF_allVars((PHY_FSM_run /\ Indications /\ Untouched) \/ MainThread)
  /\ SF_allVars(TimerInterrupt /\ Indications /\ Untouched)
  /\ SF_allVars(HandleMonitor) /\ SF_allVars(DelayEnd) /\ SF_allVars(RelayTick)
  /\ SF_allVars(Frame /\ Indications /\ Untouched)
  /\ SF_allVars(FrameEnd /\ Indications /\ Untouched)
  /\ SF_allVars(TxCompletes /\ HalTxDone /\ Indications /\ Untouched)

FairRelaySpec == RelaySpec /\ RelayFairness
-----------------------------------------------------------------------------
(***************************************************************************)
(* Properties.                                                             *)
(***************************************************************************)
\* Every variable keeps its type.
RelayTypeOK ==
  /\ TypeOK
  /\ presentRState \in RStates \union {Unknown}
  /\ nextRState \in RStates \union {Unknown}
  /\ triggeredREvent \in REvents /\ macRepeat \in BOOLEAN /\ stray \in BOOLEAN
  /\ pktStat \in Statuses /\ rpc \in RLabels
  /\ monitorTimer \in Off..MonitorPeriod /\ delayTimer \in {Off, 0}

\* While the next monitoring is planned none is under way, and between its
\* first event and its last one nothing else starts one: the one event
\* variable never has two events to hold, and no cycle runs into another.
OneCycle ==
  /\ monitorTimer # Off =>
       /\ presentRState = "RMAC_IDLE" /\ delayTimer = Off
       /\ triggeredREvent \notin {"PREPARE_MONITOR", "DELAY_END"}
  /\ delayTimer # Off => triggeredREvent \in {"NULL", "PREPARE_MONITOR"}
  /\ triggeredREvent \in {"DETECT", "DETECT_FAIL"} => delayTimer = Off

\* Is the relay about to leave the state it waits in?
Leaving ==
  rpc \in {"reply", "forget", "commit"} /\ nextRState # presentRState

\* The relay waits only for what the PHY is about to give it: a request the
\* PHY had dropped (PHY_indicateEvent outside of PHY_IDLE) would leave it
\* waiting for ever.
WaitsForPHY ==
  /\ presentRState = "RMAC_MONITOR" /\ ~stray =>
       \/ Has("RX_Only_Req") \/ triggeredREvent \in {"DETECT", "DETECT_FAIL"}
       \/ Leaving
  /\ presentRState = "RMAC_RELAY" /\ ~stray =>
       \/ Has("TX_Req") \/ triggeredREvent \in {"RECEIVE", "RECEIVE_FAIL"}
       \/ Leaving

\* The relay transmits nothing but the uplink it has taken, marked as relayed
\* and where relays send, and the reply to it, where end nodes listen.
TransmitsOnlyRelayed ==
  [][link # "tx" /\ link' = "tx" =>
       \/ /\ presentRState = "RMAC_RELAY"
          /\ pktStat = "01" /\ cfg = RelayParams
       \/ /\ presentRState = "RMAC_IDLE"
          /\ pktStat = "11" /\ cfg = MonitorParams]_allVars

\* The cycle of the relay, read off its machine and the PHY's.
RelayPhase ==
  IF stray THEN "lost"
  ELSE CASE presentRState = "RMAC_MONITOR" -> "listening"
         [] presentRState = "RMAC_RELAY" ->
              IF Has("TX_Req") /\ presentState \in {"PHY_IDLE", "PHY_TX_RUN"}
              THEN "forwarding" ELSE "waiting"
         [] OTHER -> IF Has("TX_Only_Req") THEN "replying" ELSE "idle"

\* The relay forwards and replies as RelayCycle says.
Cycles == INSTANCE RelayCycle WITH phase <- RelayPhase
ImplementsRelayCycle == Cycles!Spec

\* A relay falls silent only after a packet whose status it does not expect,
\* or when an unassigned nextRState leads it astray: apart from that it
\* monitors again and again.
KeepsMonitoring ==
  []<>(presentState = "PHY_RX_RUN" /\ presentRState = "RMAC_MONITOR")
    \/ <>(ForeignDetected \/ ForeignReceived \/ stray)

\* What the relay takes it passes on: an uplink to the gateway, a reply to the
\* end node.
PassesOn ==
  /\ presentRState = "RMAC_MONITOR" /\ triggeredREvent = "DETECT" /\ pktStat = "00"
     /\ ~stray ~> link = "tx" /\ pktStat = "01"
  /\ presentRState = "RMAC_RELAY" /\ triggeredREvent = "RECEIVE" /\ pktStat = "11"
     /\ ~stray ~> link = "tx" /\ pktStat = "11" /\ presentRState = "RMAC_IDLE"
=============================================================================
