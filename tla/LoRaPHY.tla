------------------------------ MODULE LoRaPHY -------------------------------
(***************************************************************************)
(* The PHY state machine of LoRa_PHY_FSM.cpp, built with PHY_ONLY, over    *)
(* the service the HAL gives it (RadioService, which LoRaHAL implements):  *)
(* its commands are atomic here, and confirmations reach the PHY's         *)
(* handlers only while an operation runs.                                  *)
(*                                                                         *)
(* The main thread runs PHY_FSM_run over and over, statement by statement. *)
(* Timer and radio handlers run to completion at the statements in         *)
(* InterruptPoints.  Time advances in seconds, the unit the code rounds    *)
(* its delays and windows to.                                              *)
(***************************************************************************)
EXTENDS Integers

CONSTANTS
  Requests,         \* what clients ask for through PHY_indicateEvent
  Params,           \* radio parameters: bandwidth, data rate and channel
  RxDelay1,         \* delayms, in seconds; the second delay is one longer
  Window1, Window2, \* window_1_ms, window_2_ms
  WindowRx,         \* window_ms, for a reception without an uplink
  TxTimeout,        \* the watchdog of a transmission
  InterruptPoints,  \* statements of the main thread a handler may precede
  ClientPoints,     \* the same for the handlers, or the calls, of clients
  PromptMain,       \* does the main thread outrun the clock and the frames?
  TxCompletes,      \* does the radio finish every transmission in time?
  FramesComplete    \* does a frame follow every preamble the modem detects?

RequestNames == {"TX", "RX", "FSM", "CLEAR"}

Labels == {"run", "txConfig", "txGo", "txEnd", "attachDelays", "open",
           "rxConfig", "rxGo", "detect", "detSleep", "deliver", "failSleep",
           "failed", "finish", "load", "store", "commit", "main"}

ASSUME ParametersAssumption ==
  /\ Requests \subseteq RequestNames
  /\ RxDelay1 \in Nat /\ Window1 \in Nat /\ Window2 \in Nat
  /\ WindowRx \in Nat /\ TxTimeout \in Nat \ {0}
  /\ InterruptPoints \subseteq Labels /\ ClientPoints \subseteq Labels
  /\ PromptMain \in BOOLEAN /\ TxCompletes \in BOOLEAN
  /\ FramesComplete \in BOOLEAN

VARIABLES
  \* the PHY's state
  presentState, nextState, eventFlag, currentStatus, rxNum, rxErr, repeatFlag,
  ul, dl, slot,        \* parameters of the uplink, the downlink, RX slots
  ulPayload,           \* has a payload been configured?
  dlPayload,           \* what dl.PHYLoRaPacket describes
  \* the main thread: its next statement, a value it loaded from eventFlag
  pc, loaded,
  \* timers: seconds left, 0 when due, Off when detached
  delay1Timer, delay2Timer, windowTimer, wdTimer,
  \* the HAL's service and the air
  link, cfg, txCfg,    \* the operation, its parameters, the last uplink's
  signal               \* what the modem is synchronised to

phyVars == <<presentState, nextState, eventFlag, currentStatus, rxNum, rxErr,
             repeatFlag, dl, dlPayload>>
clientVars == <<ul, slot, ulPayload>>
threadVars == <<pc, loaded>>
delayVars == <<delay1Timer, delay2Timer>>
timerVars == <<delayVars, windowTimer, wdTimer>>
radioVars == <<link, cfg, txCfg, signal>>
vars == <<phyVars, clientVars, threadVars, timerVars, radioVars>>

Off == -1
RxMax == 2

PHYStates == {"PHY_IDLE", "PHY_TX_RUN", "PHY_RX_WAIT", "PHY_RX_RUN"}
UplinkRequests == {"TX_Req", "TX_Only_Req"}
RequestFlags == UplinkRequests \union {"RX_Only_Req"}
PHYEvents == RequestFlags \union
             {"TX_Fail", "TX_Done", "RX_Delay_End", "RX_Detect", "RX_Fail"}

\* A value no enumerator names: what an unassigned nextState may hold.
Unknown == "PHY_UNKNOWN"

\* PHY_FSM_start and PHY_init
Init ==
  /\ presentState = "PHY_IDLE" /\ nextState = "PHY_IDLE"
  /\ eventFlag = {} /\ currentStatus = "PHYs_default"
  /\ rxNum = 0 /\ rxErr = FALSE /\ repeatFlag = TRUE
  /\ ul \in Params /\ dl = ul /\ slot = ul
  /\ ulPayload = FALSE /\ dlPayload = "NULL"
  /\ pc = "run" /\ loaded = {}
  /\ delay1Timer = Off /\ delay2Timer = Off
  /\ windowTimer = Off /\ wdTimer = Off
  /\ link = "idle" /\ cfg = ul /\ txCfg = ul /\ signal = "none"
-----------------------------------------------------------------------------
(***************************************************************************)
(* The commands of the HAL.  All are called by the main thread.            *)
(***************************************************************************)
\* HAL_cmd_SetTxConfig, HAL_cmd_SetRxConfig: a running operation keeps the
\* machine of the HAL in RUN, which refuses the reservation.
ConfigureRadio(p) == cfg' = IF link = "idle" THEN p ELSE cfg

\* HAL_cmd_Sleep
HAL_cmd_Sleep ==
  /\ link' = "idle" /\ wdTimer' = Off /\ signal' = "none"
  /\ UNCHANGED <<cfg, txCfg>>

\* HAL_cmd_receive: refused while an operation runs; clears the buffer that
\* dl.PHYLoRaPacket points into.
HAL_cmd_receive ==
  IF link = "idle"
  THEN /\ link' = "rx"
       /\ dlPayload' = IF dlPayload = "fresh" THEN "stale" ELSE dlPayload
  ELSE UNCHANGED <<link, dlPayload>>

\* HAL_cmd_transmit: refused without a payload or during a transmission;
\* aborts a reception.
HAL_cmd_transmit ==
  IF ulPayload /\ link # "tx"
  THEN /\ link' = "tx" /\ wdTimer' = TxTimeout
       /\ txCfg' = cfg /\ signal' = "none"
  ELSE UNCHANGED <<link, wdTimer, txCfg, signal>>
-----------------------------------------------------------------------------
(***************************************************************************)
(* The main thread: PHY_FSM_run.                                           *)
(***************************************************************************)
At(label) == pc = label
Has(e) == e \in eventFlag
HAL_isRfActive == link # "idle"

GoTo(label) == pc' = label /\ UNCHANGED loaded
GoOn(label, s) == GoTo(label) /\ nextState' = s

\* The test of a state that finds no event it waits for.
Stay(s) == GoOn("commit", s)

RunIdle ==
  IF eventFlag \cap UplinkRequests # {}
  THEN GoOn("txConfig", "PHY_TX_RUN") /\ UNCHANGED <<dl, repeatFlag>>
  ELSE IF Has("RX_Only_Req")
  THEN /\ GoOn("load", "PHY_RX_WAIT")
       /\ dl' = slot /\ repeatFlag' = FALSE
  ELSE Stay("PHY_IDLE") /\ UNCHANGED <<dl, repeatFlag>>

RunTx ==
  IF Has("TX_Fail") THEN GoOn("txEnd", "PHY_IDLE")
  ELSE IF ~Has("TX_Done") THEN Stay("PHY_TX_RUN")
  ELSE IF Has("TX_Only_Req") THEN GoOn("txEnd", "PHY_IDLE")
  ELSE GoOn("attachDelays", "PHY_RX_WAIT")

RunRxWait ==
  IF Has("RX_Delay_End") THEN GoTo("open") /\ UNCHANGED nextState
  ELSE Stay("PHY_RX_WAIT")

RunRx ==
  IF Has("RX_Detect") THEN GoOn("detect", "PHY_IDLE")
  ELSE IF Has("RX_Fail") THEN GoOn("failSleep", "PHY_IDLE")
  ELSE Stay("PHY_RX_RUN")

\* The switch on presentState; any value that is no enumerator takes IDLE's.
Run ==
  /\ At("run")
  /\ CASE presentState = "PHY_TX_RUN"  -> RunTx /\ UNCHANGED <<dl, repeatFlag>>
       [] presentState = "PHY_RX_WAIT" -> RunRxWait /\ UNCHANGED <<dl, repeatFlag>>
       [] presentState = "PHY_RX_RUN"  -> RunRx /\ UNCHANGED <<dl, repeatFlag>>
       [] OTHER                        -> RunIdle
  /\ UNCHANGED <<presentState, eventFlag, currentStatus, rxNum, rxErr,
                 dlPayload, clientVars, timerVars, radioVars>>

\* FSM_transmit_ul ignores what the HAL answers.
TxConfig ==
  /\ At("txConfig")
  /\ ConfigureRadio(ul)
  /\ GoTo("txGo")
  /\ UNCHANGED <<phyVars, clientVars, timerVars, link, txCfg, signal>>

TxGo ==
  /\ At("txGo")
  /\ HAL_cmd_transmit
  /\ repeatFlag' = FALSE
  /\ GoTo("commit")
  /\ UNCHANGED <<presentState, nextState, eventFlag, currentStatus, rxNum, rxErr,
                 dl, dlPayload, clientVars, delayVars, windowTimer, cfg>>

\* The end of a transmission that no reception follows, or that failed: the
\* failure does not set repeatFlag.
TxEnd ==
  /\ At("txEnd")
  /\ repeatFlag' = (repeatFlag \/ ~Has("TX_Fail"))
  /\ eventFlag' = {}
  /\ GoTo("commit")
  /\ UNCHANGED <<presentState, nextState, currentStatus, rxNum, rxErr, dl,
                 dlPayload, clientVars, timerVars, radioVars>>

\* Mutated form: the second delay is a second too long.
AttachDelays_Late ==
  /\ At("attachDelays")
  /\ delay1Timer' = RxDelay1 /\ delay2Timer' = RxDelay1 + 2
  /\ GoTo("commit")
  /\ UNCHANGED <<phyVars, clientVars, windowTimer, wdTimer, radioVars>>

\* FSM_transmit_done
AttachDelays ==
  /\ At("attachDelays")
  /\ delay1Timer' = RxDelay1 /\ delay2Timer' = RxDelay1 + 1
  /\ GoTo("commit")
  /\ UNCHANGED <<phyVars, clientVars, windowTimer, wdTimer, radioVars>>

\* Mutated form: only the first window is ever closed by its timer.
Open_NoSecondTimer ==
  /\ At("open")
  /\ rxErr' = FALSE
  /\ rxNum' = IF Has("TX_Req") THEN (rxNum + 1) % 256 ELSE rxNum
  /\ windowTimer' = IF Has("TX_Req") /\ rxNum = 0 THEN Window1 ELSE Off
  /\ GoTo("rxConfig")
  /\ UNCHANGED <<presentState, nextState, eventFlag, currentStatus, repeatFlag, dl,
                 dlPayload, clientVars, delayVars, wdTimer, radioVars>>

\* The end of a delay opens a window.  Without a request nextState is never
\* assigned.
Open ==
  /\ At("open")
  /\ IF Has("TX_Req")
     THEN /\ rxNum' = (rxNum + 1) % 256 /\ rxErr' = FALSE
          /\ windowTimer' = IF rxNum = 0 THEN Window1 ELSE Window2
          /\ GoTo("rxConfig") /\ UNCHANGED nextState
     ELSE IF Has("RX_Only_Req")
     THEN /\ rxErr' = FALSE /\ windowTimer' = WindowRx
          /\ GoTo("rxConfig") /\ UNCHANGED <<rxNum, nextState>>
     ELSE /\ nextState' \in PHYStates \union {Unknown}
          /\ GoTo("load") /\ UNCHANGED <<rxNum, rxErr, windowTimer>>
  /\ UNCHANGED <<presentState, eventFlag, currentStatus, repeatFlag, dl,
                 dlPayload, clientVars, delayVars, wdTimer, radioVars>>

\* Mutated form: the first window listens where the last one did.
RxConfig_OldParams ==
  /\ At("rxConfig")
  /\ ConfigureRadio(dl)
  /\ GoTo("rxGo")
  /\ UNCHANGED <<phyVars, clientVars, timerVars, link, txCfg, signal>>

\* FSM_receive_dl: the first window listens where the uplink was sent.
RxConfig ==
  /\ At("rxConfig")
  /\ IF rxNum \notin 1..RxMax /\ currentStatus = "PHYs_default"
     THEN GoOn("load", "PHY_IDLE") /\ UNCHANGED <<dl, cfg>>
     ELSE /\ dl' = IF rxNum = 1 THEN ul ELSE dl
          /\ ConfigureRadio(dl')
          /\ GoTo("rxGo") /\ UNCHANGED nextState
  /\ UNCHANGED <<presentState, eventFlag, currentStatus, rxNum, rxErr, repeatFlag,
                 dlPayload, clientVars, timerVars, link, txCfg, signal>>

RxGo ==
  /\ At("rxGo")
  /\ IF HAL_isRfActive THEN UNCHANGED <<link, dlPayload>> ELSE HAL_cmd_receive
  /\ GoOn("load", "PHY_RX_RUN")
  /\ UNCHANGED <<presentState, eventFlag, currentStatus, rxNum, rxErr, repeatFlag,
                 dl, clientVars, timerVars, cfg, txCfg, signal>>

\* Mutated forms: the delays go on; the count of windows is kept.
Detect_DelaysGoOn ==
  /\ At("detect")
  /\ rxNum' = IF Has("TX_Req") THEN 0 ELSE rxNum
  /\ rxErr' = FALSE /\ windowTimer' = Off
  /\ GoTo("detSleep")
  /\ UNCHANGED <<presentState, nextState, eventFlag, currentStatus, repeatFlag,
                 dl, dlPayload, clientVars, delayVars, wdTimer, radioVars>>

Detect_KeepsCount ==
  /\ At("detect")
  /\ IF Has("TX_Req") THEN delay1Timer' = Off /\ delay2Timer' = Off
     ELSE UNCHANGED delayVars
  /\ rxErr' = FALSE /\ windowTimer' = Off
  /\ GoTo("detSleep")
  /\ UNCHANGED <<presentState, nextState, eventFlag, currentStatus, rxNum, repeatFlag,
                 dl, dlPayload, clientVars, wdTimer, radioVars>>

\* A downlink: close everything, sleep, hand it up, forget the events.
Detect ==
  /\ At("detect")
  /\ IF Has("TX_Req")
     THEN rxNum' = 0 /\ delay1Timer' = Off /\ delay2Timer' = Off
     ELSE UNCHANGED <<rxNum, delayVars>>
  /\ rxErr' = FALSE /\ windowTimer' = Off
  /\ GoTo("detSleep")
  /\ UNCHANGED <<presentState, nextState, eventFlag, currentStatus, repeatFlag,
                 dl, dlPayload, clientVars, wdTimer, radioVars>>

DetSleep ==
  /\ At("detSleep")
  /\ HAL_cmd_Sleep
  /\ GoTo("deliver")
  /\ UNCHANGED <<phyVars, clientVars, delayVars, windowTimer>>

\* indicateRxDone
Deliver ==
  /\ At("deliver")
  /\ GoTo("finish")
  /\ UNCHANGED <<phyVars, clientVars, timerVars, radioVars>>

\* No downlink: sleep, then go on to the second window or give up.
FailSleep ==
  /\ At("failSleep")
  /\ HAL_cmd_Sleep
  /\ GoTo("failed")
  /\ UNCHANGED <<phyVars, clientVars, delayVars, windowTimer>>

Failed ==
  /\ At("failed")
  /\ windowTimer' = Off
  /\ IF Has("TX_Req") /\ rxNum < RxMax
     THEN GoOn("load", "PHY_RX_WAIT") /\ UNCHANGED <<rxNum, delayVars>>
     ELSE /\ GoOn("finish", "PHY_IDLE")
          /\ IF Has("TX_Req")
             THEN rxNum' = 0 /\ delay1Timer' = Off /\ delay2Timer' = Off
             ELSE UNCHANGED <<rxNum, delayVars>>
  /\ UNCHANGED <<presentState, eventFlag, currentStatus, rxErr, repeatFlag, dl,
                 dlPayload, clientVars, wdTimer, radioVars>>

\* Mutated form: repeatFlag is not set.
Finish_KeepsRepeat ==
  /\ At("finish")
  /\ eventFlag' = {}
  /\ GoTo("commit")
  /\ UNCHANGED <<presentState, nextState, currentStatus, rxNum, rxErr, repeatFlag, dl,
                 dlPayload, clientVars, timerVars, radioVars>>

\* PHYEvent_clearAllEventFlag at the end of a reception
Finish ==
  /\ At("finish")
  /\ eventFlag' = {} /\ repeatFlag' = TRUE
  /\ GoTo("commit")
  /\ UNCHANGED <<presentState, nextState, currentStatus, rxNum, rxErr, dl,
                 dlPayload, clientVars, timerVars, radioVars>>

\* eventFlag |= ... and eventFlag &= ~... load the word, then store it: a
\* handler that sets a flag in between is undone.
Load ==
  /\ At("load")
  /\ loaded' = CASE presentState = "PHY_RX_WAIT" -> eventFlag \ {"RX_Delay_End"}
                 [] presentState = "PHY_RX_RUN"  -> eventFlag \ {"RX_Fail"}
                 [] OTHER -> eventFlag \union {"RX_Delay_End"}
  /\ pc' = "store"
  /\ UNCHANGED <<phyVars, clientVars, timerVars, radioVars>>

Store ==
  /\ At("store")
  /\ eventFlag' = loaded /\ loaded' = {}
  /\ pc' = "commit"
  /\ UNCHANGED <<presentState, nextState, currentStatus, rxNum, rxErr, repeatFlag,
                 dl, dlPayload, clientVars, timerVars, radioVars>>

\* Mutated form: every pass that ends in PHY_IDLE forgets the events.
Commit_ClearsInIdle ==
  /\ At("commit")
  /\ presentState' = nextState
  /\ eventFlag' = IF nextState = "PHY_IDLE" THEN {} ELSE eventFlag
  /\ GoTo("main")
  /\ UNCHANGED <<nextState, currentStatus, rxNum, rxErr, repeatFlag, dl, dlPayload,
                 clientVars, timerVars, radioVars>>

Commit ==
  /\ At("commit")
  /\ presentState' = nextState
  /\ GoTo("main")
  /\ UNCHANGED <<nextState, eventFlag, currentStatus, rxNum, rxErr, repeatFlag,
                 dl, dlPayload, clientVars, timerVars, radioVars>>

PHY_FSM_run ==
  \/ Run \/ TxConfig \/ TxGo \/ TxEnd \/ AttachDelays \/ Open \/ RxConfig \/ RxGo
  \/ Detect \/ DetSleep \/ Deliver \/ FailSleep \/ Failed \/ Finish
  \/ Load \/ Store \/ Commit

\* The client's main loop, between two passes.
MainLoop ==
  /\ At("main")
  /\ GoTo("run")
  /\ UNCHANGED <<phyVars, clientVars, timerVars, radioVars>>
-----------------------------------------------------------------------------
(***************************************************************************)
(* Interrupt handlers.                                                     *)
(***************************************************************************)
Interruptible == pc \in InterruptPoints

PHYEvent_setEventFlag(e) == eventFlag' = eventFlag \union {e}

RxDelay1End ==
  /\ Interruptible /\ delay1Timer = 0
  /\ delay1Timer' = Off
  /\ PHYEvent_setEventFlag("RX_Delay_End")
  /\ UNCHANGED <<presentState, nextState, currentStatus, rxNum, rxErr, repeatFlag,
                 dl, dlPayload, clientVars, threadVars, delay2Timer, windowTimer,
                 wdTimer, radioVars>>

RxDelay2End ==
  /\ Interruptible /\ delay2Timer = 0
  /\ delay2Timer' = Off
  /\ PHYEvent_setEventFlag("RX_Delay_End")
  /\ UNCHANGED <<presentState, nextState, currentStatus, rxNum, rxErr, repeatFlag,
                 dl, dlPayload, clientVars, threadVars, delay1Timer, windowTimer,
                 wdTimer, radioVars>>

\* Mutated form: the modem's status is not read.
HAL_isSignalSynchronized_Blind == FALSE

HAL_isSignalSynchronized == signal # "none"

\* A window that ends while a frame is coming in is left to that frame.
ExpireWindow ==
  /\ Interruptible /\ windowTimer = 0
  /\ windowTimer' = Off
  /\ IF ~HAL_isSignalSynchronized /\ ~rxErr
     THEN PHYEvent_setEventFlag("RX_Fail") ELSE UNCHANGED eventFlag
  /\ UNCHANGED <<presentState, nextState, currentStatus, rxNum, rxErr, repeatFlag,
                 dl, dlPayload, clientVars, threadVars, delayVars, wdTimer,
                 radioVars>>

\* HAL_hwDone of a transmission and HalTxCnfHandler
HalTxDone ==
  /\ Interruptible /\ link = "tx"
  /\ link' = "idle" /\ wdTimer' = Off
  /\ PHYEvent_setEventFlag("TX_Done")
  /\ UNCHANGED <<presentState, nextState, currentStatus, rxNum, rxErr, repeatFlag,
                 dl, dlPayload, clientVars, threadVars, delayVars, windowTimer,
                 cfg, txCfg, signal>>

\* HAL_swTimeout of a transmission: it calls no handler of the PHY.
HalTxTimeout ==
  /\ Interruptible /\ wdTimer = 0
  /\ link' = "idle" /\ wdTimer' = Off
  /\ UNCHANGED <<phyVars, clientVars, threadVars, delayVars, windowTimer, cfg,
                 txCfg, signal>>

\* HAL_hwDone of a reception and HalRxCnfHandler.  A frame without error is
\* in the buffer; its size is recorded only if no error preceded it.
HalRxDone ==
  /\ Interruptible /\ signal = "frame"
  /\ signal' = "none"
  /\ PHYEvent_setEventFlag("RX_Detect")
  /\ dlPayload' = CASE ~rxErr -> "fresh"
                    [] rxErr /\ dlPayload = "NULL" -> "NULL"
                    [] OTHER -> "stale"
  /\ UNCHANGED <<presentState, nextState, currentStatus, rxNum, rxErr, repeatFlag,
                 dl, clientVars, threadVars, timerVars, link, cfg, txCfg>>

HalRxCrcError ==
  /\ Interruptible /\ signal = "frame"
  /\ signal' = "none"
  /\ rxErr' = TRUE
  /\ PHYEvent_setEventFlag("RX_Fail")
  /\ UNCHANGED <<presentState, nextState, currentStatus, rxNum, repeatFlag, dl,
                 dlPayload, clientVars, threadVars, timerVars, link, cfg, txCfg>>
-----------------------------------------------------------------------------
(***************************************************************************)
(* Calls of the clients, from their handlers or their main loop.           *)
(***************************************************************************)
RequestFlag(e) ==
  CASE e = "TX" -> "TX_Only_Req" [] e = "RX" -> "RX_Only_Req" [] OTHER -> "TX_Req"
StatusOf(e) ==
  CASE e = "TX" -> "PHYs_Tx" [] e = "RX" -> "PHYs_Rx" [] OTHER -> "PHYs_default"

\* A request is taken in PHY_IDLE only, and dropped without notice elsewhere.
PHY_indicateEvent(e) ==
  IF e # "CLEAR"
  THEN IF presentState = "PHY_IDLE"
       THEN PHYEvent_setEventFlag(RequestFlag(e)) /\ currentStatus' = StatusOf(e)
       ELSE UNCHANGED <<eventFlag, currentStatus>>
  ELSE /\ eventFlag' = IF presentState \in {"PHY_RX_WAIT", "PHY_RX_RUN"}
                       THEN {} ELSE eventFlag
       /\ UNCHANGED currentStatus

PHY_configUlPayload(p) == ul' = p /\ ulPayload' = TRUE
PHY_setRxSlot(p) == slot' = p

\* Every client of the repository configures the uplink in the handler, or the
\* pass of its loop, that requests it, whether the request is taken or not.
Client ==
  /\ pc \in ClientPoints
  /\ \/ \E e \in Requests \cap {"FSM", "TX"}, p \in Params :
          PHY_indicateEvent(e) /\ PHY_configUlPayload(p) /\ UNCHANGED slot
     \/ \E e \in Requests \cap {"RX", "CLEAR"} :
          PHY_indicateEvent(e) /\ UNCHANGED clientVars
     \/ /\ "RX" \in Requests /\ \E p \in Params : PHY_setRxSlot(p)
        /\ UNCHANGED <<ul, ulPayload, eventFlag, currentStatus>>
  /\ UNCHANGED <<presentState, nextState, rxNum, rxErr, repeatFlag, dl, dlPayload,
                 threadVars, timerVars, radioVars>>
-----------------------------------------------------------------------------
(***************************************************************************)
(* Time and the air.                                                       *)
(***************************************************************************)
\* The main thread has handled every event: its passes change nothing.
Quiet ==
  /\ pc = "run"
  /\ CASE presentState = "PHY_TX_RUN"  -> ~Has("TX_Fail") /\ ~Has("TX_Done")
       [] presentState = "PHY_RX_WAIT" -> ~Has("RX_Delay_End")
       [] presentState = "PHY_RX_RUN"  -> ~Has("RX_Detect") /\ ~Has("RX_Fail")
       [] presentState = "PHY_IDLE"    -> eventFlag \cap RequestFlags = {}
       [] OTHER -> FALSE

Prompt == PromptMain => Quiet

\* A second passes: no timer that is due waits any longer, and a radio that
\* completes its transmissions does so before the watchdog.
MayTick ==
  /\ Prompt
  /\ 0 \notin {delay1Timer, delay2Timer, windowTimer, wdTimer}
  /\ TxCompletes => wdTimer # 1

Count(t) == IF t > 0 THEN t - 1 ELSE t

TickTimers ==
  /\ delay1Timer' = Count(delay1Timer) /\ delay2Timer' = Count(delay2Timer)
  /\ windowTimer' = Count(windowTimer) /\ wdTimer' = Count(wdTimer)

Tick ==
  /\ MayTick /\ TickTimers
  /\ UNCHANGED <<phyVars, clientVars, threadVars, radioVars>>

\* A preamble reaches the receiver; the frame behind it outlasts a pass of a
\* prompt main thread.
Preamble ==
  /\ link = "rx" /\ signal = "none"
  /\ signal' = "preamble"
  /\ UNCHANGED <<phyVars, clientVars, threadVars, timerVars, link, cfg, txCfg>>

Frame ==
  /\ signal = "preamble" /\ Prompt
  /\ signal' = "frame"
  /\ UNCHANGED <<phyVars, clientVars, threadVars, timerVars, link, cfg, txCfg>>

\* What the modem took for a preamble was none.
FalsePreamble ==
  /\ ~FramesComplete
  /\ signal = "preamble"
  /\ signal' = "none"
  /\ UNCHANGED <<phyVars, clientVars, threadVars, timerVars, link, cfg, txCfg>>
-----------------------------------------------------------------------------
TimerInterrupt == RxDelay1End \/ RxDelay2End \/ ExpireWindow \/ HalTxTimeout
FrameEnd == HalRxDone \/ HalRxCrcError

Air == Preamble \/ Frame \/ FalsePreamble

\* Everything but the clients and the clock.
PHYStep == PHY_FSM_run \/ TimerInterrupt \/ HalTxDone \/ FrameEnd \/ Air

Next == PHYStep \/ MainLoop \/ Client \/ Tick

Spec == Init /\ [][Next]_vars

\* The main loop never stops, a handler runs at the first statement that
\* admits it, the clock advances and a frame that began comes to its end.
\* The radio owes an end only to the transmissions it completes.
Fairness ==
  /\ WF_vars(PHY_FSM_run \/ MainLoop)
  /\ SF_vars(TimerInterrupt)
  /\ SF_vars(Tick) /\ SF_vars(Frame) /\ SF_vars(FrameEnd)
  /\ SF_vars(TxCompletes /\ HalTxDone)

FairSpec == Spec /\ Fairness
-----------------------------------------------------------------------------
(***************************************************************************)
(* Properties.                                                             *)
(***************************************************************************)
\* Every variable keeps its type.
TypeOK ==
  /\ presentState \in PHYStates \union {Unknown}
  /\ nextState \in PHYStates \union {Unknown}
  /\ eventFlag \subseteq PHYEvents /\ loaded \subseteq PHYEvents
  /\ currentStatus \in {"PHYs_default", "PHYs_Tx", "PHYs_Rx"}
  /\ rxNum \in 0..255 /\ rxErr \in BOOLEAN /\ repeatFlag \in BOOLEAN
  /\ ul \in Params /\ dl \in Params /\ slot \in Params
  /\ ulPayload \in BOOLEAN /\ dlPayload \in {"NULL", "stale", "fresh"}
  /\ pc \in Labels
  /\ delay1Timer \in -1..RxDelay1 /\ delay2Timer \in -1..RxDelay1 + 1
  /\ windowTimer \in Int /\ windowTimer >= Off /\ wdTimer \in -1..TxTimeout
  /\ link \in {"idle", "tx", "rx"} /\ cfg \in Params /\ txCfg \in Params
  /\ signal \in {"none", "preamble", "frame"}

\* "rx window can be opened only twice" (FSM_receive_dl): no sequence of
\* requests, events and interrupts makes an uplink open a third window, or
\* reaches the error branch that says so.
TwoWindows ==
  /\ rxNum <= RxMax
  /\ At("rxConfig") /\ currentStatus = "PHYs_default" => rxNum \in 1..RxMax

\* Back in PHY_IDLE nothing of the last cycle is left: no timer of it can go
\* off, no event of it is pending, the window count starts afresh and the
\* radio sleeps.  A later cycle would take any of these for its own.
IdleIsClean ==
  pc = "run" /\ presentState = "PHY_IDLE" =>
    /\ eventFlag \subseteq RequestFlags
    /\ delay1Timer = Off /\ delay2Timer = Off /\ windowTimer = Off
    /\ rxNum = 0
    /\ link = "idle"

\* A request for an uplink that was taken is dropped only at the end of its
\* own cycle, whenever it comes in (PHY_indicateEvent against the order of
\* PHYEvent_clearAllEventFlag and presentState=nextState), or when a request
\* for a transmission without windows, taken as well, has its way.
RequestKept ==
  [][Has("TX_Req") /\ "TX_Req" \notin eventFlag' =>
       \/ At("finish") /\ presentState = "PHY_RX_RUN"
       \/ At("txEnd") /\ Has("TX_Only_Req")]_vars

\* What is handed up is the frame of this window: the buffer holds it, and
\* the recorded size is its size.
DeliversCurrentFrame == At("deliver") => dlPayload = "fresh"

\* The class A cycle, read off the PHY's variables between two statements:
\* rxNum is ahead of presentState while a window opens, and behind it once a
\* window has closed for good.
Opening == \/ pc \in {"rxConfig", "rxGo", "load", "store"}
           \/ pc = "commit" /\ nextState = "PHY_RX_RUN"
Opened == IF Opening THEN rxNum - 1 ELSE rxNum
ClassAPhase ==
  CASE presentState = "PHY_TX_RUN" ->
         IF Has("TX_Req") /\ ~Has("TX_Only_Req") THEN "tx" ELSE "only"
    [] presentState = "PHY_RX_WAIT" -> IF Opened = 0 THEN "wait1" ELSE "wait2"
    [] presentState = "PHY_RX_RUN" ->
         CASE pc \in {"detSleep", "deliver"} -> "found"
           [] pc = "finish" \/ (pc = "commit" /\ nextState = "PHY_IDLE") -> "done"
           [] OTHER -> IF rxNum = 1 THEN "rx1" ELSE "rx2"
    [] OTHER -> "idle"

\* The PHY serves uplink requests as ClassA says.
Cycle == INSTANCE ClassA WITH phase <- ClassAPhase
ImplementsClassA == Cycle!Spec

\* Every uplink ends: the PHY returns to PHY_IDLE.
CycleEnds == presentState # "PHY_IDLE" ~> presentState = "PHY_IDLE"

\* A transmission always comes to an end for the PHY, by TX_Done or by the
\* TX_Fail of "TxTimeoutInterrupt, timeout happened for TX".
TxIsAnswered == presentState = "PHY_TX_RUN" ~> presentState # "PHY_TX_RUN"

\* A request that was taken is transmitted.
RequestServed ==
  presentState = "PHY_IDLE" /\ Has("TX_Req") ~> presentState = "PHY_TX_RUN"
=============================================================================
