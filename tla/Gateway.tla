------------------------------ MODULE Gateway -------------------------------
(***************************************************************************)
(* The gateway of gateway_main.cpp, straight over the HAL: its main loop   *)
(* receives, and the handlers of the radio and of the Timeout tx call HAL  *)
(* commands themselves, in the middle of whatever the main thread does.    *)
(*                                                                         *)
(* Handlers do not preempt one another.  A confirmation is handled inside  *)
(* the interrupt that gives it: while one is pending (confirm) only the    *)
(* radio goes on.                                                          *)
(***************************************************************************)
EXTENDS LoRaHAL, Integers

CONSTANTS
  ReplyDelay,   \* from the uplink to its reply: tx.attach(.., 1.1)
  Sizes,        \* sizes of packets
  PromptMain    \* is the main loop faster than the clock?

ASSUME GatewayAssumption ==
  /\ ReplyDelay \in Nat \ {0} /\ Sizes \subseteq Nat \ {0}
  /\ PromptMain \in BOOLEAN /\ Commands = {"receive"}

VARIABLES
  flag,         \* is there a reply to send?
  packetSize,   \* of the last uplink taken, 0 before the first
  downlinkMsg,  \* the reply, or NULL: its status and the bytes kept of the uplink
  txTimer,      \* tx
  gpc,          \* where the main thread is in main, between two HAL commands
  confirm       \* the confirmation HalTxCnfHandler or HalRxCnfHandler has to handle

replyVars == <<flag, packetSize, downlinkMsg>>
gwVars == <<replyVars, txTimer, gpc, confirm>>
allVars == <<vars, gwVars>>

Off == -1
\* The number a packet begins with, as getPktStat reads it (from a buffer without
\* a terminator); "other" is every one HalRxCnfHandler does not test for.
Statuses == {"00", "01", "10", "11", "other"}
Answer == [uplink \in {"00", "01"} |-> IF uplink = "00" THEN "10" ELSE "11"]
NULL == [stat |-> "none", kept |-> 0]
Replies == [stat : {"10", "11"}, kept : Sizes \union {0}]

GatewayInit ==
  /\ Init
  /\ flag = FALSE /\ packetSize = 0 /\ downlinkMsg = NULL
  /\ txTimer = Off /\ gpc = "start" /\ confirm = "none"
-----------------------------------------------------------------------------
(***************************************************************************)
(* Handlers.                                                               *)
(***************************************************************************)
ABORT == FSMtransition(halFsmState, "ABORT") # "CANNOTHAPPEN"
Aborted == HAL_FSM_do(HAL_FSM_do(halFsmState, "ABORT"), "CFGEND")

\* Mutated forms: the machine is left in CFGING; it does not hear of the
\* sleep; the radio does not hear of it.
SleepNow_NoEnd ==
  IF ABORT
  THEN /\ halFsmState' = HAL_FSM_do(halFsmState, "ABORT")
       /\ wdTimer' = FALSE /\ opMode' = "sleep" /\ State' = "RF_IDLE"
  ELSE UNCHANGED <<halFsmState, wdTimer, opMode, State>>

SleepNow_NoAbort ==
  wdTimer' = FALSE /\ opMode' = "sleep" /\ State' = "RF_IDLE" /\ UNCHANGED halFsmState

SleepNow_RadioOn ==
  IF ABORT
  THEN /\ halFsmState' = Aborted /\ wdTimer' = FALSE /\ State' = "RF_IDLE"
       /\ UNCHANGED opMode
  ELSE UNCHANGED <<halFsmState, wdTimer, opMode, State>>

\* HAL_cmd_Sleep, run by a handler without interruption.
SleepNow ==
  IF ABORT
  THEN /\ halFsmState' = Aborted
       /\ wdTimer' = FALSE /\ opMode' = "sleep" /\ State' = "RF_IDLE"
  ELSE UNCHANGED <<halFsmState, wdTimer, opMode, State>>

\* HAL_cmd_transmit refuses an empty packet, and then HAL_capi_startTx one
\* that comes during a transmission or a configuration.
Accepted == downlinkMsg # NULL
Startable == Accepted /\ State # "RF_TX_RUNNING" /\ ABORT

\* Mutated form: the watchdog is not attached.
TransmitNow_NoWatchdog ==
  IF Startable
  THEN /\ halFsmState' = HAL_FSM_do(Aborted, "RUN")
       /\ wdTimer' = FALSE /\ opMode' = "tx" /\ State' = "RF_TX_RUNNING"
       /\ cnf' = "none"
  ELSE UNCHANGED <<halFsmState, wdTimer, opMode, State, cnf>>

\* HAL_cmd_transmit, likewise run by a handler.
TransmitNow ==
  IF Startable
  THEN /\ halFsmState' = HAL_FSM_do(Aborted, "RUN")
       /\ wdTimer' = TRUE /\ opMode' = "tx" /\ State' = "RF_TX_RUNNING"
       /\ cnf' = "none"
  ELSE UNCHANGED <<halFsmState, wdTimer, opMode, State, cnf>>

\* Any interrupt ends sleep().
Wake == gpc' = IF gpc = "sleep" THEN "loop" ELSE gpc

Between == <<resOwner, RxContinuous, mainVars, dio0, dio1>>

\* HAL_hwDone and HAL_swTimeout, which call the gateway's handler if the
\* machine takes the end of the operation.  The few statements of
\* HAL_cmd_receive are over before a transmission or its watchdog ends.
HalInterrupt ==
  /\ confirm = "none"
  /\ \/ /\ HAL_hwDone
        /\ confirm' = IF halFsmState = "RUN" /\ HAL_isRfActive THEN cnf' ELSE "none"
     \/ /\ HAL_swTimeout /\ (State = "RF_TX_RUNNING" => pc = "ready")
        /\ confirm' = IF halFsmState = "RUN" /\ State = "RF_RX_RUNNING"
                      THEN cnf' ELSE "none"
  /\ Wake
  /\ UNCHANGED <<replyVars, txTimer>>

\* setPktStat, for the statuses that are answered: the reply is built with the
\* size of the packet before.
SetPktStat(stat) ==
  downlinkMsg' = IF stat \in DOMAIN Answer
                 THEN [stat |-> Answer[stat], kept |-> packetSize]
                 ELSE downlinkMsg

\* HAL_RX_CNF_DONE.  "alien" is a packet without the text "LoRa".  A status
\* nothing tests for sets flag like an uplink's, and leaves the reply as it is.
HalRxDone ==
  \E size \in Sizes, stat \in Statuses \union {"alien"} :
    \/ /\ stat \in {"alien", "10", "11"}
       /\ SleepNow /\ UNCHANGED replyVars
    \/ /\ stat \in {"00", "01", "other"}
       /\ SetPktStat(stat)
       /\ flag' = TRUE /\ packetSize' = size
       /\ UNCHANGED <<halFsmState, wdTimer, opMode, State>>

\* HalTxCnfHandler, HalRxCnfHandler
HandleConfirmation ==
  /\ confirm # "none"
  /\ confirm' = "none"
  /\ IF confirm = "rxDone" THEN HalRxDone
     ELSE SleepNow /\ UNCHANGED replyVars
  /\ UNCHANGED <<Between, cnf, txTimer, gpc>>

\* Mutated form: flag stays.
HandlerTxTimeout_KeepsFlag ==
  /\ txTimer = 0 /\ confirm = "none"
  /\ TransmitNow
  /\ txTimer' = Off
  /\ Wake
  /\ UNCHANGED <<Between, flag, packetSize, downlinkMsg, confirm>>

\* handler_txTimeout
HandlerTxTimeout ==
  /\ txTimer = 0 /\ confirm = "none"
  /\ TransmitNow
  /\ flag' = FALSE /\ txTimer' = Off
  /\ Wake
  /\ UNCHANGED <<Between, packetSize, downlinkMsg, confirm>>
-----------------------------------------------------------------------------
(***************************************************************************)
(* The main thread.  Handlers that are due run before its next statement.  *)
(***************************************************************************)
MainFree == confirm = "none" /\ txTimer # 0

GatewayAt(label) == MainFree /\ MainAt("ready") /\ gpc = label

\* The statements of HAL_cmd_init and HAL_cmd_receive.
HalStatement == MainFree /\ (HAL_cmd_init \/ MainStep) /\ UNCHANGED gwVars

\* main up to its loop
FirstReceive ==
  /\ GatewayAt("start") /\ HAL_cmd_receive
  /\ gpc' = "loop"
  /\ UNCHANGED <<replyVars, txTimer, confirm>>

\* if(HAL_isRfActive()==false) HAL_cmd_receive()
Loop ==
  /\ GatewayAt("loop")
  /\ IF HAL_isRfActive THEN gpc' = "flag" /\ UNCHANGED vars
                       ELSE HAL_cmd_receive /\ UNCHANGED gpc
  /\ UNCHANGED <<replyVars, txTimer, confirm>>

\* else if (flag == 1)
TestFlag ==
  /\ GatewayAt("flag")
  /\ gpc' = IF flag THEN "attach" ELSE "loop"
  /\ UNCHANGED <<vars, replyVars, txTimer, confirm>>

\* Mutated form: main sleeps without a Timeout.
Attach_Sleeps ==
  /\ GatewayAt("attach")
  /\ gpc' = "sleep"
  /\ UNCHANGED <<vars, replyVars, txTimer, confirm>>

\* tx.attach, in the place of one that is running, and sleep().
Attach ==
  /\ GatewayAt("attach")
  /\ txTimer' = ReplyDelay
  /\ gpc' = "sleep"
  /\ UNCHANGED <<vars, replyVars, confirm>>

Main == HalStatement \/ FirstReceive \/ Loop \/ TestFlag \/ Attach
-----------------------------------------------------------------------------
(***************************************************************************)
(* The radio and the clock.                                                *)
(***************************************************************************)
\* Reception is continuous: the radio never gives it up.
GatewayRadio ==
  /\ \/ RadioTxDone /\ pc = "ready"
     \/ RadioRxDone
  /\ UNCHANGED gwVars

\* The main thread has nothing to do but to wait.
Quiet ==
  /\ pc = "ready"
  /\ gpc = "sleep" \/ (gpc \in {"loop", "flag"} /\ HAL_isRfActive /\ ~flag)

GatewayTick ==
  /\ txTimer > 0 /\ Undisturbed /\ confirm = "none"
  /\ PromptMain => Quiet
  /\ txTimer' = txTimer - 1
  /\ UNCHANGED <<vars, replyVars, gpc, confirm>>

GatewayNext ==
  \/ Main \/ HalInterrupt \/ HandleConfirmation \/ HandlerTxTimeout
  \/ GatewayRadio \/ GatewayTick

GatewaySpec == GatewayInit /\ [][GatewayNext]_allVars

\* Handlers run, the main thread gets the processor between frames, an
\* attached watchdog goes off and the clock goes on.
GatewayFairness ==
  /\ SF_allVars(Main)
  /\ WF_allVars(HandleConfirmation) /\ WF_allVars(HandlerTxTimeout)
  /\ SF_allVars(HalInterrupt) /\ SF_allVars(GatewayTick)

FairGatewaySpec == GatewaySpec /\ GatewayFairness
-----------------------------------------------------------------------------
(***************************************************************************)
(* Properties.                                                             *)
(***************************************************************************)
\* Every variable keeps its type.
GatewayTypeOK ==
  /\ TypeOK
  /\ flag \in BOOLEAN /\ packetSize \in Sizes \union {0}
  /\ downlinkMsg \in Replies \union {NULL}
  /\ txTimer \in Off..ReplyDelay
  /\ gpc \in {"start", "loop", "flag", "attach", "sleep"}
  /\ confirm \in {"none", "txDone", "rxDone", "rxCrcError", "rxTimeout"}

\* Although handlers start transmissions in the middle of HAL_cmd_receive,
\* the gateway is never deaf for ever: it receives again and again, with the
\* machine in RUN, so that HAL_hwDone hands the packets up.
KeepsListening ==
  []<>(opMode = "rxContinuous" /\ State = "RF_RX_RUNNING" /\ halFsmState = "RUN")

\* A gateway that sleeps with a reply to send sends it, unless another
\* interrupt wakes it first (and has it wait ReplyDelay again).  As long as no
\* reply was ever built, it has nothing to send, and forgets flag.
AnswersUnlessDisturbed ==
  flag /\ gpc = "sleep" ~>
    State = "RF_TX_RUNNING" \/ ~Undisturbed \/ (downlinkMsg = NULL /\ ~flag)

\* "flag=1;//send tx" (HalRxCnfHandler): flag asks for a transmission, and
\* nothing else does.
FlagSendsTx ==
  [][State # "RF_TX_RUNNING" /\ State' = "RF_TX_RUNNING" => flag]_allVars

\* What the gateway does on the air.
Air ==
  CASE halFsmState = "RUN" /\ State = "RF_TX_RUNNING" -> "replying"
    [] halFsmState = "RUN" /\ State = "RF_RX_RUNNING" -> "listening"
    [] OTHER -> "silent"

\* The gateway transmits each reply that is due once and to its end, and
\* leaves it alone meanwhile; what is due before any reply was built is dropped.
Answers == INSTANCE ReplyCycle
  WITH air <- Air, due <- flag, reply <- downlinkMsg, Nothing <- NULL
ImplementsReplyCycle == Answers!Spec
=============================================================================
