------------------------------ MODULE LoRaHAL -------------------------------
(***************************************************************************)
(* The hardware abstraction layer: Common_HAL.cpp, Tx_HAL.cpp, Rx_HAL.cpp  *)
(* and HAL_FSM.cpp, with the radio it drives.                              *)
(*                                                                         *)
(* The main thread runs one HAL command at a time, statement by statement  *)
(* (pc); interrupt handlers run to completion between any two of its       *)
(* statements.  HAL_FSM_do is not atomic for the main thread: it reads the *)
(* verdict, and only then reads the state again and moves it (fres holds   *)
(* the verdict in between).                                                *)
(***************************************************************************)
EXTENDS HALFsm

CONSTANT Commands   \* the commands the layer above calls

CommandNames == {"SetTxConfig", "SetRfTxPower", "SetRxConfig", "receive",
                 "transmit", "Sleep"}

ASSUME CommandsAssumption == Commands \subseteq CommandNames

VARIABLES
  \* the HAL's own state
  halFsmState,   \* the state of HAL_FSM.cpp
  resOwner,      \* who reserved the common resource
  State,         \* HWStatus.settings.State
  RxContinuous,  \* HWStatus.settings.LoRa.RxContinuous
  wdTimer,       \* is the watchdog attached?
  cnf,           \* the last confirmation given for the latest operation
  \* the main thread inside a command
  pc, job, stage, arg, fres,
  \* the radio
  opMode,        \* what it is doing
  dio0, dio1     \* interrupts it raised that no handler has served yet

halVars == <<halFsmState, resOwner, State, RxContinuous, wdTimer, cnf>>
mainVars == <<pc, job, stage, arg, fres>>
radioVars == <<opMode, dio0, dio1>>
vars == <<halVars, mainVars, radioVars>>

Entities == {"NONE", "TX", "RX"}
RadioStates == {"RF_NULL", "RF_IDLE", "RF_RX_RUNNING", "RF_TX_RUNNING"}
OpModes == {"sleep", "standby", "tx", "rxSingle", "rxContinuous"}
ConfigStages == {"TxPower", "TxConfig", "RxConfig"}
RunningRx == {"rxSingle", "rxContinuous"}

\* The event given to HAL_FSM_do at each point of a command that calls it.
EventAt == [cfgReq |-> "CFGREQ", cfgEnd |-> "CFGEND", abort |-> "ABORT",
            slept |-> "CFGEND", runRx |-> "RUN", runTx |-> "RUN"]
FsmLabels == {"cfgReq", "cfgEnd", "abort", "slept", "runRx", "runTx"}
Labels == FsmLabels \union
          {"ready", "own", "take", "cfg", "hw", "free", "up",
           "txCheck", "detach", "hwSleep", "rfIdle", "rx", "tx"}

Init ==
  /\ halFsmState = "IDLE" /\ resOwner = "NONE" /\ State = "RF_NULL"
  /\ RxContinuous = FALSE /\ wdTimer = FALSE /\ cnf = "none"
  /\ pc = "ready" /\ job = "none" /\ stage = "TxPower" /\ arg = TRUE
  /\ fres = "none"
  /\ opMode = "sleep" /\ dio0 = "none" /\ dio1 = FALSE
-----------------------------------------------------------------------------
(***************************************************************************)
(* Commands.  Interrupts that are pending are served before the main       *)
(* thread's next statement.                                                *)
(***************************************************************************)
Undisturbed == dio0 = "none" /\ ~dio1

MainAt(label) == Undisturbed /\ pc = label

\* HAL_cmd_init: refused unless the radio was never initialised.
HAL_cmd_init ==
  /\ MainAt("ready") /\ State = "RF_NULL"
  /\ RxContinuous' = TRUE
  /\ opMode' = "sleep"
  /\ job' = "init" /\ stage' = "TxPower" /\ pc' = "own"
  /\ UNCHANGED <<halFsmState, resOwner, State, wdTimer, cnf, arg, fres,
                 dio0, dio1>>

Call(command, label) ==
  /\ MainAt("ready") /\ State # "RF_NULL" /\ command \in Commands
  /\ job' = command /\ pc' = label
  /\ UNCHANGED <<halVars, fres, radioVars>>

CallConfig(command, configStage) ==
  Call(command, "own") /\ stage' = configStage

HAL_cmd_SetTxConfig == CallConfig("SetTxConfig", "TxConfig") /\ UNCHANGED arg
HAL_cmd_SetRfTxPower == CallConfig("SetRfTxPower", "TxPower") /\ UNCHANGED arg

\* rxTime = 0 asks for continuous reception.
HAL_cmd_SetRxConfig ==
  CallConfig("SetRxConfig", "RxConfig") /\ arg' \in BOOLEAN

HAL_cmd_receive == Call("receive", "runRx") /\ UNCHANGED <<stage, arg>>
HAL_cmd_transmit == Call("transmit", "txCheck") /\ UNCHANGED <<stage, arg>>
HAL_cmd_Sleep == Call("Sleep", "abort") /\ UNCHANGED <<stage, arg>>
-----------------------------------------------------------------------------
(***************************************************************************)
(* HAL_FSM_do as the main thread runs it, and what its callers do next.    *)
(***************************************************************************)
Return == pc' = "ready" /\ job' = "none" /\ UNCHANGED stage

\* The end of one configuration: HAL_init_radio runs several, and goes from
\* the transmitter's to the receiver's when one of them fails.
Configured(ok) ==
  IF job # "init" THEN Return
  ELSE /\ UNCHANGED job
       /\ IF stage = "RxConfig" THEN pc' = "up" /\ UNCHANGED stage
          ELSE /\ pc' = "own"
               /\ stage' = IF ok /\ stage = "TxPower" THEN "TxConfig"
                                                      ELSE "RxConfig"

GoOn(label) == pc' = label /\ UNCHANGED <<job, stage>>

AfterFsm(res) ==
  CASE pc = "cfgReq" -> IF res = "SUCCESS" THEN GoOn("take")
                                           ELSE Configured(FALSE)
    [] pc = "cfgEnd" -> IF res = "SUCCESS" THEN GoOn("free")
                                           ELSE Configured(TRUE)
    [] pc = "abort"  -> IF res # "CANNOTHAPPEN" THEN GoOn("detach") ELSE Return
    [] pc = "slept"  -> IF job = "transmit" THEN GoOn("runTx") ELSE Return
    [] pc = "runRx"  -> IF res # "CANNOTHAPPEN" THEN GoOn("rx") ELSE Return
    [] pc = "runTx"  -> IF res # "CANNOTHAPPEN" THEN GoOn("tx") ELSE Return

FsmRead ==
  /\ Undisturbed /\ pc \in FsmLabels /\ fres = "none"
  /\ fres' = FSMtransition(halFsmState, EventAt[pc])
  /\ UNCHANGED <<halVars, pc, job, stage, arg, radioVars>>

FsmWrite ==
  /\ Undisturbed /\ pc \in FsmLabels /\ fres # "none"
  /\ halFsmState' = IF fres # "CANNOTHAPPEN"
                    THEN FSMnextState(halFsmState, EventAt[pc])
                    ELSE halFsmState
  /\ AfterFsm(fres)
  /\ fres' = "none"
  /\ UNCHANGED <<resOwner, State, RxContinuous, wdTimer, cnf, arg, radioVars>>
-----------------------------------------------------------------------------
(***************************************************************************)
(* The other statements of the commands.                                   *)
(***************************************************************************)
Entity == IF stage = "RxConfig" THEN "RX" ELSE "TX"

\* HAL_capi_reserveResource
ReserveCheck ==
  /\ MainAt("own")
  /\ IF resOwner # "NONE" THEN Configured(FALSE) ELSE GoOn("cfgReq")
  /\ UNCHANGED <<halVars, arg, fres, radioVars>>

ReserveTake ==
  /\ MainAt("take")
  /\ resOwner' = Entity
  /\ GoOn("cfg")
  /\ UNCHANGED <<halFsmState, State, RxContinuous, wdTimer, cnf, arg, fres,
                 radioVars>>

MayConfigure == halFsmState = "CFGING" /\ resOwner = Entity

\* The HAL_capi_Cfg* calls: each checks and stores one parameter.
Configure ==
  /\ MainAt("cfg")
  /\ RxContinuous' = IF MayConfigure /\ stage = "RxConfig" /\ job # "init"
                     THEN arg ELSE RxContinuous
  /\ GoOn("hw")
  /\ UNCHANGED <<halFsmState, resOwner, State, wdTimer, cnf, arg, fres,
                 radioVars>>

\* HAL_capi_SetTxConfig, HAL_capi_SetRxConfig, HAL_capi_setRfTxPower: write
\* the registers, then HAL_releaseResource.
WriteConfig ==
  /\ MainAt("hw")
  /\ IF MayConfigure THEN GoOn("cfgEnd") ELSE Configured(FALSE)
  /\ UNCHANGED <<halVars, arg, fres, radioVars>>

\* Mutated form: the owner is not cleared.
Release_KeepsOwner ==
  MainAt("free") /\ Configured(TRUE) /\ UNCHANGED <<halVars, arg, fres, radioVars>>

Release ==
  /\ MainAt("free")
  /\ resOwner' = "NONE"
  /\ Configured(TRUE)
  /\ UNCHANGED <<halFsmState, State, RxContinuous, wdTimer, cnf, arg, fres,
                 radioVars>>

\* The end of HAL_init_radio.
InitDone ==
  /\ MainAt("up")
  /\ State' = "RF_IDLE"
  /\ Return
  /\ UNCHANGED <<halFsmState, resOwner, RxContinuous, wdTimer, cnf, arg, fres,
                 radioVars>>

\* Mutated form: no check for a running transmission.
TxCheck_Unchecked ==
  MainAt("txCheck") /\ GoOn("abort") /\ UNCHANGED <<halVars, arg, fres, radioVars>>

\* HAL_capi_startTx: a running transmission refuses the next one.
TxCheck ==
  /\ MainAt("txCheck")
  /\ IF State = "RF_TX_RUNNING" THEN Return ELSE GoOn("abort")
  /\ UNCHANGED <<halVars, arg, fres, radioVars>>

\* Mutated forms: the watchdog stays attached; the radio is not put to sleep.
SleepDetach_Skipped ==
  MainAt("detach") /\ GoOn("hwSleep") /\ UNCHANGED <<halVars, arg, fres, radioVars>>

SleepRadio_Skipped ==
  MainAt("hwSleep") /\ GoOn("rfIdle") /\ UNCHANGED <<halVars, arg, fres, radioVars>>

\* HAL_Sleep, three statements for the main thread.
SleepDetach ==
  /\ MainAt("detach")
  /\ wdTimer' = FALSE
  /\ GoOn("hwSleep")
  /\ UNCHANGED <<halFsmState, resOwner, State, RxContinuous, cnf, arg, fres,
                 radioVars>>

SleepRadio ==
  /\ MainAt("hwSleep")
  /\ opMode' = "sleep"
  /\ GoOn("rfIdle")
  /\ UNCHANGED <<halVars, arg, fres, dio0, dio1>>

SleepIdle ==
  /\ MainAt("rfIdle")
  /\ State' = "RF_IDLE"
  /\ GoOn("slept")
  /\ UNCHANGED <<halFsmState, resOwner, RxContinuous, wdTimer, cnf, arg, fres,
                 radioVars>>

\* HAL_capi_startRx and HAL_capi_startTx hand the radio its operation and
\* record it: no operation of the radio ends within these few statements.
StartRx ==
  /\ MainAt("rx")
  /\ opMode' = IF RxContinuous THEN "rxContinuous" ELSE "rxSingle"
  /\ State' = "RF_RX_RUNNING"
  /\ cnf' = "none"
  /\ Return
  /\ UNCHANGED <<halFsmState, resOwner, RxContinuous, wdTimer, arg, fres,
                 dio0, dio1>>

\* Mutated form: the watchdog is not attached.
StartTx_NoWatchdog ==
  /\ MainAt("tx")
  /\ opMode' = "tx" /\ State' = "RF_TX_RUNNING" /\ cnf' = "none"
  /\ Return
  /\ UNCHANGED <<halFsmState, resOwner, RxContinuous, wdTimer, arg, fres,
                 dio0, dio1>>

StartTx ==
  /\ MainAt("tx")
  /\ opMode' = "tx"
  /\ State' = "RF_TX_RUNNING"
  /\ wdTimer' = TRUE
  /\ cnf' = "none"
  /\ Return
  /\ UNCHANGED <<halFsmState, resOwner, RxContinuous, arg, fres, dio0, dio1>>
-----------------------------------------------------------------------------
(***************************************************************************)
(* The radio: it ends an operation, or hears a frame, and raises DIO0 or   *)
(* DIO1.  A transmission need not end (the corrupted transfer of           *)
(* HAL_swTimeout's comment).                                               *)
(***************************************************************************)
RadioTxDone ==
  /\ opMode = "tx"
  /\ opMode' = "standby" /\ dio0' = "txDone"
  /\ UNCHANGED <<halVars, mainVars, dio1>>

RadioRxDone ==
  /\ opMode \in RunningRx
  /\ dio0' \in {"rxDone", "rxCrcError"}
  /\ opMode' = IF opMode = "rxSingle" THEN "standby" ELSE opMode
  /\ UNCHANGED <<halVars, mainVars, dio1>>

RadioRxTimeout ==
  /\ opMode = "rxSingle"
  /\ opMode' = "standby" /\ dio1' = TRUE
  /\ UNCHANGED <<halVars, mainVars, dio0>>
-----------------------------------------------------------------------------
(***************************************************************************)
(* Interrupt handlers.                                                     *)
(***************************************************************************)
\* Mutated form: the machine is left in RUN.
SleepAndConfirm_NoRunEnd(c) ==
  /\ wdTimer' = FALSE /\ opMode' = "sleep" /\ State' = "RF_IDLE"
  /\ cnf' = c
  /\ UNCHANGED halFsmState

\* HAL_Sleep, HAL_FSM_do(RUNEND) and the confirmation, if the machine took it.
SleepAndConfirm(c) ==
  /\ wdTimer' = FALSE /\ opMode' = "sleep" /\ State' = "RF_IDLE"
  /\ halFsmState' = HAL_FSM_do(halFsmState, "RUNEND")
  /\ cnf' = IF FSMtransition(halFsmState, "RUNEND") # "CANNOTHAPPEN"
            THEN c ELSE cnf

\* Mutated form: a continuous reception confirms whatever the machine's state.
HwDoneRx_Unchecked(c) ==
  IF RxContinuous
  THEN cnf' = c /\ UNCHANGED <<wdTimer, opMode, State, halFsmState>>
  ELSE SleepAndConfirm(c)

HwDoneRx(c) ==
  IF RxContinuous
  THEN /\ cnf' = IF halFsmState = "RUN" THEN c ELSE cnf
       /\ UNCHANGED <<wdTimer, opMode, State, halFsmState>>
  ELSE SleepAndConfirm(c)

HAL_hwDone ==
  /\ dio0 # "none"
  /\ dio0' = "none"
  /\ CASE State = "RF_RX_RUNNING" ->
            HwDoneRx(IF dio0 = "rxCrcError" THEN "rxCrcError" ELSE "rxDone")
       [] State = "RF_TX_RUNNING" -> SleepAndConfirm("txDone")
       [] OTHER -> UNCHANGED <<wdTimer, opMode, State, halFsmState, cnf>>
  /\ UNCHANGED <<resOwner, RxContinuous, mainVars, dio1>>

HAL_hwTimeout ==
  /\ dio1
  /\ dio1' = FALSE
  /\ IF State = "RF_RX_RUNNING" THEN SleepAndConfirm("rxTimeout")
     ELSE UNCHANGED <<wdTimer, opMode, State, halFsmState, cnf>>
  /\ UNCHANGED <<resOwner, RxContinuous, mainVars, dio0>>

\* The watchdog.  A transmission it ends is not confirmed: the radio is
\* initialised again and the machine put back to IDLE.
HAL_swTimeout ==
  /\ wdTimer
  /\ CASE State = "RF_RX_RUNNING" -> SleepAndConfirm("rxTimeout")
       [] State = "RF_TX_RUNNING" ->
            /\ wdTimer' = FALSE /\ opMode' = "sleep" /\ State' = "RF_IDLE"
            /\ halFsmState' = "IDLE"
            /\ UNCHANGED cnf
       [] OTHER -> /\ wdTimer' = FALSE
                   /\ UNCHANGED <<opMode, State, halFsmState, cnf>>
  /\ UNCHANGED <<resOwner, RxContinuous, mainVars, dio0, dio1>>
-----------------------------------------------------------------------------
\* The query by which the layer above decides whether it may receive.
HAL_isRfActive == State # "RF_IDLE"

CallCommand ==
  \/ HAL_cmd_SetTxConfig \/ HAL_cmd_SetRfTxPower \/ HAL_cmd_SetRxConfig
  \/ HAL_cmd_receive \/ HAL_cmd_transmit \/ HAL_cmd_Sleep

MainStep ==
  \/ FsmRead \/ FsmWrite
  \/ ReserveCheck \/ ReserveTake \/ Configure \/ WriteConfig \/ Release
  \/ InitDone \/ TxCheck \/ SleepDetach \/ SleepRadio \/ SleepIdle
  \/ StartRx \/ StartTx

Radio == RadioTxDone \/ RadioRxDone \/ RadioRxTimeout

Interrupt == HAL_hwDone \/ HAL_hwTimeout \/ HAL_swTimeout

Next == HAL_cmd_init \/ CallCommand \/ MainStep \/ Radio \/ Interrupt

Spec == Init /\ [][Next]_vars

\* The handlers are short and frames take milliseconds: the main thread gets
\* the processor again and again, an attached watchdog goes off and a pending
\* interrupt is served.  Nothing obliges the radio to end a transmission.
Fairness ==
  /\ SF_vars(MainStep)
  /\ WF_vars(HAL_hwDone) /\ WF_vars(HAL_hwTimeout)
  /\ WF_vars(HAL_swTimeout)

FairSpec == Spec /\ Fairness
-----------------------------------------------------------------------------
(***************************************************************************)
(* Properties.                                                             *)
(***************************************************************************)
\* Every variable keeps its type.
TypeOK ==
  /\ halFsmState \in FsmStates /\ resOwner \in Entities
  /\ State \in RadioStates /\ RxContinuous \in BOOLEAN /\ wdTimer \in BOOLEAN
  /\ cnf \in {"none", "txDone", "rxDone", "rxCrcError", "rxTimeout"}
  /\ pc \in Labels /\ job \in CommandNames \union {"none", "init"}
  /\ stage \in ConfigStages /\ arg \in BOOLEAN
  /\ fres \in FsmResults \union {"none"}
  /\ opMode \in OpModes /\ dio1 \in BOOLEAN
  /\ dio0 \in {"none", "txDone", "rxDone", "rxCrcError"}

\* The watchdog guards transmissions and nothing else: a running transmission
\* has one (but for the two statements of a HAL_Sleep that is ending it), and
\* none outlives its transmission, to cut a later reception short
\* (HAL_capi_startTx, HAL_Sleep, HAL_swTimeout).
WatchdogGuardsTx ==
  /\ wdTimer => State = "RF_TX_RUNNING"
  /\ State = "RF_TX_RUNNING" => wdTimer \/ pc \in {"hwSleep", "rfIdle"}

\* However its statements interleave with the handlers (HAL_FSM_INIT in the
\* watchdog's among them), a command that returns has given the common
\* resource back and left the configuring state: otherwise every later
\* reservation would be refused.
ResourceReleased ==
  pc = "ready" => resOwner = "NONE" /\ halFsmState # "CFGING"

\* The reservation and the machine agree: while an entity owns the resource
\* the machine is configuring, until the release has moved it on
\* (HAL_capi_reserveResource, HAL_releaseResource).
OwnerConfigures ==
  resOwner # "NONE" =>
    /\ resOwner = Entity
    /\ halFsmState = IF pc = "free" THEN "READY" ELSE "CFGING"
    /\ State \notin {"RF_RX_RUNNING", "RF_TX_RUNNING"}

\* Between commands the machine is in RUN exactly when the HAL believes an
\* operation is running: were it not, hwDone would drop the confirmation
\* ("FSM fail during HW done handler") and the layer above wait for ever.
RunMeansActive ==
  pc = "ready" =>
    (halFsmState = "RUN" <=> State \in {"RF_RX_RUNNING", "RF_TX_RUNNING"})

\* When the HAL says the radio is idle (HAL_isRfActive) it is asleep, and
\* when it says it runs the radio is running, or its interrupt is pending.
StateMatchesRadio ==
  /\ State \in {"RF_NULL", "RF_IDLE"} => opMode = "sleep"
  /\ State = "RF_TX_RUNNING" /\ pc = "ready" =>
       opMode = "tx" \/ dio0 = "txDone"
  /\ State = "RF_RX_RUNNING" /\ pc = "ready" =>
       opMode \in RunningRx \/ dio0 # "none" \/ dio1

\* Nothing but its end, the watchdog and HAL_cmd_Sleep stops a transmission:
\* HAL_cmd_transmit, HAL_cmd_receive and the configurations leave it alone.
TransmissionNotCut ==
  [][opMode = "tx" /\ opMode' # "tx" =>
       opMode' = "standby" \/ (wdTimer /\ ~wdTimer') \/ job = "Sleep"]_vars

\* The HAL implements the service the layer above relies on.  An operation
\* runs from the moment State records it for as long as the machine is in RUN.
Link ==
  CASE halFsmState = "RUN" /\ State = "RF_TX_RUNNING" -> "tx"
    [] halFsmState = "RUN" /\ State = "RF_RX_RUNNING" ->
         IF RxContinuous THEN "rxContinuous" ELSE "rxSingle"
    [] OTHER -> "idle"

Service == INSTANCE RadioService WITH link <- Link, cnf <- cnf

ImplementsService == Service!Spec

\* A transmission never blocks the radio for ever: TxDone or the watchdog
\* ends it.
TransmissionEnds == State = "RF_TX_RUNNING" ~> State # "RF_TX_RUNNING"
=============================================================================
