--------------------------- MODULE Gateway_proof ----------------------------
(***************************************************************************)
(* Proofs about the gateway, for every ReplyDelay and every set of sizes.  *)
(* What the HAL and the radio agree on holds at any speed of the main      *)
(* loop, although handlers run HAL commands in the middle of another; that *)
(* each reply is sent once, and guarded, needs a loop faster than the      *)
(* clock.  The invariant of LoRaHAL_proof does not hold here: a command    *)
(* run by a handler changes what the statements of HAL_cmd_receive find.   *)
(***************************************************************************)
EXTENDS Gateway, LoRaHAL_proof

Receiving == {"runRx", "rx"}

\* Until HAL_cmd_init returns nothing else has begun.
InvBoot ==
  /\ pc \in {"ready"} \union Receiving \union InitLabels
  /\ pc \in InitLabels => job = "init" /\ State = "RF_NULL" /\ RxContinuous
  /\ State = "RF_NULL" => gpc = "start" /\ pc \notin Receiving
  /\ State # "RF_NULL" => RxContinuous
  /\ gpc = "start" => State \in {"RF_NULL", "RF_IDLE"} /\ txTimer = Off /\ ~flag
                      /\ pc \notin Receiving /\ confirm = "none"

\* What the statements of HAL_cmd_init and HAL_cmd_receive find in the
\* machine.  A handler's transmission may already run under a reception that
\* is about to start.
InvMachine ==
  /\ pc \in Configuring => halFsmState = "CFGING"
  /\ pc \in {"own", "cfgReq", "free", "up"} => halFsmState \in {"IDLE", "READY"}
  /\ pc \in {"cfg", "hw", "cfgEnd", "free"} => resOwner = Entity
  /\ pc = "ready" => halFsmState # "CFGING" /\ (halFsmState = "RUN" <=> Active)
  /\ pc = "runRx" =>
       halFsmState = "RUN" \/ (State = "RF_IDLE" /\ halFsmState \in {"IDLE", "READY"})
  /\ pc = "runRx" /\ halFsmState = "RUN" => State = "RF_TX_RUNNING"
  /\ pc = "rx" => halFsmState = "RUN"
  /\ fres # "none" => pc \in FsmLabels
  /\ fres = "WARNING" => pc = "runRx"
  /\ pc = "cfgEnd" => fres # "CANNOTHAPPEN"
  /\ pc = "runRx" /\ fres = "CANNOTHAPPEN" => halFsmState = "RUN"

\* The radio does what State says, and nothing of it is pending while a
\* reception starts.
InvRadio ==
  /\ State \in {"RF_NULL", "RF_IDLE"} => opMode = "sleep"
  /\ State = "RF_RX_RUNNING" => opMode = "rxContinuous" /\ pc = "ready"
  /\ State = "RF_TX_RUNNING" => opMode = "tx" \/ dio0 = "txDone"
  /\ opMode = "tx" => State = "RF_TX_RUNNING"
  /\ opMode = "rxContinuous" => State = "RF_RX_RUNNING"
  /\ opMode # "rxSingle" /\ ~dio1
  /\ pc \in Receiving => dio0 = "none"

\* A confirmation is handled before anything else happens.
InvConfirm ==
  /\ confirm # "none" => pc = "ready"
  /\ confirm = "rxDone" => State = "RF_RX_RUNNING"

GwInv == InvBoot /\ InvMachine /\ InvRadio /\ InvConfirm

\* With a main loop faster than the clock: the Timeout expires only while the
\* loop waits, with a reply to send and no transmission under way.
InvPrompt ==
  /\ wdTimer <=> State = "RF_TX_RUNNING"
  /\ pc \in Receiving => State = "RF_IDLE"
  /\ txTimer = 0 => pc = "ready" /\ gpc # "attach"
  /\ txTimer # Off \/ gpc = "attach" => flag
  /\ flag => State # "RF_TX_RUNNING"
-----------------------------------------------------------------------------
(***************************************************************************)
(* The types.                                                              *)
(***************************************************************************)
\* A statement of the main loop is one of the HAL, or leaves the HAL alone.
LEMMA MainStatement == Main => [Next]_vars
<1>1. HalStatement => Next
  BY DEF HalStatement, Next
<1>2. FirstReceive => Next
  BY DEF FirstReceive, Next, CallCommand
<1>3. Loop => [Next]_vars
  BY DEF Loop, Next, CallCommand
<1>4. TestFlag \/ Attach => UNCHANGED vars
  BY DEF TestFlag, Attach
<1> QED
  BY <1>1, <1>2, <1>3, <1>4 DEF Main

\* Handlers leave the types of the HAL alone, whatever they find.
LEMMA SleepNowTypes ==
  ASSUME TypeOK, SleepNow
  PROVE  /\ halFsmState' \in FsmStates /\ wdTimer' \in BOOLEAN
         /\ opMode' \in OpModes /\ State' \in RadioStates
<1>1. wdTimer' \in BOOLEAN
  BY Zenon DEF TypeOK, SleepNow
<1> QED
  BY <1>1 DEF TypeOK, SleepNow, ABORT, Aborted, HAL_FSM_do, FSMtransition,
     FSMnextState, Accepts, FsmStates, OpModes, RadioStates

LEMMA TransmitNowTypes ==
  ASSUME TypeOK, TransmitNow
  PROVE  /\ halFsmState' \in FsmStates /\ wdTimer' \in BOOLEAN
         /\ opMode' \in OpModes /\ State' \in RadioStates
         /\ cnf' \in {"none", "txDone", "rxDone", "rxCrcError", "rxTimeout"}
<1>1. wdTimer' \in BOOLEAN
  BY Zenon DEF TypeOK, TransmitNow
<1> QED
  BY <1>1 DEF TypeOK, TransmitNow, ABORT, Aborted, HAL_FSM_do, FSMtransition,
     FSMnextState, Accepts, FsmStates, OpModes, RadioStates

Confirmations == {"none", "txDone", "rxDone", "rxCrcError", "rxTimeout"}

\* The types of the gateway's own variables.
GwTypes ==
  /\ packetSize \in Sizes \union {0}
  /\ downlinkMsg \in Replies \union {NULL}
  /\ txTimer \in Off..ReplyDelay
  /\ gpc \in {"start", "loop", "flag", "attach", "sleep"}
  /\ confirm \in Confirmations

LEMMA TypesAre == GatewayTypeOK <=> TypeOK /\ GwTypes /\ flag \in BOOLEAN
  BY Zenon DEF GatewayTypeOK, GwTypes, Confirmations

\* Every step keeps the types of the HAL.
LEMMA GwHalTypes == TypeOK /\ [GatewayNext]_allVars => TypeOK'
<1> SUFFICES ASSUME TypeOK, [GatewayNext]_allVars PROVE TypeOK'
  OBVIOUS
<1>1. CASE Main
  BY <1>1, MainStatement, TypeStep
<1>2. CASE HalInterrupt
  BY <1>2, TypeStep DEF HalInterrupt, Next, Interrupt
<1>3. CASE HandleConfirmation
  <2>1. CASE SleepNow
    BY <1>3, <2>1, SleepNowTypes DEF HandleConfirmation, Between, mainVars, TypeOK
  <2>2. CASE UNCHANGED <<halFsmState, wdTimer, opMode, State>>
    BY <1>3, <2>2 DEF HandleConfirmation, Between, mainVars, TypeOK
  <2> QED
    BY <1>3, <2>1, <2>2 DEF HandleConfirmation, HalRxDone
<1>4. CASE HandlerTxTimeout
  BY <1>4, TransmitNowTypes DEF HandlerTxTimeout, Between, mainVars, TypeOK
<1>5. CASE GatewayRadio
  BY <1>5, TypeStep DEF GatewayRadio, Next, Radio
<1>6. CASE GatewayTick \/ UNCHANGED allVars
  BY <1>6, TypeStep DEF GatewayTick, allVars
<1> QED
  BY <1>1, <1>2, <1>3, <1>4, <1>5, <1>6 DEF GatewayNext

\* Every step keeps the gateway's own types.
LEMMA GwOwnTypes ==
  ASSUME TypeOK, TypeOK', GwTypes, flag \in BOOLEAN, [GatewayNext]_allVars
  PROVE  GwTypes' /\ flag' \in BOOLEAN
<1> USE GatewayAssumption DEF GwTypes, Confirmations, replyVars, gwVars, Off, Wake
<1>1. CASE Main
  <2>1. flag' \in BOOLEAN
    BY <1>1, Zenon DEF Main, HalStatement, FirstReceive, Loop, TestFlag, Attach
  <2> QED
    BY <1>1, <2>1 DEF Main, HalStatement, FirstReceive, Loop, TestFlag, Attach
<1>2. CASE HalInterrupt
  <2>1. flag' \in BOOLEAN
    BY <1>2, Zenon DEF HalInterrupt
  <2> QED
    BY <1>2, <2>1 DEF HalInterrupt, TypeOK
<1>3. CASE HandleConfirmation
  <2>1. flag' \in BOOLEAN
    BY <1>3, Zenon DEF HandleConfirmation, HalRxDone
  <2>2. packetSize' \in Sizes \union {0} /\ downlinkMsg' \in Replies \union {NULL}
    <3>1. CASE HalRxDone
      <4>1. PICK size \in Sizes, stat \in Statuses \union {"alien"} :
              \/ /\ stat \in DOMAIN Answer /\ packetSize' = size
                 /\ downlinkMsg' = [stat |-> Answer[stat], kept |-> packetSize]
              \/ packetSize' = size /\ UNCHANGED downlinkMsg
              \/ UNCHANGED replyVars
        BY <3>1 DEF HalRxDone, SetPktStat
      <4>2. ASSUME stat \in DOMAIN Answer PROVE Answer[stat] \in {"10", "11"}
        BY <4>2 DEF Answer
      <4> QED
        BY <4>1, <4>2 DEF Replies
    <3> QED
      BY <1>3, <3>1 DEF HandleConfirmation
  <2> QED
    BY <1>3, <2>1, <2>2 DEF HandleConfirmation
<1>4. CASE HandlerTxTimeout
  <2>1. flag' \in BOOLEAN
    BY <1>4, Zenon DEF HandlerTxTimeout
  <2> QED
    BY <1>4, <2>1 DEF HandlerTxTimeout
<1>5. CASE GatewayRadio
  BY <1>5, Zenon DEF GatewayRadio
<1>6. CASE GatewayTick
  <2>1. flag' \in BOOLEAN
    BY <1>6, Zenon DEF GatewayTick
  <2> QED
    BY <1>6, <2>1 DEF GatewayTick
<1>7. CASE UNCHANGED allVars
  BY <1>7, Zenon DEF allVars
<1> QED
  BY <1>1, <1>2, <1>3, <1>4, <1>5, <1>6, <1>7 DEF GatewayNext

\* Every variable keeps its type, for every delay, set of sizes and speed.
THEOREM GatewayTypeCorrect == GatewaySpec => []GatewayTypeOK
<1>1. GatewayInit => GatewayTypeOK
  <2> SUFFICES ASSUME GatewayInit PROVE TypeOK /\ GwTypes /\ flag \in BOOLEAN
    BY TypesAre
  <2>1. flag \in BOOLEAN
    BY Zenon DEF GatewayInit
  <2>2. TypeOK
    BY InitInvariant DEF GatewayInit, IInv
  <2> QED
    BY <2>1, <2>2, GatewayAssumption DEF GatewayInit, GwTypes, Confirmations, Off
<1>2. GatewayTypeOK /\ [GatewayNext]_allVars => GatewayTypeOK'
  <2>1. (GatewayTypeOK <=> TypeOK /\ GwTypes /\ flag \in BOOLEAN)'
    BY TypesAre, PTL
  <2> QED
    BY <2>1, TypesAre, GwHalTypes, GwOwnTypes
<1> QED
  BY <1>1, <1>2, PTL DEF GatewaySpec
-----------------------------------------------------------------------------
(***************************************************************************)
(* What holds at any speed of the main loop.                               *)
(***************************************************************************)
\* The HAL commands that a handler runs between two statements.
LEMMA SleepNowEffect ==
  ASSUME TypeOK, SleepNow, halFsmState # "CFGING"
  PROVE  /\ halFsmState' \in {"IDLE", "READY"} /\ ~wdTimer'
         /\ opMode' = "sleep" /\ State' = "RF_IDLE"
<1>1. ABORT /\ Aborted \in {"IDLE", "READY"}
  BY DEF TypeOK, FsmStates, ABORT, Aborted, HAL_FSM_do, FSMtransition,
     FSMnextState, Accepts
<1> QED
  BY <1>1, Zenon DEF SleepNow

LEMMA TransmitNowEffect ==
  ASSUME TypeOK, TransmitNow, halFsmState # "CFGING", State # "RF_TX_RUNNING",
         Accepted
  PROVE  /\ halFsmState' = "RUN" /\ wdTimer'
         /\ opMode' = "tx" /\ State' = "RF_TX_RUNNING"
  BY DEF TypeOK, FsmStates, TransmitNow, Startable, ABORT, Aborted, HAL_FSM_do,
     FSMtransition, FSMnextState, Accepts

\* The statements of HAL_cmd_init and HAL_cmd_receive keep the invariant.
LEMMA GwMainStep ==
  ASSUME GwInv, TypeOK, HalStatement
  PROVE  GwInv'
<1> USE DEF GwInv, InvBoot, InvMachine, InvRadio, InvConfirm, Receiving,
        HalStatement, MainFree, gwVars, replyVars, TypeOK, Active, Configuring,
        InitLabels, FsmLabels, FsmStates, FsmResults, Entities, RadioStates,
        OpModes, ConfigStages, RunningRx, halVars, mainVars, radioVars,
        Undisturbed, MainAt, GoOn, Return, Configured, Entity
<1>1. CASE HAL_cmd_init
  BY <1>1 DEF HAL_cmd_init
<1>2. CASE FsmRead
  BY <1>2 DEF FsmRead, FSMtransition, Accepts, EventAt
<1>3. CASE FsmWrite
  <2> USE <1>3 DEF FsmWrite, FSMnextState, EventAt, AfterFsm
  <2>1. CASE pc = "cfgReq"
    BY <2>1
  <2>2. CASE pc = "cfgEnd"
    BY <2>2
  <2>3. CASE pc = "runRx"
    BY <2>3
  <2> QED
    BY <2>1, <2>2, <2>3
<1>4. CASE ReserveCheck
  BY <1>4 DEF ReserveCheck
<1>5. CASE ReserveTake
  BY <1>5 DEF ReserveTake
<1>6. CASE Configure
  BY <1>6 DEF Configure, MayConfigure
<1>7. CASE WriteConfig
  BY <1>7 DEF WriteConfig, MayConfigure
<1>8. CASE Release
  BY <1>8 DEF Release
<1>9. CASE InitDone
  BY <1>9 DEF InitDone
<1>10. CASE StartRx
  BY <1>10 DEF StartRx
<1>11. CASE TxCheck \/ SleepDetach \/ SleepRadio \/ SleepIdle \/ StartTx
  BY <1>11 DEF TxCheck, SleepDetach, SleepRadio, SleepIdle, StartTx
<1> QED
  BY <1>1, <1>2, <1>3, <1>4, <1>5, <1>6, <1>7, <1>8, <1>9, <1>10, <1>11
     DEF MainStep

\* Every step keeps the invariant.
LEMMA GwInvStep ==
  ASSUME GwInv, TypeOK, [GatewayNext]_allVars
  PROVE  GwInv'
<1> USE DEF GwInv, InvBoot, InvMachine, InvRadio, InvConfirm, Receiving,
        Active, Configuring, InitLabels, FsmLabels, replyVars, gwVars, Off,
        Entity
<1>1. CASE HalStatement
  BY <1>1, GwMainStep
<1>2. CASE FirstReceive
  BY <1>2 DEF FirstReceive, GatewayAt, MainFree, MainAt, Undisturbed,
     HAL_cmd_receive, Call, halVars, radioVars, TypeOK, RadioStates, FsmStates
<1>3. CASE Loop
  BY <1>3 DEF Loop, GatewayAt, MainFree, MainAt, Undisturbed, HAL_cmd_receive,
     Call, halVars, radioVars, vars, mainVars, HAL_isRfActive, TypeOK, FsmStates
<1>4. CASE TestFlag \/ Attach
  BY <1>4 DEF TestFlag, Attach, GatewayAt, vars, halVars, mainVars, radioVars
<1>5. CASE HalInterrupt
  <2> USE <1>5 DEF HalInterrupt, Wake, HwDoneRx, SleepAndConfirm, HAL_FSM_do,
        FSMtransition, FSMnextState, Accepts, HAL_isRfActive, mainVars, TypeOK,
        FsmStates, RadioStates
  <2>1. CASE /\ HAL_hwDone
             /\ confirm' = IF halFsmState = "RUN" /\ HAL_isRfActive THEN cnf' ELSE "none"
    BY <2>1 DEF HAL_hwDone
  <2>2. CASE /\ HAL_swTimeout /\ (State = "RF_TX_RUNNING" => pc = "ready")
             /\ confirm' = IF halFsmState = "RUN" /\ State = "RF_RX_RUNNING"
                           THEN cnf' ELSE "none"
    BY <2>2 DEF HAL_swTimeout
  <2> QED
    BY <2>1, <2>2
<1>6. CASE HandleConfirmation
  <2>1. CASE SleepNow
    BY <1>6, <2>1, SleepNowEffect DEF HandleConfirmation, HalRxDone, Between,
       mainVars
  <2>2. CASE UNCHANGED <<halFsmState, wdTimer, opMode, State>>
    BY <1>6, <2>2 DEF HandleConfirmation, Between, mainVars
  <2> QED
    BY <1>6, <2>1, <2>2 DEF HandleConfirmation, HalRxDone
<1>7. CASE HandlerTxTimeout
  <2>1. CASE Startable
    BY <1>7, <2>1, TransmitNowEffect
       DEF HandlerTxTimeout, Startable, Between, mainVars, Wake
  <2>2. CASE ~Startable
    BY <1>7, <2>2 DEF HandlerTxTimeout, TransmitNow, Between, mainVars, Wake
  <2> QED
    BY <2>1, <2>2
<1>8. CASE GatewayRadio
  BY <1>8 DEF GatewayRadio, RadioTxDone, RadioRxDone, RunningRx, halVars, mainVars,
     TypeOK, RadioStates
<1>9. CASE GatewayTick
  BY <1>9, GatewayAssumption DEF GatewayTick, vars, halVars, mainVars, radioVars
<1>10. CASE UNCHANGED allVars
  BY <1>10 DEF allVars, vars, halVars, mainVars, radioVars
<1> QED
  BY <1>1, <1>2, <1>3, <1>4, <1>5, <1>6, <1>7, <1>8, <1>9, <1>10
     DEF GatewayNext, Main

\* The invariant holds at any speed of the main loop.
THEOREM GatewayInvariant == GatewaySpec => [](GwInv /\ TypeOK)
<1>1. GatewayInit => GwInv /\ TypeOK
  <2>1. GatewayInit => TypeOK
    BY InitInvariant DEF GatewayInit, IInv
  <2>2. GatewayInit => GwInv
    BY DEF GatewayInit, Init, GwInv, InvBoot, InvMachine, InvRadio, InvConfirm,
       Receiving, Active, Configuring, InitLabels, FsmLabels
  <2> QED
    BY <2>1, <2>2
<1>2. GwInv /\ TypeOK /\ [GatewayNext]_allVars => GwInv' /\ TypeOK'
  BY GwInvStep, GwHalTypes
<1> QED
  BY <1>1, <1>2, PTL DEF GatewaySpec

\* Whenever a command has returned, the machine is in RUN exactly while an
\* operation runs, although a handler may have transmitted inside the command:
\* HAL_hwDone drops no confirmation.
THEOREM GatewayRunCorrect == GatewaySpec => []RunMeansActive
<1>1. GwInv => RunMeansActive
  BY DEF GwInv, InvMachine, Active, RunMeansActive
<1> QED
  BY <1>1, GatewayInvariant, PTL

\* The radio does what State says, or its interrupt is pending, whichever
\* handler transmits inside which statement of HAL_cmd_receive.
THEOREM GatewayStateCorrect == GatewaySpec => []StateMatchesRadio
<1>1. GwInv => StateMatchesRadio
  BY DEF GwInv, InvRadio, RunningRx, StateMatchesRadio
<1> QED
  BY <1>1, GatewayInvariant, PTL
-----------------------------------------------------------------------------
(***************************************************************************)
(* What holds with a main loop faster than the clock.                      *)
(***************************************************************************)
\* Every step keeps the prompt invariant.
LEMMA InvPromptStep ==
  ASSUME PromptMain, InvPrompt, GwInv, TypeOK, flag \in BOOLEAN,
         GwTypes, [GatewayNext]_allVars
  PROVE  InvPrompt'
<1> USE DEF InvPrompt, Receiving, replyVars, gwVars, Off
<1>1. CASE HalStatement
  <2> USE <1>1 DEF GwInv, InvBoot, HalStatement, MainFree, TypeOK, InitLabels,
        Configuring, FsmLabels, halVars, mainVars, radioVars, Undisturbed,
        MainAt, GoOn, Return, Configured
  <2>1. CASE HAL_cmd_init \/ FsmRead
    BY <2>1 DEF HAL_cmd_init, FsmRead
  <2>2. CASE FsmWrite
    BY <2>2 DEF FsmWrite, AfterFsm
  <2>3. CASE ReserveCheck \/ ReserveTake \/ Configure \/ WriteConfig \/ Release
    BY <2>3 DEF ReserveCheck, ReserveTake, Configure, WriteConfig, Release
  <2>4. CASE InitDone
    BY <2>4 DEF InitDone
  <2>5. CASE StartRx
    BY <2>5 DEF StartRx
  <2>6. CASE TxCheck \/ SleepDetach \/ SleepRadio \/ SleepIdle \/ StartTx
    BY <2>6 DEF TxCheck, SleepDetach, SleepRadio, SleepIdle, StartTx
  <2> QED
    BY <2>1, <2>2, <2>3, <2>4, <2>5, <2>6 DEF MainStep
<1>2. CASE FirstReceive
  BY <1>2 DEF GwInv, InvBoot, FirstReceive, GatewayAt, MainFree, MainAt,
     HAL_cmd_receive, Call, halVars, radioVars
<1>3. CASE Loop
  BY <1>3 DEF Loop, GatewayAt, MainFree, MainAt, HAL_cmd_receive, Call, halVars,
     vars, mainVars, HAL_isRfActive
<1>4. CASE TestFlag \/ Attach
  BY <1>4, GatewayAssumption DEF TestFlag, Attach, GatewayAt, MainFree, MainAt,
     vars, halVars, mainVars
<1>5. CASE HalInterrupt
  <2> USE DEF HalInterrupt, Wake, HwDoneRx, SleepAndConfirm, mainVars, GwInv,
        InvRadio, TypeOK
  <2>1. CASE HAL_hwDone
    BY <1>5, <2>1 DEF HAL_hwDone
  <2>2. CASE HAL_swTimeout
    BY <1>5, <2>2 DEF HAL_swTimeout
  <2> QED
    BY <1>5, <2>1, <2>2
<1>6. CASE HandleConfirmation
  <2> USE DEF GwInv, InvConfirm
  <2>1. CASE SleepNow /\ UNCHANGED flag
    BY <1>6, <2>1, SleepNowEffect DEF HandleConfirmation, Between, mainVars,
       InvMachine
  <2>2. CASE confirm = "rxDone" /\ UNCHANGED <<halFsmState, wdTimer, opMode, State>>
    <3>1. flag' \in BOOLEAN /\ (flag => flag')
      BY <1>6, <2>2, Zenon DEF HandleConfirmation, HalRxDone
    <3> QED
      BY <1>6, <2>2, <3>1 DEF HandleConfirmation, Between, mainVars
  <2> QED
    BY <1>6, <2>1, <2>2 DEF HandleConfirmation, HalRxDone
<1>7. CASE HandlerTxTimeout
  <2>1. /\ txTimer = 0 /\ txTimer' = Off /\ ~flag'
        /\ UNCHANGED <<pc>> /\ gpc' # "attach"
    BY <1>7 DEF HandlerTxTimeout, Wake, Between, mainVars
  <2>2. State # "RF_TX_RUNNING" /\ pc = "ready" /\ halFsmState # "CFGING"
    BY <2>1 DEF GwInv, InvMachine
  <2>3. CASE Accepted
    <3>1. wdTimer' /\ State' = "RF_TX_RUNNING"
      BY <1>7, <2>2, <2>3, TransmitNowEffect DEF HandlerTxTimeout
    <3> QED
      BY <2>1, <2>2, <3>1
  <2>4. CASE ~Accepted
    <3>1. UNCHANGED <<wdTimer, State>>
      BY <1>7, <2>4 DEF HandlerTxTimeout, TransmitNow, Startable
    <3> QED
      BY <2>1, <2>2, <3>1
  <2> QED
    BY <2>3, <2>4
<1>8. CASE GatewayRadio
  BY <1>8 DEF GatewayRadio, RadioTxDone, RadioRxDone, halVars, mainVars
<1>9. CASE GatewayTick
  BY <1>9, GatewayAssumption DEF GatewayTick, Quiet, vars, halVars, mainVars, GwTypes
<1>10. CASE UNCHANGED allVars
  BY <1>10 DEF allVars, vars, halVars, mainVars
<1> QED
  BY <1>1, <1>2, <1>3, <1>4, <1>5, <1>6, <1>7, <1>8, <1>9, <1>10
     DEF GatewayNext, Main

\* The whole invariant of a prompt gateway.
PInv == InvPrompt /\ GwInv /\ GatewayTypeOK

LEMMA PromptInvariant ==
  ASSUME PromptMain
  PROVE  GatewaySpec => []PInv
<1>1. GatewayInit => InvPrompt
  BY DEF GatewayInit, Init, InvPrompt, Receiving, Off
<1>2. InvPrompt /\ GwInv /\ TypeOK /\ GatewayTypeOK /\ [GatewayNext]_allVars
        => InvPrompt'
  BY InvPromptStep, TypesAre
<1> QED
  BY <1>1, <1>2, GatewayInvariant, GatewayTypeCorrect, PTL DEF GatewaySpec, PInv

\* The handler's transmission has its watchdog, and no watchdog outlives its
\* transmission to cut the reception that follows.
THEOREM GatewayWatchdogCorrect ==
  ASSUME PromptMain
  PROVE  GatewaySpec => []WatchdogGuardsTx
<1>1. PInv => WatchdogGuardsTx
  BY DEF PInv, InvPrompt, WatchdogGuardsTx
<1> QED
  BY <1>1, PromptInvariant, PTL

\* setPktStat builds a reply or leaves the last one alone.
LEMMA BuiltReply ==
  ASSUME NEW stat, SetPktStat(stat)
  PROVE  UNCHANGED downlinkMsg \/ downlinkMsg' # NULL
<1>1. stat \in DOMAIN Answer => Answer[stat] \in {"10", "11"}
  BY DEF Answer
<1> QED
  BY <1>1 DEF SetPktStat, NULL

\* What a step of the gateway does to a reply that is due, and on the air.
LEMMA ReplyStep ==
  ASSUME PInv, PInv', [GatewayNext]_allVars
  PROVE  [Answers!Next]_(Answers!vars)
<1> USE DEF Answers!Next, Answers!Listen, Answers!Drop, Answers!Take,
        Answers!Repeat, Answers!Reply, Answers!Refuse, Answers!Replied,
        Answers!vars, Air, PInv, InvPrompt, Receiving,
        replyVars, gwVars, Off
<1>1. CASE HalStatement
  <2> USE <1>1 DEF GwInv, InvBoot, HalStatement, MainFree, TypeOK, InitLabels,
        Configuring, FsmLabels, halVars, mainVars, radioVars, Undisturbed,
        MainAt, GoOn, Return, Configured
  <2>1. CASE HAL_cmd_init \/ FsmRead
    BY <2>1 DEF HAL_cmd_init, FsmRead
  <2>2. CASE FsmWrite
    BY <2>2 DEF FsmWrite, AfterFsm
  <2>3. CASE ReserveCheck \/ ReserveTake \/ Configure \/ WriteConfig \/ Release
    BY <2>3 DEF ReserveCheck, ReserveTake, Configure, WriteConfig, Release
  <2>4. CASE InitDone
    BY <2>4 DEF InitDone
  <2>5. CASE StartRx
    BY <2>5 DEF StartRx
  <2>6. CASE TxCheck \/ SleepDetach \/ SleepRadio \/ SleepIdle \/ StartTx
    BY <2>6 DEF TxCheck, SleepDetach, SleepRadio, SleepIdle, StartTx
  <2> QED
    BY <2>1, <2>2, <2>3, <2>4, <2>5, <2>6 DEF MainStep
<1>2. CASE FirstReceive \/ Loop \/ TestFlag \/ Attach
  BY <1>2 DEF FirstReceive, Loop, TestFlag, Attach, HAL_cmd_receive, Call,
     halVars, vars
<1>3. CASE HalInterrupt
  <2> USE DEF HalInterrupt, HwDoneRx, SleepAndConfirm, HAL_FSM_do, FSMtransition,
        FSMnextState, Accepts, GwInv, InvRadio
  <2>1. CASE HAL_hwDone
    BY <1>3, <2>1 DEF HAL_hwDone
  <2>2. CASE HAL_swTimeout
    BY <1>3, <2>2 DEF HAL_swTimeout
  <2> QED
    BY <1>3, <2>1, <2>2
<1>4. CASE HandleConfirmation
  <2>1. TypeOK /\ halFsmState # "CFGING" /\ confirm # "none"
    BY <1>4, TypesAre DEF HandleConfirmation, GwInv, InvConfirm, InvMachine
  <2>2. CASE SleepNow /\ UNCHANGED <<flag, downlinkMsg>>
    BY <2>1, <2>2, SleepNowEffect
  <2>3. CASE /\ confirm = "rxDone" /\ UNCHANGED <<halFsmState, State>> /\ flag'
             /\ downlinkMsg' # NULL \/ UNCHANGED downlinkMsg
    BY <2>1, <2>3 DEF GwInv, InvConfirm, InvMachine, Active
  <2>4. CASE confirm = "rxDone" /\ HalRxDone
    <3>1. PICK size \in Sizes, stat \in Statuses \union {"alien"} :
            \/ SleepNow /\ UNCHANGED replyVars
            \/ SetPktStat(stat) /\ flag' /\ UNCHANGED <<halFsmState, State>>
      BY <2>4 DEF HalRxDone
    <3> QED
      BY <2>2, <2>3, <2>4, <3>1, BuiltReply
  <2> QED
    BY <1>4, <2>2, <2>4 DEF HandleConfirmation
<1>5. CASE HandlerTxTimeout
  <2>1. /\ flag /\ ~flag' /\ UNCHANGED downlinkMsg
        /\ State # "RF_TX_RUNNING" /\ TypeOK /\ halFsmState # "CFGING"
    BY <1>5, TypesAre DEF HandlerTxTimeout, GwInv, InvMachine
  <2>2. CASE Accepted
    <3>1. halFsmState' = "RUN" /\ State' = "RF_TX_RUNNING"
      BY <1>5, <2>1, <2>2, TransmitNowEffect DEF HandlerTxTimeout
    <3> QED
      BY <2>1, <2>2, <3>1 DEF Accepted
  <2>3. CASE ~Accepted
    <3>1. UNCHANGED <<halFsmState, State>>
      BY <1>5, <2>3 DEF HandlerTxTimeout, TransmitNow, Startable
    <3> QED
      BY <2>1, <2>3, <3>1 DEF Accepted
  <2> QED
    BY <2>2, <2>3
<1>6. CASE GatewayRadio \/ GatewayTick
  BY <1>6 DEF GatewayRadio, RadioTxDone, RadioRxDone, GatewayTick, vars, halVars
<1>7. CASE UNCHANGED allVars
  BY <1>7 DEF allVars, vars, halVars
<1> QED
  BY <1>1, <1>2, <1>3, <1>4, <1>5, <1>6, <1>7 DEF GatewayNext, Main

\* A gateway whose main loop is faster than the clock transmits each reply
\* that is due once and to its end, for every ReplyDelay, and drops only what
\* packets of an untested status ask for before any reply was built.
THEOREM ReplyCycleCorrect ==
  ASSUME PromptMain
  PROVE  GatewaySpec => ImplementsReplyCycle
<1>1. GatewayInit => Answers!Init
  BY DEF GatewayInit, Init, Answers!Init, Air
<1> QED
  BY <1>1, ReplyStep, PromptInvariant, PTL
     DEF GatewaySpec, ImplementsReplyCycle, Answers!Spec

Starts == State # "RF_TX_RUNNING" /\ State' = "RF_TX_RUNNING"

\* With such a loop flag and nothing else has the gateway transmit: that the
\* Timeout expires between the test of flag and the attach is the only way to
\* a second transmission of a reply.
THEOREM FlagCorrect ==
  ASSUME PromptMain
  PROVE  GatewaySpec => FlagSendsTx
<1>1. PInv /\ [GatewayNext]_allVars => [Starts => flag]_allVars
  <2> SUFFICES ASSUME PInv, GatewayNext, Starts PROVE flag
    BY DEF allVars, vars, halVars, Starts
  <2> USE DEF Starts, PInv, InvPrompt, Off
  <2>1. CASE Main
    BY <2>1 DEF Main, HalStatement, FirstReceive, Loop, TestFlag, Attach,
       HAL_cmd_init, HAL_cmd_receive, Call, MainStep, FsmRead, FsmWrite,
       ReserveCheck, ReserveTake, Configure, WriteConfig, Release, InitDone,
       TxCheck, SleepDetach, SleepRadio, SleepIdle, StartRx, StartTx, halVars,
       vars, MainAt, GwInv, InvBoot, Receiving, InitLabels, Configuring
  <2>2. CASE HalInterrupt
    BY <2>2 DEF HalInterrupt, HAL_hwDone, HAL_swTimeout, HwDoneRx, SleepAndConfirm
  <2>3. CASE HandleConfirmation
    BY <2>3 DEF HandleConfirmation, HalRxDone, SleepNow
  <2>4. CASE HandlerTxTimeout
    BY <2>4 DEF HandlerTxTimeout
  <2>5. CASE GatewayRadio \/ GatewayTick
    BY <2>5 DEF GatewayRadio, RadioTxDone, RadioRxDone, GatewayTick, vars, halVars
  <2> QED
    BY <2>1, <2>2, <2>3, <2>4, <2>5 DEF GatewayNext
<1> QED
  BY <1>1, PromptInvariant, PTL DEF GatewaySpec, FlagSendsTx, Starts
=============================================================================
