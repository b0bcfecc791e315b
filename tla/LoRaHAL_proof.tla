--------------------------- MODULE LoRaHAL_proof ----------------------------
(***************************************************************************)
(* Proofs about the HAL, for every set of commands the layer above calls.  *)
(* TLC checks the same properties in the run of MCLoRaHAL.cfg.             *)
(***************************************************************************)
EXTENDS LoRaHAL, TLAPS

Active == State \in {"RF_RX_RUNNING", "RF_TX_RUNNING"}

\* The statements of a command, by what they may find.
Settled == {"ready", "own", "cfgReq", "up", "txCheck", "abort", "runRx", "runTx"}
Configuring == {"take", "cfg", "hw", "cfgEnd"}
Stopping == {"detach", "hwSleep", "rfIdle", "slept"}
Starting == {"rx", "tx"}
InitLabels == Configuring \union {"own", "cfgReq", "free", "up"}

\* The machine, the operation the HAL believes in and the reservation, at
\* every statement of the main thread.
Phases ==
  /\ pc \in Settled =>
       halFsmState # "CFGING" /\ (halFsmState = "RUN" <=> Active)
  /\ pc = "runTx" => halFsmState # "RUN"
  /\ pc \in Configuring => halFsmState = "CFGING" /\ ~Active
  /\ pc = "free" => halFsmState = "READY" /\ ~Active
  /\ pc \in Stopping =>
       halFsmState \in {"IDLE", "CFGING"} /\ (halFsmState = "IDLE" => ~Active)
  /\ pc = "slept" => ~Active
  /\ pc \in Starting => halFsmState = "RUN" /\ ~Active
  /\ resOwner = IF pc \in {"cfg", "hw", "cfgEnd", "free"} THEN Entity ELSE "NONE"

\* What a verdict read earlier still says when the state is moved.
Verdicts ==
  /\ fres # "none" => pc \in FsmLabels
  /\ fres = "WARNING" => pc \in {"runRx", "runTx"}
  /\ fres = "SUCCESS" /\ pc \in {"cfgReq", "runRx", "runTx"} =>
       halFsmState # "RUN"
  /\ pc = "cfgEnd" => fres # "CANNOTHAPPEN"
  /\ pc = "slept" /\ fres = "CANNOTHAPPEN" => halFsmState = "IDLE"
  /\ fres = "WARNING" => halFsmState # "RUN"

\* A command that initialises the HAL starts no operation.
Initialising ==
  /\ job = "init" => State = "RF_NULL" /\ pc \in InitLabels
  /\ pc = "up" => job = "init"

\* HAL_cmd_transmit aborts no transmission.
Aborting ==
  /\ pc = "txCheck" => job = "transmit"
  /\ pc \in Stopping \union {"abort"} =>
       job = "Sleep" \/ (job = "transmit" /\ State # "RF_TX_RUNNING")

\* The watchdog, also between the statements of HAL_Sleep.
Watchdog ==
  /\ WatchdogGuardsTx
  /\ pc \in {"hwSleep", "rfIdle"} => ~wdTimer

\* The radio does what State says, or has raised the interrupt that will
\* correct it.
RadioAgrees ==
  /\ ~Active => opMode = "sleep"
  /\ pc = "rfIdle" => opMode = "sleep"
  /\ opMode = "tx" => State = "RF_TX_RUNNING"
  /\ opMode \in RunningRx => State = "RF_RX_RUNNING"
  /\ pc # "rfIdle" /\ State = "RF_TX_RUNNING" => opMode = "tx" \/ dio0 = "txDone"
  /\ pc # "rfIdle" /\ State = "RF_RX_RUNNING" =>
       IF RxContinuous THEN opMode = "rxContinuous"
       ELSE opMode = "rxSingle" \/ dio0 # "none" \/ dio1
  /\ opMode = "tx" => dio0 = "none"
  /\ State = "RF_RX_RUNNING" /\ RxContinuous => ~dio1

\* The inductive invariant.
IInv ==
  /\ TypeOK /\ Phases /\ Verdicts /\ Initialising /\ Aborting
  /\ Watchdog /\ RadioAgrees
-----------------------------------------------------------------------------
(***************************************************************************)
(* The types.                                                              *)
(***************************************************************************)
\* The HAL starts in a state of the invariant.
LEMMA InitInvariant == Init => IInv
  BY DEF Init, Entity, IInv, Phases, Verdicts, Initialising, Aborting,
     Watchdog, RadioAgrees, WatchdogGuardsTx, Active, Settled, Configuring,
     Stopping, Starting, InitLabels, TypeOK, Labels, FsmLabels, CommandNames,
     FsmStates, FsmResults, Entities, RadioStates, OpModes, ConfigStages,
     RunningRx

\* Every step of the main thread, the radio and the handlers keeps the types.
LEMMA TypeStep == TypeOK /\ [Next]_vars => TypeOK'
<1> SUFFICES ASSUME TypeOK, [Next]_vars PROVE TypeOK'
  OBVIOUS
<1> USE DEF TypeOK, Labels, FsmLabels, CommandNames, FsmStates, FsmResults,
        Entities, RadioStates, OpModes, ConfigStages, RunningRx, halVars,
        mainVars, radioVars, Undisturbed, MainAt, GoOn, Return, Configured,
        Entity
<1>1. CASE HAL_cmd_init
  BY <1>1 DEF HAL_cmd_init
<1>2. CASE HAL_cmd_SetTxConfig
  BY <1>2 DEF HAL_cmd_SetTxConfig, CallConfig, Call
<1>3. CASE HAL_cmd_SetRfTxPower
  BY <1>3 DEF HAL_cmd_SetRfTxPower, CallConfig, Call
<1>4. CASE HAL_cmd_SetRxConfig
  BY <1>4 DEF HAL_cmd_SetRxConfig, CallConfig, Call
<1>5. CASE HAL_cmd_receive
  BY <1>5 DEF HAL_cmd_receive, Call
<1>6. CASE HAL_cmd_transmit
  BY <1>6 DEF HAL_cmd_transmit, Call
<1>7. CASE HAL_cmd_Sleep
  BY <1>7 DEF HAL_cmd_Sleep, Call
<1>8. CASE FsmRead
  BY <1>8 DEF FsmRead, FSMtransition, Accepts, EventAt
<1>9. CASE FsmWrite
  <2> USE <1>9 DEF FsmWrite, FSMnextState, EventAt, AfterFsm
  <2>1. CASE pc = "cfgReq"
    BY <2>1
  <2>2. CASE pc = "cfgEnd"
    BY <2>2
  <2>3. CASE pc = "abort"
    BY <2>3
  <2>4. CASE pc = "slept"
    BY <2>4
  <2>5. CASE pc = "runRx"
    BY <2>5
  <2>6. CASE pc = "runTx"
    BY <2>6
  <2> QED
    BY <2>1, <2>2, <2>3, <2>4, <2>5, <2>6
<1>10. CASE ReserveCheck
  BY <1>10 DEF ReserveCheck
<1>11. CASE ReserveTake
  BY <1>11 DEF ReserveTake
<1>12. CASE Configure
  BY <1>12 DEF Configure, MayConfigure
<1>13. CASE WriteConfig
  BY <1>13 DEF WriteConfig, MayConfigure
<1>14. CASE Release
  BY <1>14 DEF Release
<1>15. CASE InitDone
  BY <1>15 DEF InitDone
<1>16. CASE TxCheck
  BY <1>16 DEF TxCheck
<1>17. CASE SleepDetach
  <2>1. wdTimer' \in BOOLEAN
    BY <1>17, Zenon DEF SleepDetach
  <2> QED
    BY <1>17, <2>1 DEF SleepDetach
<1>18. CASE SleepRadio
  BY <1>18 DEF SleepRadio
<1>19. CASE SleepIdle
  BY <1>19 DEF SleepIdle
<1>20. CASE StartRx
  BY <1>20 DEF StartRx
<1>21. CASE StartTx
  BY <1>21 DEF StartTx
<1>22. CASE RadioTxDone
  BY <1>22 DEF RadioTxDone
<1>23. CASE RadioRxDone
  BY <1>23 DEF RadioRxDone
<1>24. CASE RadioRxTimeout
  BY <1>24 DEF RadioRxTimeout
<1>25. CASE HAL_hwDone
  <2>1. wdTimer' \in BOOLEAN
    BY <1>25, Zenon DEF HAL_hwDone, HwDoneRx, SleepAndConfirm, HAL_FSM_do,
       FSMtransition, FSMnextState, Accepts
  <2> QED
    BY <1>25, <2>1 DEF HAL_hwDone, HwDoneRx, SleepAndConfirm, HAL_FSM_do,
       FSMtransition, FSMnextState, Accepts
<1>26. CASE HAL_hwTimeout
  <2>1. wdTimer' \in BOOLEAN /\ dio1' \in BOOLEAN
    BY <1>26, Zenon DEF HAL_hwTimeout, SleepAndConfirm, HAL_FSM_do,
       FSMtransition, FSMnextState, Accepts
  <2> QED
    BY <1>26, <2>1 DEF HAL_hwTimeout, SleepAndConfirm, HAL_FSM_do,
       FSMtransition, FSMnextState, Accepts
<1>27. CASE HAL_swTimeout
  <2>1. wdTimer' \in BOOLEAN
    BY <1>27, Zenon DEF HAL_swTimeout, SleepAndConfirm, HAL_FSM_do,
       FSMtransition, FSMnextState, Accepts
  <2> QED
    BY <1>27, <2>1 DEF HAL_swTimeout, SleepAndConfirm, HAL_FSM_do,
       FSMtransition, FSMnextState, Accepts
<1>28. CASE UNCHANGED vars
  BY <1>28 DEF vars
<1> QED
  BY <1>1, <1>2, <1>3, <1>4, <1>5, <1>6, <1>7, <1>8, <1>9, <1>10, <1>11,
     <1>12, <1>13, <1>14, <1>15, <1>16, <1>17, <1>18, <1>19, <1>20, <1>21,
     <1>22, <1>23, <1>24, <1>25, <1>26, <1>27, <1>28
     DEF Next, CallCommand, MainStep, Radio, Interrupt

\* The types hold in every behaviour, whichever commands are called.
THEOREM TypeCorrect == Spec => []TypeOK
<1>1. Init => TypeOK
  BY InitInvariant DEF IInv
<1> QED
  BY <1>1, TypeStep, PTL DEF Spec
-----------------------------------------------------------------------------
(***************************************************************************)
(* The invariant, and the safety properties it implies.                    *)
(***************************************************************************)
\* Every step keeps the invariant: a handler that runs between two statements
\* leaves what the next statement relies on.
LEMMA InvariantStep == IInv /\ [Next]_vars => IInv'
<1> SUFFICES ASSUME IInv, [Next]_vars
             PROVE  (/\ Phases /\ Verdicts /\ Initialising /\ Aborting
                     /\ Watchdog /\ RadioAgrees)'
  BY TypeStep DEF IInv
<1> USE DEF IInv, Phases, Verdicts, Initialising, Aborting, Watchdog,
        RadioAgrees, WatchdogGuardsTx, Active, Settled, Configuring, Stopping,
        Starting, InitLabels, TypeOK, Labels, FsmLabels, CommandNames,
        FsmStates, FsmResults, Entities, RadioStates, OpModes, ConfigStages,
        RunningRx, halVars, mainVars, radioVars, Undisturbed, MainAt, GoOn,
        Return, Configured, Entity
<1>1. CASE HAL_cmd_init
  BY <1>1 DEF HAL_cmd_init
<1>2. CASE HAL_cmd_SetTxConfig
  BY <1>2 DEF HAL_cmd_SetTxConfig, CallConfig, Call
<1>3. CASE HAL_cmd_SetRfTxPower
  BY <1>3 DEF HAL_cmd_SetRfTxPower, CallConfig, Call
<1>4. CASE HAL_cmd_SetRxConfig
  BY <1>4 DEF HAL_cmd_SetRxConfig, CallConfig, Call
<1>5. CASE HAL_cmd_receive
  BY <1>5 DEF HAL_cmd_receive, Call
<1>6. CASE HAL_cmd_transmit
  BY <1>6 DEF HAL_cmd_transmit, Call
<1>7. CASE HAL_cmd_Sleep
  BY <1>7 DEF HAL_cmd_Sleep, Call
<1>8. CASE FsmRead
  BY <1>8 DEF FsmRead, FSMtransition, Accepts, EventAt
<1>9. CASE FsmWrite
  <2> USE <1>9 DEF FsmWrite, FSMnextState, EventAt, AfterFsm
  <2>1. CASE pc = "cfgReq"
    BY <2>1
  <2>2. CASE pc = "cfgEnd"
    BY <2>2
  <2>3. CASE pc = "abort"
    BY <2>3
  <2>4. CASE pc = "slept"
    BY <2>4
  <2>5. CASE pc = "runRx"
    BY <2>5
  <2>6. CASE pc = "runTx"
    BY <2>6
  <2> QED
    BY <2>1, <2>2, <2>3, <2>4, <2>5, <2>6
<1>10. CASE ReserveCheck
  BY <1>10 DEF ReserveCheck
<1>11. CASE ReserveTake
  BY <1>11 DEF ReserveTake
<1>12. CASE Configure
  BY <1>12 DEF Configure, MayConfigure
<1>13. CASE WriteConfig
  BY <1>13 DEF WriteConfig, MayConfigure
<1>14. CASE Release
  BY <1>14 DEF Release
<1>15. CASE InitDone
  BY <1>15 DEF InitDone
<1>16. CASE TxCheck
  BY <1>16 DEF TxCheck
<1>17. CASE SleepDetach
  <2> USE <1>17 DEF SleepDetach
  <2>1. Phases'
    OBVIOUS
  <2>2. Verdicts'
    OBVIOUS
  <2>3. Initialising'
    OBVIOUS
  <2>4. Aborting'
    OBVIOUS
  <2>5. Watchdog'
    OBVIOUS
  <2>6. RadioAgrees'
    OBVIOUS
  <2> QED
    BY <2>1, <2>2, <2>3, <2>4, <2>5, <2>6
<1>18. CASE SleepRadio
  BY <1>18 DEF SleepRadio
<1>19. CASE SleepIdle
  BY <1>19 DEF SleepIdle
<1>20. CASE StartRx
  BY <1>20 DEF StartRx
<1>21. CASE StartTx
  BY <1>21 DEF StartTx
<1>22. CASE RadioTxDone
  BY <1>22 DEF RadioTxDone
<1>23. CASE RadioRxDone
  BY <1>23 DEF RadioRxDone
<1>24. CASE RadioRxTimeout
  BY <1>24 DEF RadioRxTimeout
<1>25. CASE HAL_hwDone
  <2> USE <1>25 DEF HAL_hwDone, HwDoneRx, SleepAndConfirm, HAL_FSM_do,
        FSMtransition, FSMnextState, Accepts
  <2>1. Phases'
    OBVIOUS
  <2>2. Verdicts'
    OBVIOUS
  <2>3. Initialising'
    OBVIOUS
  <2>4. Aborting'
    OBVIOUS
  <2>5. Watchdog'
    OBVIOUS
  <2>6. RadioAgrees'
    OBVIOUS
  <2> QED
    BY <2>1, <2>2, <2>3, <2>4, <2>5, <2>6
<1>26. CASE HAL_hwTimeout
  <2> USE <1>26 DEF HAL_hwTimeout, SleepAndConfirm, HAL_FSM_do, FSMtransition,
        FSMnextState, Accepts
  <2>1. Phases'
    OBVIOUS
  <2>2. Verdicts'
    OBVIOUS
  <2>3. Initialising'
    OBVIOUS
  <2>4. Aborting'
    OBVIOUS
  <2>5. Watchdog'
    OBVIOUS
  <2>6. RadioAgrees'
    OBVIOUS
  <2> QED
    BY <2>1, <2>2, <2>3, <2>4, <2>5, <2>6
<1>27. CASE HAL_swTimeout
  <2> USE <1>27 DEF HAL_swTimeout, SleepAndConfirm, HAL_FSM_do, FSMtransition,
        FSMnextState, Accepts
  <2>1. Phases'
    OBVIOUS
  <2>2. Verdicts'
    OBVIOUS
  <2>3. Initialising'
    OBVIOUS
  <2>4. Aborting'
    OBVIOUS
  <2>5. Watchdog'
    OBVIOUS
  <2>6. RadioAgrees'
    OBVIOUS
  <2> QED
    BY <2>1, <2>2, <2>3, <2>4, <2>5, <2>6
<1>28. CASE UNCHANGED vars
  BY <1>28 DEF vars
<1> QED
  BY <1>1, <1>2, <1>3, <1>4, <1>5, <1>6, <1>7, <1>8, <1>9, <1>10, <1>11,
     <1>12, <1>13, <1>14, <1>15, <1>16, <1>17, <1>18, <1>19, <1>20, <1>21,
     <1>22, <1>23, <1>24, <1>25, <1>26, <1>27, <1>28
     DEF Next, CallCommand, MainStep, Radio, Interrupt

\* The inductive invariant holds in every behaviour.
THEOREM Invariant == Spec => []IInv
  BY InitInvariant, InvariantStep, PTL DEF Spec

\* A running transmission has its watchdog, and no watchdog outlives its
\* transmission (HAL_capi_startTx, HAL_Sleep, HAL_swTimeout).
THEOREM WatchdogCorrect == Spec => []WatchdogGuardsTx
<1>1. IInv => WatchdogGuardsTx
  BY DEF IInv, Watchdog, WatchdogGuardsTx
<1> QED
  BY <1>1, Invariant, PTL

\* A command that returns has given the common resource back, whatever the
\* handlers did between its statements.
THEOREM ReleaseCorrect == Spec => []ResourceReleased
<1>1. IInv => ResourceReleased
  BY DEF IInv, Phases, Settled, ResourceReleased
<1> QED
  BY <1>1, Invariant, PTL

\* The reservation and the machine agree while a command configures.
THEOREM OwnerCorrect == Spec => []OwnerConfigures
<1>1. IInv => OwnerConfigures
  BY DEF IInv, Phases, Active, Configuring, OwnerConfigures
<1> QED
  BY <1>1, Invariant, PTL

\* Between commands the machine is in RUN exactly while an operation runs: no
\* confirmation is dropped.
THEOREM RunCorrect == Spec => []RunMeansActive
<1>1. IInv => RunMeansActive
  BY DEF IInv, Phases, Settled, Active, RunMeansActive
<1> QED
  BY <1>1, Invariant, PTL

\* The radio does what the HAL says, or its interrupt is pending.
THEOREM StateCorrect == Spec => []StateMatchesRadio
<1>1. IInv => StateMatchesRadio
  BY DEF IInv, RadioAgrees, Active, RunningRx, StateMatchesRadio
<1> QED
  BY <1>1, Invariant, PTL
-----------------------------------------------------------------------------
(***************************************************************************)
(* Transmissions are not cut.                                              *)
(***************************************************************************)
Cut == opMode = "tx" /\ opMode' # "tx"
Allowed == opMode' = "standby" \/ (wdTimer /\ ~wdTimer') \/ job = "Sleep"

\* A step that ends a transmission is one of the three that may.
LEMMA CutStep == IInv /\ [Next]_vars /\ Cut => Allowed
<1> SUFFICES ASSUME IInv, [Next]_vars, Cut PROVE Allowed
  OBVIOUS
<1> USE DEF Cut, Allowed, IInv, Phases, Verdicts, Initialising, Aborting,
        Watchdog, RadioAgrees, WatchdogGuardsTx, Active, Settled, Configuring,
        Stopping, Starting, InitLabels, TypeOK, Labels, FsmLabels,
        CommandNames, FsmStates, FsmResults, Entities, RadioStates, OpModes,
        ConfigStages, RunningRx, halVars, mainVars, radioVars, Undisturbed,
        MainAt, GoOn, Return, Configured, Entity
<1>1. CASE HAL_cmd_init
  BY <1>1 DEF HAL_cmd_init
<1>2. CASE HAL_cmd_SetTxConfig
  BY <1>2 DEF HAL_cmd_SetTxConfig, CallConfig, Call
<1>3. CASE HAL_cmd_SetRfTxPower
  BY <1>3 DEF HAL_cmd_SetRfTxPower, CallConfig, Call
<1>4. CASE HAL_cmd_SetRxConfig
  BY <1>4 DEF HAL_cmd_SetRxConfig, CallConfig, Call
<1>5. CASE HAL_cmd_receive
  BY <1>5 DEF HAL_cmd_receive, Call
<1>6. CASE HAL_cmd_transmit
  BY <1>6 DEF HAL_cmd_transmit, Call
<1>7. CASE HAL_cmd_Sleep
  BY <1>7 DEF HAL_cmd_Sleep, Call
<1>8. CASE FsmRead
  BY <1>8 DEF FsmRead, FSMtransition, Accepts, EventAt
<1>9. CASE FsmWrite
  BY <1>9 DEF FsmWrite, FSMnextState, EventAt, AfterFsm
<1>10. CASE ReserveCheck
  BY <1>10 DEF ReserveCheck
<1>11. CASE ReserveTake
  BY <1>11 DEF ReserveTake
<1>12. CASE Configure
  BY <1>12 DEF Configure, MayConfigure
<1>13. CASE WriteConfig
  BY <1>13 DEF WriteConfig, MayConfigure
<1>14. CASE Release
  BY <1>14 DEF Release
<1>15. CASE InitDone
  BY <1>15 DEF InitDone
<1>16. CASE TxCheck
  BY <1>16 DEF TxCheck
<1>17. CASE SleepDetach
  BY <1>17 DEF SleepDetach
<1>18. CASE SleepRadio
  BY <1>18 DEF SleepRadio
<1>19. CASE SleepIdle
  BY <1>19 DEF SleepIdle
<1>20. CASE StartRx
  BY <1>20 DEF StartRx
<1>21. CASE StartTx
  BY <1>21 DEF StartTx
<1>22. CASE RadioTxDone
  BY <1>22 DEF RadioTxDone
<1>23. CASE RadioRxDone
  BY <1>23 DEF RadioRxDone
<1>24. CASE RadioRxTimeout
  BY <1>24 DEF RadioRxTimeout
<1>25. CASE HAL_hwDone
  BY <1>25 DEF HAL_hwDone, HwDoneRx, SleepAndConfirm, HAL_FSM_do,
     FSMtransition, FSMnextState, Accepts
<1>26. CASE HAL_hwTimeout
  BY <1>26 DEF HAL_hwTimeout, SleepAndConfirm, HAL_FSM_do, FSMtransition,
     FSMnextState, Accepts
<1>27. CASE HAL_swTimeout
  BY <1>27 DEF HAL_swTimeout, SleepAndConfirm, HAL_FSM_do, FSMtransition,
     FSMnextState, Accepts
<1>28. CASE UNCHANGED vars
  BY <1>28 DEF vars
<1> QED
  BY <1>1, <1>2, <1>3, <1>4, <1>5, <1>6, <1>7, <1>8, <1>9, <1>10, <1>11,
     <1>12, <1>13, <1>14, <1>15, <1>16, <1>17, <1>18, <1>19, <1>20, <1>21,
     <1>22, <1>23, <1>24, <1>25, <1>26, <1>27, <1>28
     DEF Next, CallCommand, MainStep, Radio, Interrupt

\* Only its end, the watchdog and HAL_cmd_Sleep stop a transmission: the other
\* commands leave it alone.
THEOREM CutCorrect == Spec => TransmissionNotCut
<1>1. IInv /\ [Next]_vars => [Cut => Allowed]_vars
  BY CutStep
<1> QED
  BY <1>1, Invariant, PTL DEF Spec, TransmissionNotCut, Cut, Allowed
-----------------------------------------------------------------------------
(***************************************************************************)
(* The HAL implements RadioService: FsmWrite of an ABORT stops the running *)
(* operation, StartRx and StartTx start one, SleepAndConfirm confirms one, *)
(* and every other step leaves Link and cnf alone.                         *)
(***************************************************************************)
\* Every step of the HAL is a step of the service, or none at all.
LEMMA ServiceStep == IInv /\ [Next]_vars => [Service!Next]_<<Link, cnf>>
<1> SUFFICES ASSUME IInv, [Next]_vars PROVE [Service!Next]_<<Link, cnf>>
  OBVIOUS
<1> USE DEF Link, Service!Next, Service!Start, Service!Stop,
        Service!TxConfirmed, Service!RxConfirmed, Service!Links,
        Service!RxConfirmations, IInv, Phases, Verdicts, Initialising,
        Aborting, Watchdog, RadioAgrees, WatchdogGuardsTx, Active, Settled,
        Configuring, Stopping, Starting, InitLabels, TypeOK, Labels,
        FsmLabels, CommandNames, FsmStates, FsmResults, Entities, RadioStates,
        OpModes, ConfigStages, RunningRx, halVars, mainVars, radioVars,
        Undisturbed, MainAt, GoOn, Return, Configured, Entity
<1>1. CASE HAL_cmd_init
  BY <1>1 DEF HAL_cmd_init
<1>2. CASE HAL_cmd_SetTxConfig
  BY <1>2 DEF HAL_cmd_SetTxConfig, CallConfig, Call
<1>3. CASE HAL_cmd_SetRfTxPower
  BY <1>3 DEF HAL_cmd_SetRfTxPower, CallConfig, Call
<1>4. CASE HAL_cmd_SetRxConfig
  BY <1>4 DEF HAL_cmd_SetRxConfig, CallConfig, Call
<1>5. CASE HAL_cmd_receive
  BY <1>5 DEF HAL_cmd_receive, Call
<1>6. CASE HAL_cmd_transmit
  BY <1>6 DEF HAL_cmd_transmit, Call
<1>7. CASE HAL_cmd_Sleep
  BY <1>7 DEF HAL_cmd_Sleep, Call
<1>8. CASE FsmRead
  BY <1>8 DEF FsmRead, FSMtransition, Accepts, EventAt
<1>9. CASE FsmWrite
  BY <1>9 DEF FsmWrite, FSMnextState, EventAt, AfterFsm
<1>10. CASE ReserveCheck
  BY <1>10 DEF ReserveCheck
<1>11. CASE ReserveTake
  BY <1>11 DEF ReserveTake
<1>12. CASE Configure
  BY <1>12 DEF Configure, MayConfigure
<1>13. CASE WriteConfig
  BY <1>13 DEF WriteConfig, MayConfigure
<1>14. CASE Release
  BY <1>14 DEF Release
<1>15. CASE InitDone
  BY <1>15 DEF InitDone
<1>16. CASE TxCheck
  BY <1>16 DEF TxCheck
<1>17. CASE SleepDetach
  BY <1>17 DEF SleepDetach
<1>18. CASE SleepRadio
  BY <1>18 DEF SleepRadio
<1>19. CASE SleepIdle
  BY <1>19 DEF SleepIdle
<1>20. CASE StartRx
  BY <1>20 DEF StartRx
<1>21. CASE StartTx
  BY <1>21 DEF StartTx
<1>22. CASE RadioTxDone
  BY <1>22 DEF RadioTxDone
<1>23. CASE RadioRxDone
  BY <1>23 DEF RadioRxDone
<1>24. CASE RadioRxTimeout
  BY <1>24 DEF RadioRxTimeout
<1>25. CASE HAL_hwDone
  BY <1>25 DEF HAL_hwDone, HwDoneRx, SleepAndConfirm, HAL_FSM_do,
     FSMtransition, FSMnextState, Accepts
<1>26. CASE HAL_hwTimeout
  BY <1>26 DEF HAL_hwTimeout, SleepAndConfirm, HAL_FSM_do, FSMtransition,
     FSMnextState, Accepts
<1>27. CASE HAL_swTimeout
  BY <1>27 DEF HAL_swTimeout, SleepAndConfirm, HAL_FSM_do, FSMtransition,
     FSMnextState, Accepts
<1>28. CASE UNCHANGED vars
  BY <1>28 DEF vars
<1> QED
  BY <1>1, <1>2, <1>3, <1>4, <1>5, <1>6, <1>7, <1>8, <1>9, <1>10, <1>11,
     <1>12, <1>13, <1>14, <1>15, <1>16, <1>17, <1>18, <1>19, <1>20, <1>21,
     <1>22, <1>23, <1>24, <1>25, <1>26, <1>27, <1>28
     DEF Next, CallCommand, MainStep, Radio, Interrupt

\* The layer above may rely on RadioService: one operation at a time, started
\* and stopped as if at once, confirmed only while it runs.
THEOREM ServiceCorrect == Spec => ImplementsService
<1>1. Init => Service!Init
  BY DEF Init, Service!Init, Link
<1> QED
  BY <1>1, ServiceStep, Invariant, PTL
     DEF Spec, ImplementsService, Service!Spec, Service!serviceVars
=============================================================================
