-------------------------- MODULE RelayMAC_proof ----------------------------
(***************************************************************************)
(* Proofs about the relay: it is a client of the PHY like any other, and,  *)
(* for every period and whatever the PHY, the radio and the clock do, its  *)
(* cycle goes as MacInv says as long as every nextRState was assigned.     *)
(***************************************************************************)
EXTENDS RelayMAC, LoRaPHY_proof

\* The steps in which the relay calls the PHY are steps of a client.
LEMMA CallStep ==
  ASSUME Prepare \/ ListenRx \/ ForwardUl \/ PassReply
  PROVE  Client
<1> USE RelayAssumption DEF MacAt, At, PHYOwn
<1>1. CASE Prepare
  BY <1>1 DEF Prepare, Client, threadVars
<1>2. CASE ListenRx
  <2>1. "RX" \in Requests \cap {"RX", "CLEAR"}
    OBVIOUS
  <2> QED
    BY <1>2, <2>1 DEF ListenRx, Client, threadVars
<1>3. CASE ForwardUl
  <2>1. "FSM" \in Requests \cap {"FSM", "TX"}
    OBVIOUS
  <2> QED
    BY <1>3, <2>1 DEF ForwardUl, Client, threadVars
<1>4. CASE PassReply
  <2>1. "TX" \in Requests \cap {"FSM", "TX"}
    OBVIOUS
  <2> QED
    BY <1>4, <2>1 DEF PassReply, Client, threadVars
<1> QED
  BY <1>1, <1>2, <1>3, <1>4

\* A step of the relay is a step of the PHY with its clients, or none of it.
LEMMA RelayStep == [RelayNext]_allVars => [Next]_vars
<1> SUFFICES ASSUME [RelayNext]_allVars PROVE [Next]_vars
  OBVIOUS
<1>1. CASE PHYPass
  BY <1>1 DEF PHYPass, Next
<1>2. CASE RelayCheck \/ Test \/ Forget \/ HandleMonitor \/ DelayEnd
  BY <1>2 DEF RelayCheck, Test, Forget, HandleMonitor, DelayEnd
<1>3. CASE Prepare \/ ListenRx \/ ForwardUl \/ PassReply
  BY <1>3, CallStep DEF Next
<1>4. CASE MacCommit
  BY <1>4 DEF MacCommit, Next
<1>5. CASE RelayTick
  BY <1>5 DEF RelayTick, Tick, Next
<1>6. CASE UNCHANGED allVars
  BY <1>6 DEF allVars
<1> QED
  BY <1>1, <1>2, <1>3, <1>4, <1>5, <1>6
     DEF RelayNext, MainThread, RMAC_FSM_run, Handlers

\* The relay is a client of the PHY: what holds of the PHY with any client
\* holds of the relay's.
THEOREM RelayRefinesPHY == RelaySpec => Spec
<1>1. RelayInit => Init
  BY DEF RelayInit
<1> QED
  BY <1>1, RelayStep, PTL DEF RelaySpec, Spec

\* The types of the relay's own variables.
MacTypes ==
  /\ presentRState \in RStates \union {Unknown}
  /\ nextRState \in RStates \union {Unknown}
  /\ triggeredREvent \in REvents
  /\ pktStat \in Statuses /\ rpc \in RLabels
  /\ monitorTimer \in Off..MonitorPeriod /\ delayTimer \in {Off, 0}

MacFlags == macRepeat \in BOOLEAN /\ stray \in BOOLEAN

\* Every step of the relay keeps its types.
LEMMA MacTypeStep ==
  MacTypes /\ MacFlags /\ [RelayNext]_allVars =>
    MacTypes' /\ MacFlags'
<1> SUFFICES ASSUME MacTypes, MacFlags, [RelayNext]_allVars
             PROVE  MacTypes' /\ MacFlags'
  OBVIOUS
<1> USE RelayAssumption
<1> USE DEF MacTypes, RStates, REvents, Statuses, RLabels, Off, Unknown,
        MacAt, MacGo, Unassigned, macVars, macTimers
<1>1. CASE PHYPass
  <2>1. MacFlags'
    BY <1>1, Zenon DEF MacFlags, PHYPass
  <2> QED
    BY <1>1, <2>1 DEF PHYPass, Indications, PHYRxDoneInterrupt, PHYRxFailInterrupt
<1>2. CASE RelayCheck
  <2>1. MacFlags'
    BY <1>2, Zenon DEF MacFlags, RelayCheck
  <2> QED
    BY <1>2, <2>1 DEF RelayCheck
<1>3. CASE Test
  <2>1. MacFlags'
    BY <1>3, Zenon DEF MacFlags, Test, TestIdle, TestMonitor, TestRelay, TestClear, MacGo, Unassigned
  <2>2. nextRState' \in RStates \union {Unknown} /\ rpc' \in RLabels
    BY <1>3 DEF Test, TestIdle, TestMonitor, TestRelay, TestClear
  <2> QED
    BY <1>3, <2>1, <2>2 DEF Test
<1>4. CASE Prepare \/ ListenRx \/ ForwardUl \/ Forget
  <2>1. MacFlags'
    BY <1>4, Zenon DEF MacFlags, Prepare, ListenRx, ForwardUl, Forget
  <2> QED
    BY <1>4, <2>1 DEF Prepare, ListenRx, ForwardUl, Forget
<1>5. CASE PassReply
  <2>1. MacFlags'
    BY <1>5, Zenon DEF MacFlags, PassReply
  <2> QED
    BY <1>5, <2>1 DEF PassReply
<1>6. CASE MacCommit \/ HandleMonitor \/ DelayEnd
  <2>1. MacFlags'
    BY <1>6, Zenon DEF MacFlags, MacCommit, HandleMonitor, DelayEnd
  <2> QED
    BY <1>6, <2>1 DEF MacCommit, HandleMonitor, DelayEnd
<1>7. CASE RelayTick
  <2>1. MacFlags'
    BY <1>7, Zenon DEF MacFlags, RelayTick
  <2> QED
    BY <1>7, <2>1 DEF RelayTick, Count
<1>8. CASE UNCHANGED allVars
  <2>1. MacFlags'
    BY <1>8, Zenon DEF MacFlags, allVars, relayVars
  <2> QED
    BY <1>8, <2>1 DEF allVars, relayVars
<1> QED
  BY <1>1, <1>2, <1>3, <1>4, <1>5, <1>6, <1>7, <1>8
     DEF RelayNext, MainThread, RMAC_FSM_run, Handlers

\* The relay starts with its types.
LEMMA RelayInitTypes == RelayInit => RelayTypeOK
<1>1. RelayInit => MacFlags
  BY Zenon DEF RelayInit, MacFlags
<1>2. RelayInit => MacTypes
  BY RelayAssumption DEF RelayInit, MacTypes, RStates, REvents, Statuses, RLabels, Off
<1>3. RelayInit => TypeOK
  BY InitTypes DEF RelayInit
<1> QED
  BY <1>1, <1>2, <1>3, Zenon DEF RelayTypeOK, MacTypes, MacFlags

\* The relay's variables keep their types for every period and every outcome
\* of the unassigned nextRState.
THEOREM RelayTypeCorrect == RelaySpec => []RelayTypeOK
<1>1. RelayTypeOK /\ [RelayNext]_allVars => RelayTypeOK'
  <2>1. RelayTypeOK <=> TypeOK /\ MacTypes /\ MacFlags
    BY DEF RelayTypeOK, MacTypes, MacFlags
  <2>2. (RelayTypeOK <=> TypeOK /\ MacTypes /\ MacFlags)'
    BY DEF RelayTypeOK, MacTypes, MacFlags
  <2> QED
    BY <2>1, <2>2, RelayStep, TypeStep, MacTypeStep
<1> QED
  BY <1>1, RelayInitTypes, PTL DEF RelaySpec
-----------------------------------------------------------------------------
(***************************************************************************)
(* The cycle as it is meant, until an unassigned nextRState leads the      *)
(* machine astray.  The invariant needs nothing of the PHY: it follows one *)
(* cycle through the machine, the two timers and the one event, and holds  *)
(* whenever handlers run.                                                  *)
(***************************************************************************)
\* Where the statements of RMAC_FSM_run are in the machine.
InvLabels ==
  /\ {presentRState, nextRState} \subseteq {"RMAC_IDLE", "RMAC_MONITOR", "RMAC_RELAY"}
  /\ rpc \in {"phy", "test"} => nextRState = presentRState
  /\ rpc = "prepare" => /\ presentRState = "RMAC_IDLE" /\ nextRState = "RMAC_IDLE"
                        /\ triggeredREvent = "PREPARE_MONITOR" /\ ~macRepeat
  /\ rpc = "listen" => /\ presentRState = "RMAC_IDLE" /\ nextRState = "RMAC_MONITOR"
                       /\ triggeredREvent = "DELAY_END"
  /\ rpc = "reply" => presentRState = "RMAC_RELAY" /\ nextRState = "RMAC_IDLE"

\* Between listening and the end of the wait no timer runs and no event of
\* the next cycle is there.
InvBusy ==
  {presentRState, nextRState} # {"RMAC_IDLE"} =>
    /\ monitorTimer = Off /\ delayTimer = Off
    /\ triggeredREvent # "PREPARE_MONITOR"
    /\ triggeredREvent = "DELAY_END" =>
         rpc \in {"listen", "forget"} /\ presentRState = "RMAC_IDLE"

\* The next monitoring is planned and nothing else goes on.
InvPlanned ==
  monitorTimer # Off =>
    delayTimer = Off /\ triggeredREvent \notin {"PREPARE_MONITOR", "DELAY_END"}

\* The millisecond before listening.
InvDelay ==
  delayTimer # Off =>
    /\ triggeredREvent \in {"NULL", "PREPARE_MONITOR"} /\ ~macRepeat
    /\ triggeredREvent = "PREPARE_MONITOR" => rpc = "forget"

\* The cycle has ended and the next monitoring is about to be planned.
InvRepeat ==
  macRepeat =>
    /\ nextRState = "RMAC_IDLE" /\ delayTimer = Off
    /\ rpc # "test" =>
         monitorTimer = Off /\ triggeredREvent \notin {"PREPARE_MONITOR", "DELAY_END"}

MacInv == InvLabels /\ InvBusy /\ InvPlanned /\ InvDelay /\ InvRepeat

\* Every step that does not go astray keeps the cycle in order.
LEMMA MacInvStep ==
  ASSUME MacInv, MacFlags, ~stray, [RelayNext]_allVars, ~stray'
  PROVE  MacInv'
<1> USE DEF MacInv, InvLabels, InvBusy, InvPlanned, InvDelay, InvRepeat,
        MacAt, MacGo, Unassigned, macVars, macTimers, Off, MacFlags
<1>1. CASE PHYPass
  BY <1>1 DEF PHYPass, Indications, PHYRxDoneInterrupt, PHYRxFailInterrupt
<1>2. CASE RelayCheck
  BY <1>2, RelayAssumption DEF RelayCheck
<1>3. CASE Test
  <2>1. CASE presentRState = "RMAC_MONITOR"
    BY <1>3, <2>1 DEF Test, TestMonitor
  <2>2. CASE presentRState = "RMAC_RELAY"
    BY <1>3, <2>2 DEF Test, TestRelay
  <2>3. CASE presentRState = "RMAC_IDLE"
    BY <1>3, <2>3 DEF Test, TestIdle
  <2> QED
    BY <2>1, <2>2, <2>3
<1>4. CASE Prepare
  BY <1>4 DEF Prepare
<1>5. CASE ListenRx \/ ForwardUl
  BY <1>5 DEF ListenRx, ForwardUl
<1>6. CASE PassReply
  BY <1>6 DEF PassReply
<1>7. CASE Forget
  BY <1>7 DEF Forget
<1>8. CASE MacCommit
  BY <1>8 DEF MacCommit
<1>9. CASE HandleMonitor
  BY <1>9 DEF HandleMonitor
<1>10. CASE DelayEnd
  BY <1>10 DEF DelayEnd
<1>11. CASE RelayTick
  BY <1>11 DEF RelayTick, Count
<1>12. CASE UNCHANGED allVars
  BY <1>12 DEF allVars, relayVars
<1> QED
  BY <1>1, <1>2, <1>3, <1>4, <1>5, <1>6, <1>7, <1>8, <1>9, <1>10, <1>11, <1>12
     DEF RelayNext, MainThread, RMAC_FSM_run, Handlers

\* What has gone astray stays astray.
LEMMA StrayStep ==
  ASSUME [RelayNext]_allVars, stray
  PROVE  stray'
<1> USE DEF MacAt, MacGo, Unassigned, macVars
<1>1. CASE Test
  BY <1>1, Zenon DEF Test, TestIdle, TestMonitor, TestRelay, TestClear
<1>2. CASE PHYPass \/ RelayCheck \/ HandleMonitor \/ DelayEnd \/ RelayTick
  BY <1>2, Zenon DEF PHYPass, RelayCheck, HandleMonitor, DelayEnd, RelayTick
<1>3. CASE Prepare \/ ListenRx \/ ForwardUl \/ PassReply \/ Forget \/ MacCommit
  BY <1>3, Zenon DEF Prepare, ListenRx, ForwardUl, PassReply, Forget, MacCommit
<1>4. CASE UNCHANGED allVars
  BY <1>4, Zenon DEF allVars, relayVars
<1> QED
  BY <1>1, <1>2, <1>3, <1>4
     DEF RelayNext, MainThread, RMAC_FSM_run, Handlers

\* Before an unassigned nextRState leads the machine astray, the cycle is in
\* order: for every period, whatever the PHY, the radio and the clock do, and
\* wherever handlers run.
THEOREM MacInvariant == RelaySpec => [](~stray => MacInv)
<1> DEFINE Ordered == ~stray => MacInv
<1>1. RelayInit => Ordered
  BY DEF RelayInit, MacInv, InvLabels, InvBusy, InvPlanned, InvDelay, InvRepeat, Off
<1>2. Ordered /\ RelayTypeOK /\ [RelayNext]_allVars => Ordered'
  <2>1. RelayTypeOK => MacFlags
    BY Zenon DEF RelayTypeOK, MacFlags
  <2> QED
    BY <2>1, MacInvStep, StrayStep
<1> QED
  BY <1>1, <1>2, RelayTypeCorrect, PTL DEF RelaySpec
-----------------------------------------------------------------------------
(***************************************************************************)
(* Where a packet with an unexpected status leaves the relay.              *)
(***************************************************************************)
\* In RMAC_IDLE, or about to be, with nothing planned.
Silent ==
  /\ rpc \in {"phy", "test", "commit"} /\ nextRState = "RMAC_IDLE"
  /\ presentRState = "RMAC_IDLE" \/ (presentRState = "RMAC_RELAY" /\ rpc = "commit")
  /\ monitorTimer = Off /\ delayTimer = Off /\ ~macRepeat
  /\ triggeredREvent \notin {"PREPARE_MONITOR", "DELAY_END"}

\* Nothing the main thread, a handler or the PHY does breaks the silence.
LEMMA SilentStep ==
  ASSUME Silent, [RelayNext]_allVars
  PROVE  Silent'
<1> USE DEF Silent, MacAt, MacGo, macVars, macTimers, Off
<1>1. CASE PHYPass
  BY <1>1 DEF PHYPass, Indications, PHYRxDoneInterrupt, PHYRxFailInterrupt
<1>2. CASE RelayCheck
  BY <1>2 DEF RelayCheck
<1>3. CASE Test
  BY <1>3 DEF Test, TestIdle
<1>4. CASE Prepare \/ ListenRx \/ ForwardUl \/ PassReply \/ Forget
  BY <1>4 DEF Prepare, ListenRx, ForwardUl, PassReply, Forget
<1>5. CASE MacCommit
  BY <1>5 DEF MacCommit
<1>6. CASE HandleMonitor \/ DelayEnd
  BY <1>6 DEF HandleMonitor, DelayEnd
<1>7. CASE RelayTick
  BY <1>7 DEF RelayTick, Count
<1>8. CASE UNCHANGED allVars
  BY <1>8 DEF allVars, relayVars
<1> QED
  BY <1>1, <1>2, <1>3, <1>4, <1>5, <1>6, <1>7, <1>8
     DEF RelayNext, MainThread, RMAC_FSM_run, Handlers

\* Two passes silence the relay for ever.  A packet that comes in the wait and
\* is no reply to a relay: the branch sets neither repeatFlag nor a timer, and
\* makes no request.  The end of the delay before listening, when it comes
\* before the statement that forgets the event of the monitoring: it is
\* forgotten instead, and no timer is left.
THEOREM SilenceCorrect ==
  RelaySpec =>
    /\ [][~stray =>
            /\ ForeignReceived /\ Test => Silent'
            /\ presentRState = "RMAC_IDLE" /\ nextRState = "RMAC_IDLE"
               /\ triggeredREvent = "DELAY_END" /\ Forget => Silent']_allVars
    /\ [](Silent => []Silent)
<1> DEFINE Forgotten ==
      /\ presentRState = "RMAC_IDLE" /\ nextRState = "RMAC_IDLE"
      /\ triggeredREvent = "DELAY_END" /\ Forget
<1>1. Silent /\ [RelayNext]_allVars => Silent'
  BY SilentStep
<1>2. MacInv /\ ForeignReceived /\ Test => Silent'
  BY DEF MacInv, InvLabels, InvBusy, InvRepeat, ForeignReceived, Test, TestRelay,
     MacAt, MacGo, macTimers, Silent
<1>3. MacInv /\ Forgotten => Silent'
  BY DEF MacInv, InvPlanned, InvDelay, InvRepeat, Forget, MacAt, macTimers, Silent
<1>4. (~stray => MacInv) /\ [RelayNext]_allVars =>
        [~stray => (ForeignReceived /\ Test => Silent') /\ (Forgotten => Silent')]_allVars
  BY <1>2, <1>3
<1> QED
  BY <1>1, <1>4, MacInvariant, PTL DEF RelaySpec
=============================================================================
