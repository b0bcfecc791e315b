# LoRaPHY: specifications, model checking and proofs

This directory holds TLA+ models of the firmware in `src/`: a LoRa physical
layer for mbed boards with an SX1272/SX1276 radio, the end node and the gateway
that use it, and a relay (RMAC) on top of it. The modules model the registers,
the hardware abstraction layer (HAL), the PHY state machine, and the three
programs: end node, relay and gateway. TLC checks them on small instances and
TLAPS proves their safety for every value of the constants.

Contents: [1 The system](#1-the-system) · [2 The modules](#2-the-modules) ·
[3 The runs](#3-the-runs) · [4 Bounds](#4-bounds) ·
[5 Fairness and timing](#5-fairness-and-timing) · [6 Proofs](#6-proofs) ·
[7 Findings](#7-findings) · [8 Not modelled](#8-not-modelled) · [9 Plan](#9-plan)

## 1 The system

Everything runs on one processor: a **main thread** that loops for ever, and
**interrupt handlers** (mbed `Timeout`s, the radio's DIO0 and DIO1 pins) that run
to completion between any two of its instructions. There are no locks. Handlers
and main thread share plain global variables, and that is where this code is hard.

| Component | Files | State | Operations | Talks to |
|---|---|---|---|---|
| HAL machine | `HAL_FSM.*` | `halFsmState` | `HAL_FSM_do(event)`, `HAL_FSM_INIT` | called by all of the HAL, from both contexts |
| HAL | `Common_HAL.*`, `Tx_HAL.*`, `Rx_HAL.*` | `HWStatus`, `resOwner`, `wdTimer`, the callbacks | `HAL_cmd_init`, `_SetTxConfig`, `_SetRfTxPower`, `_SetRxConfig`, `_receive`, `_transmit`, `_Sleep`; handlers `HAL_hwDone` (DIO0), `HAL_hwTimeout` (DIO1), `HAL_swTimeout` (watchdog) | radio below, `txCnfFunc`/`rxCnfFunc` above |
| HHI (registers, SPI) | `Common_HHI.cpp`, `Tx_HHI.cpp`, `Rx_HHI.cpp` | registers, `isRadioActive` | operation modes, configurations, reset, modem status | SPI bus, antenna switch |
| PHY machine | `LoRa_PHY_FSM.*`, `LoRa_PHY_API.h` | `presentState`, `eventFlag`, `rxNum`, `rxErr`, `currentStatus`, `repeatFlag`, `ul`, `dl`, `parameterSet`, three `Timeout`s | `PHY_FSM_run` (main loop), `PHY_indicateEvent`, `PHY_configUlPayload`, `PHY_setRxSlot`, `PHY_setDelayTime`, `PHY_setWindowSize`; handlers `RxDelay1End`, `RxDelay2End`, `expireWindow`, `HalTxCnfHandler`, `HalRxCnfHandler` | HAL commands below, `indicateRxDone`/`indicateRxFail` above |
| End node | `endnode_main.cpp` | `msg_pended`, `tx`/`u` Timeouts, message, scenario | `handler_txTimeout`, main loop | PHY |
| Relay (RMAC) | `LoRa_RMAC_FSM.*`, `main.cpp` | `presentRState`, `triggeredREvent`, `repeatFlag`, packet, two `Timeout`s | `RMAC_FSM_run` (main loop), `PHYRxDoneInterrupt`, `PHYRxFailInterrupt`, `handleMonitor`, `delayEnd` | PHY built with `RMAC_ON` |
| Gateway | `gateway_main.cpp` | `flag`, `packetSize`, reply, `tx` Timeout | main loop with `sleep()`, `handler_txTimeout`, `HalTxCnfHandler`, `HalRxCnfHandler` | HAL commands, from main loop and handlers |
| Bench programs | `HAL_testMain.cpp`, `main2.cpp` | – | loops around the HAL | HAL |

How an uplink goes: the end node's handler sets a request flag and rewrites the
uplink's parameters; a pass of `PHY_FSM_run` finds the flag, configures the radio
and transmits (the HAL attaches a watchdog); DIO0 ends the transmission and a flag
is set; the next pass attaches two delay timers; the first delay opens window 1
(on the uplink's parameters), `expireWindow` or a frame closes it; the second delay
opens window 2; then the PHY goes back to `PHY_IDLE` with `repeatFlag = 1` and
the end node's main loop attaches its handler again.

A relay in between listens for uplinks (a reception without uplink), marks one it
takes as relayed (status 00 becomes 01) and sends it as an uplink of its own; what
it hears in its windows with status 11 it passes on as a transmission without
windows. The gateway receives continuously, builds the reply in the interrupt
handler (00 → 10, 01 → 11), sets `flag`, and its main loop attaches a `Timeout` whose
handler transmits.

What makes it hard, component by component, and what correctness means there:

* **HAL.** `HAL_FSM_do` indexes its tables twice, `HAL_Sleep` is three statements,
  and `HAL_swTimeout` resets the machine outright, all against handlers.
  Correct: the reservation is always given back; the machine is in RUN exactly
  while an operation runs; a watchdog for every transmission and for nothing else;
  no confirmation for an operation that was stopped.
* **Registers.** Two configurations write the same registers, one of them with a
  mask; a reset writes some and not others; the antenna's switch is touched only
  when a cached flag changes. Correct: a radio that runs is set as `HWStatus` says.
* **PHY.** Events are bits of one word, changed by both contexts; a cycle is left
  by several ways out, each of which resets part of the state. Correct: at most
  two windows per uplink; nothing of a cycle survives it; an accepted request is
  served; what is handed up is the current frame; every cycle ends.
* **End node.** Two `Timeout`s and a flag form a protocol between main loop and
  handler. Correct: one handler at a time, uplinks for ever, windows that listen
  where the uplink was sent although the handler rewrites `ul`.
* **Relay.** One variable holds the event; handlers write it, the main loop tests it,
  acts and forgets it. Branches leave `nextRState` unassigned. Correct: cycles do not
  overlap, the relay never waits for an answer the PHY does not owe it, transmits
  nothing but what it took, and monitors again.
* **Gateway.** It calls HAL commands from handlers, in the middle of the main loop's,
  which the HAL is not written for. Correct: machine, `HWStatus` and radio agree again
  afterwards, the gateway is never deaf for ever, each reply that is due goes out once.

The full list of hazards, each at its line, is in `PROJECT.json`.

## 2 The modules

| Module | Models | Notes |
|---|---|---|
| `HALFsm` | `HAL_FSM.cpp` | both tables, as functions of state and event |
| `RadioService` | what the HAL promises (abstract) | one operation at a time; confirmations only while it runs |
| `LoRaHAL` | the HAL, statement by statement, and the radio | implements `RadioService` |
| `RadioRegs` | `*_HHI.cpp` and the settings of `HWStatus` | registers as fields |
| `ClassA` | what the PHY promises for one uplink (abstract) | at most two windows, at most one downlink, none after it |
| `LoRaPHY` | `LoRa_PHY_FSM.cpp` over the HAL's service | implements `ClassA` |
| `EndNode` | `endnode_main.cpp` over `LoRaPHY` | steps of the node are steps of the PHY |
| `RelayCycle` | what a relay promises (abstract) | forwards each uplink it takes once, at most one reply |
| `RelayMAC` | `LoRa_RMAC_FSM.cpp`, `main.cpp` over `LoRaPHY` | implements `RelayCycle` |
| `ReplyCycle` | what a gateway does, seen from the air (abstract) | each due reply once, to its end, unless there is none yet |
| `Gateway` | `gateway_main.cpp` over `LoRaHAL` | implements `ReplyCycle` |
| `MC*` | values of the constants for TLC | |
| `*_proof` | theorems and proofs | seven modules, section 6 |

```
EndNode ---EXTENDS--> LoRaPHY --implements--> ClassA
RelayMAC --EXTENDS-----^  |
  `--implements--> RelayCycle
                          |  relies on (its commands are atomic there)
Gateway ---EXTENDS--> LoRaHAL --implements--> RadioService
  `--implements-> ReplyCycle `--EXTENDS--> HALFsm
RadioRegs: the registers below LoRaHAL, by itself
```

### The HAL (`LoRaHAL`)

`pc` is the next statement of the command the main thread is in, `job` the command,
`stage` which configuration it writes, `arg` its argument, `fres` the verdict
`HAL_FSM_do` has read but not yet acted on. A command is *called* by an action named
after it (`HAL_cmd_receive`, ...), and then runs through the labels:

| Labels | Code |
|---|---|
| `own`, `cfgReq`, `take` | `HAL_capi_reserveResource` |
| `cfg`, `hw` | `HAL_capi_Cfg*`, then `HAL_capi_SetTxConfig` / `SetRxConfig` / `setRfTxPower` |
| `cfgEnd`, `free` | `HAL_releaseResource` |
| `txCheck`, `abort`, `detach`, `hwSleep`, `rfIdle`, `slept`, `runTx`, `tx` | `HAL_capi_startTx`, with `HAL_Sleep` inside; `HAL_cmd_Sleep` is the part from `abort` to `slept` |
| `runRx`, `rx` | `HAL_capi_startRx` |
| `up` | the end of `HAL_init_radio` |

At a label in `FsmLabels` the thread runs `HAL_FSM_do` in two actions, `FsmRead` and
`FsmWrite`, between which a handler may change `halFsmState`. Handlers are one
action each. A pending DIO interrupt is served before the main thread's next
statement (`Undisturbed`); the watchdog may go off before any statement. The
statements that hand the radio its operation and record it in `State` and `wdTimer`
are one action (`StartRx`, `StartTx`): they take microseconds, an operation of the
radio milliseconds. Radio parameters other than `RxContinuous` decide nothing here;
they are `RadioRegs`'s. `opMode`, `dio0`, `dio1` are the radio.

### The registers (`RadioRegs`)

`mod`, `Power`, `LowDatarateOptimize`, `RxContinuous`, `rxSymbTimeout` are
`HWStatus.settings`; `modem`, `pa`, `timeout` are the registers of the SX1272 as
records of the fields the drivers address, so that a masked read-modify-write is
the update of a field. `SymbTimeout`'s two high bits share a register with the data
rate: `HAL_cmd_SetTxConfig` keeps them, `HAL_cmd_SetRxConfig` writes them. `antenna`
is the switch and `isRadioActive`, whose values mean the opposite of its name.
`lost` is a history variable: which registers a reset has changed behind `HWStatus`.

Commands are whole steps. What justifies it is `OwnerConfigures` and
`RunMeansActive` of `LoRaHAL`: a configuration is written only while nothing runs, and
no handler writes these registers then.

### The PHY (`LoRaPHY`)

`pc` is the next statement of `PHY_FSM_run`; `eventFlag` is a set of events for the
word of bits. `PHYEvent_clearEventFlag` and the one `PHYEvent_setEventFlag` of the main
thread are two actions, `Load` and `Store`. Handlers are one action each, at the
statements in `InterruptPoints`; clients call at those in `ClientPoints`. Timers hold
the seconds left (`Off` when detached, 0 when due). `link`, `cfg`, `txCfg` and
`signal` are the HAL's service and the air: `signal` is what the modem is
synchronised to. `dlPayload` says what the pointer `dl.PHYLoRaPacket.Payload` leads to:
nothing yet, the frame of this window, or something older.
`nextState` is never initialised by the code; where no branch assigns it (`Open`
without a request) the model chooses any value.

Clients call `PHY_configUlPayload` together with each uplink request, as
`handler_txTimeout` does; `Client` therefore models a whole such call.

### The end node (`EndNode`)

Adds `handlerTimer` (the one `Timeout` attached at a time, `tx` first and `u`
afterwards) and `msg_pended`. `HandlerTxTimeout` is the handler, `MainCheck` the
statement of `main` after `PHY_FSM_run`. The data rate, which changes every 150
uplinks, is a choice of parameters in each call.

### The relay (`RelayMAC`)

`rpc` is the next statement of `RMAC_FSM_run`, which runs while the PHY is between
two passes (`pc = "main"`); `"phy"` is everything outside of it. The handlers of
`monitorTimer` (`tx` of `main.cpp`) and `delayTimer` (`RMACdelayTimer`, one
millisecond: due at once) run between any two statements. What the PHY built with
`RMAC_ON` calls inside its own pass, `indicateRxDone` and `indicateRxFail`, is
conjoined to the PHY's step (`Indications`); everything else of the PHY is
`LoRaPHY`'s, so a relay step is a PHY step. `pktStat` is the status the packet
begins with. `nextRState` is a local variable without initial value: where no branch
assigns it (`Unassigned`), it becomes any state, or `Unknown` for a value that is none.
`stray` remembers whether such a value ever differed from the present state.

### The gateway (`Gateway`)

`gpc` says where `main` is, between two HAL commands; `HAL_cmd_receive` of the main
loop runs through `LoRaHAL`'s labels. The commands the handlers call, `SleepNow` and
`TransmitNow`, run in one step, since handlers do not preempt one another; they fall
between any two statements of the main loop's. A confirmation is handled inside the
interrupt that gives it: `confirm` holds it for the step in between, and nothing else
happens but the radio goes on. Of a packet the status and the size matter, of the
reply its status and how many bytes of the uplink it keeps. A status is one of the four
`HalRxCnfHandler` tests for, or `"other"`: that chain has no last `else`, so such a packet
sets `flag` and leaves `downlinkMsg` as it is, `NULL` at first. `Accepted` is
`HAL_cmd_transmit`'s refusal of `NULL`, `Startable` what else keeps it from transmitting.
In `ReplyCycle` such a packet makes the last reply due again (`Repeat`), and what is due
before any reply was built is dropped (`Refuse`).

## 3 The runs

| Run | Constants | Question | Distinct states |
|---|---|---|---|
| `hal` | all commands, in any order | the HAL's safety, its liveness, and that it implements `RadioService` | 3,739 |
| `phy_slow` | uplinks and transmissions alone; handlers between any two statements, flag updates included; any speed; a radio that may lose anything; two parameter values | the safety of the cycle, and that it implements `ClassA` | 95,702 |
| `end_node` | 5 s and 7 s as in the code | windows follow the uplink, one handler, every request served, uplinks for ever | 15,388 |
| `relay_slow` | all three requests; any speed, divided flag updates, false preambles | the relay's safety, and that it implements `RelayCycle` | 68,982 |
| `relay_prompt` | the same with a prompt main thread | the PHY's cycles end with mixed requests; the relay monitors for ever and passes on what it takes | 8,192 |
| `gateway_slow` | handlers between any two statements | machine, `State` and radio agree again; never deaf for ever | 9,729 |
| `gateway_prompt` | a prompt main loop | each due reply once, to its end, and it is sent | 3,915 |
| `radio_regs` | modulations, powers and times at the edges of their ranges | configurations leave nothing of one another behind | 2,401 |
| `phy_tx_timeout`, `phy_clear`, `gateway_twice`, `regs_reset` | | the findings of section 7 | |

The properties, by what they guard against:

* `hal`: `WatchdogGuardsTx` and `TransmissionNotCut` (watchdog against TxDone, and
  commands against a running transmission), `ResourceReleased` and `OwnerConfigures`
  (the watchdog's reset against a held reservation), `RunMeansActive` and
  `StateMatchesRadio` (machine, belief and radio in step, whatever the interleaving),
  `ImplementsService` (no late confirmation), `TransmissionEnds`.
* PHY: `TwoWindows`, `IdleIsClean`, `RequestKept`, `ImplementsClassA`,
  `DeliversCurrentFrame`, `CycleEnds`, `RequestServed`.
* End node: `OneHandler`, `WindowsFollowUplink`, `NodeKeepsSending`.
* Relay: `OneCycle` (two timers, one event: no two cycles compete for it),
  `WaitsForPHY` (a request the PHY drops without saying so), `TransmitsOnlyRelayed`,
  `ImplementsRelayCycle`, `KeepsMonitoring` (which names the three ways to fall
  silent), `PassesOn`. The PHY's `TwoWindows`, `IdleIsClean`,
  `DeliversCurrentFrame` and `CycleEnds` are checked again in `relay_prompt`, the one
  client that mixes uplinks, transmissions alone and receptions alone.
* Gateway: the HAL's `RunMeansActive`, `StateMatchesRadio` and `WatchdogGuardsTx`
  against commands from handlers, `KeepsListening`, `ImplementsReplyCycle`,
  `AnswersUnlessDisturbed`.
* Registers: `ModemKept`, `PowerKept`, `TimeoutKept` (what runs is what `HWStatus`
  says), `LongSymbolsOptimised` (against the definition of a symbol's length, not
  against the code's table), `AntennaSwitched`.

Each property has a mutant: a changed form of a modelled definition (a dropped
reset, a missing check) under which TLC finds the property violated. Their
definitions stand before the originals, marked "Mutated form".

## 4 Bounds

* `Commands` is all of them in `hal`, and `receive` for the gateway, whose main loop
  calls nothing else. `LoRaHAL` and `Gateway` are finite as they stand.
* `RxDelay1 = 1`, `Window1 = 1`, `Window2 = 2`: the code's values, in seconds (delay
  2 is one second longer in the code too). So are `FirstUplink = 5`, `Period = 7`,
  `MonitorPeriod = 5` and, for the relay, `WindowRx = 10`.
  `TxTimeout = 2` is `HAL_INIT_LORA_TXTIMEOUT`. Elsewhere no reception without
  uplink is requested and `WindowRx` does not matter.
* `ReplyDelay = 2` ticks stands for 1.1 s: long enough for a frame to come between.
* `Params`: one value where the parameters decide nothing, two where a property
  compares them. They are only compared and copied, so two show every difference.
* `Sizes`: two, for the reply built with the size of the packet before.
* `Modulations`: each bandwidth with SF11 and SF12, SF6, SF7, preambles of 8, 300 and
  65535, three frequencies; `Powers` -5, 2, 14, 18, 21; `RxTimes` 0, 5, 1023 and the
  refused 1024. `PowerOn` has the defaults of `sx1272Regs-LoRa.h`.
* `rxNum` wraps at 256 as `uint8_t` does; no run comes near.
* Time: a tick is one second, the unit `Timeout.attach` is given. Between ticks
  anything may happen in any order.
* No symmetry is used; the runs are small without it, and liveness is checked.

`InterruptPoints` and `ClientPoints` take three values. `AnyStatement`: all labels.
`WholeUpdates`: all but `store`, so no handler falls between the load and the store of
an update of `eventFlag` by the main thread. `MainLoopOnly` and `LoopOnly`: clients
call between two passes only. `phy_slow` and `relay_slow` check safety with
`AnyStatement`, and the theorems hold for any choice. The runs with liveness use
`WholeUpdates` because with a divided update a flag can really be lost, and with it
the end of the cycle: that weakness of the code is listed as a hazard, not hidden.

## 5 Fairness and timing

* `LoRaHAL`: strong fairness of the main thread's steps, since handlers are short and
  leave it the processor again and again, although a stream of interrupts disables
  it again and again; weak fairness of each handler, since an interrupt stays pending until
  it is served. The radio is never obliged to end a transmission.
* `LoRaPHY`, `EndNode`, `RelayMAC`: weak fairness of the main loop, which is
  `while(1)` and runs RMAC and PHY in turn; strong fairness of timer handlers, the clock, a
  frame that began, its end and the client's handler, which are disabled while the main
  thread is at a statement outside `InterruptPoints`, and by one another, for moments
  only.
* `Gateway`: strong fairness of the main loop, the HAL's interrupts and the clock, weak
  fairness of the two handlers that nothing disables once they are due. No frame is
  obliged to come, and none to stay away.
* `TxCompletes`: the radio finishes every transmission before the watchdog. Without it
  the PHY may stay in `PHY_TX_RUN` for ever (run `phy_tx_timeout`), and relay and end
  node with it. Of the safety properties only `WaitsForPHY` and `ImplementsRelayCycle`
  rely on it.
* `FramesComplete`: a frame follows each preamble the modem detects. Without it a
  window may never close: `expireWindow` does not attach its timer again.
* `PromptMain`: the main thread makes its passes faster than the clock ticks and than
  a frame takes. An idle pass is a few tests of variables; a frame takes tens of
  milliseconds or more, and the relay's delay of one millisecond outlasts the few
  statements of a pass of `RMAC_FSM_run`. Safety does not rely on it except
  `DeliversCurrentFrame` and `WindowsFollowUplink`, which are properties of timing, and
  the gateway's `WatchdogGuardsTx` and `ImplementsReplyCycle`, which its handlers break
  in the few statements of `HAL_cmd_receive`; liveness does, because two delays that
  end during one pass are merged into one event.
* In `Gateway` no transmission and no watchdog begun by a handler ends while the main
  thread is inside `HAL_cmd_receive`: airtime outlasts those statements.

`PromptMain` and `FramesComplete` are `FALSE` in `phy_slow` and `relay_slow`,
`TxCompletes` in `phy_slow`; the theorems hold for either value unless they say otherwise.

## 6 Proofs

`tlapm` checks seven modules. Every safety property a passing run checks is a theorem
of one of them. The assumptions `CommandsAssumption`,
`ParametersAssumption`, `EndNodeAssumption`, `RelayAssumption`, `GatewayAssumption` and
`RegsAssumption`, all of which TLC evaluates in the runs, say only what kind of values
the constants are (and which commands or requests a program uses).

**`LoRaHAL_proof`**, for every set of commands. `IInv` is inductive; the invariants of
the run are not. It consists of

* `Phases`: at each statement of a command, what `halFsmState`, the operation the HAL
  believes in (`Active`) and `resOwner` may be. Needed because a handler may move the machine while a
  command is half way: for instance at `hw` the machine must still be CFGING, which
  holds because nothing is `Active`, so no handler has anything to end;
* `Verdicts`: that a verdict of `HAL_FSM_do` read before a handler ran still leads to
  the right state after it. A verdict SUCCESS for CFGREQ is only given outside RUN,
  and no handler puts the machine into RUN, so it cannot become wrong;
* `Initialising`, `Aborting`: what initialisation and `HAL_cmd_transmit` never meet;
* `Watchdog`, `RadioAgrees`: the watchdog and the radio, also between the three
  statements of `HAL_Sleep`.

From it: `TypeCorrect`, `WatchdogCorrect`, `ReleaseCorrect`, `OwnerCorrect`,
`RunCorrect`, `StateCorrect`, `CutCorrect` (an action property) and `ServiceCorrect`
(each step of the HAL maps to a step of `RadioService` or a stutter).

**`LoRaPHY_proof`**. `TypeCorrect` holds for every instance. The others are about the
clients of this repository, `Callers`: uplinks, transmissions without windows that may
replace an uplink not yet begun, and receptions without an uplink that are requested
between two passes only. The last condition is one the relay meets, which is the only
client to request such receptions, and the code needs it: the pass that begins a
reception loads and stores the word of flags, and would undo a request made in between.
`CycleInv` says for each
state of the machine which statements can be reached in it and what flags, timers,
window count and radio may be there (`InIdle`, `InTx`, `InWait`, `InRx`); it is needed
because `TwoWindows` depends on what is true of `rxNum` between passes, and that on how
each way out of a cycle reset it. From it: `WindowsCorrect`, `IdleCorrect`,
`KeptCorrect` and (without receptions alone, which `ClassA` does not speak of)
`ClassACorrect`, for every delay, window, set of parameters and
interrupt points, a main thread of any speed and a radio that loses anything.
`DeliveryCorrect` adds `PromptMain`: `FrameInv` says that a frame which is coming in
meets a window that has seen no frame and no error before it, so that what is handed up
is complete and its own. With a slow main thread a second frame can come while the first
one's event waits, and TLC finds the property violated.
`TimeoutHangs` is finding 1 for every instance: whichever transmission the watchdog ends,
the PHY is `Hung`, and what is hung stays so whatever handlers and clients do.

**`EndNode_proof`**. `NodeRefinesPHY`: every behaviour of the end node is one of the PHY
with a client, so the PHY's theorems hold of it (`NodeServed`, `NodeClean`).
`HandlerCorrect`: `OneHandler` for every period. `NodeTypeCorrect`.
`FollowCorrect`: `WindowsFollowUplink`, for `CycleIsShort`, that is a prompt main thread
and `TxTimeout + RxDelay1 < Period` (2 + 1 < 7 in the code). The main loop may attach
the handler for the next uplink before the PHY has begun with this one (`repeatFlag` is
still set), so nothing but time keeps the handler from rewriting `ul` between the
transmission and the first window. `FollowInv` follows its timer: `InvUplink` (it has at
least the period left until the transmission begins, then more than the watchdog
and the delay), `InvDelay` (more than the delay), `InvWindows` (from the first window on
`dl` has the parameters).

**`RelayMAC_proof`**. `RelayRefinesPHY` and `RelayTypeCorrect` likewise.
`MacInvariant` is `RelaySpec => [](~stray => MacInv)`: until an unassigned `nextRState`
leads astray, and for every period and a main thread of any speed, `MacInv` follows one
cycle through the machine, the two timers and the one event variable: `InvLabels` (where
the statements are in the machine), `InvBusy`, `InvPlanned`, `InvDelay`, `InvRepeat`
(which of timers and event may be there while the relay is busy, between two cycles, in
the delay, and once the cycle has ended). It needs nothing of the PHY.
`SilenceCorrect`: two passes leave the relay `Silent`, with no timer, event or request, and
`Silent` is never left: a packet in the wait that is no reply to a relay, and a delay of one
millisecond that ends between `RMACdelayTimer.attach` and the statement that forgets the
event (a main thread that is not prompt), whose event is forgotten in its place.

**`RelayPHY_proof`**, about the relay and the PHY together.

* `RelayCycleInvariant`, `RelayWindows`, `RelayClean`, `RelayKept`, `RelayDelivery`: what
  the PHY keeps, it keeps under the relay, which mixes all three requests.
* `OneCycleCorrect`: `RelaySpec => []OneCycle`, for every period and a main thread of any
  speed, also after an unassigned `nextRState` has led astray. `OneInv` needs no time,
  only that what the PHY has taken it answers before anything else is planned
  (`PHYAnswers`, from `CycleInv`) and that it is between two passes while the relay's own
  statements run (from `TxInv`): `OneLabels`, `OnePlanned` (a monitoring that is planned,
  has come, or is a millisecond away), `OneRepeat`, `OneWaited`.
* `TransmitCorrect`: `TransmitsOnlyRelayed`, for every period, any speed, and wherever an
  unassigned `nextRState` leads. `TxInv` follows a request from the statement that makes
  it through the pass of the PHY that transmits: until then neither the packet's
  status, nor the parameters, nor the relay's state change.
* `WaitsCorrect` and `RelayCycleCorrect`: `WaitsForPHY` and `ImplementsRelayCycle`, for
  `ReplyIsShort`, that is `TxCompletes` and `TxTimeout < MonitorPeriod` (2 < 5 in the code).
  `WaitInv` says for each state of the relay what the PHY is doing: `InMonitor`,
  `InRelay`, `InIdleMac` (asked and not begun, serving, about to end, over), with `TxInv` for
  the transmissions. The hard part is the reply: the relay goes to `RMAC_IDLE` and plans
  the next monitoring while the PHY still transmits, and `ListenRx` would be dropped if it
  came before the end. `ReplyInTime` shows that it does not: the watchdog of the reply is
  always due before the monitoring. Without `TxCompletes` TLC finds `WaitsForPHY`
  violated: the PHY hangs in `PHY_TX_RUN` (finding 1) and drops the relay's request.
  `RelayCycleStep` maps each step to one of `RelayCycle` or a stutter.
* `DeafCorrect`: a monitored packet that is no end node's uplink is tested again in every
  pass, for ever or until the unassigned `nextRState` leads astray.

**`Gateway_proof`**. `LoRaHAL`'s `IInv` does not hold of the gateway: a handler puts the
machine into RUN between two statements of `HAL_cmd_receive`, which the HAL's own
handlers never do. `GwInv` takes its place, at any speed of the main loop: `InvBoot`
(nothing else begins before `HAL_cmd_init` returns), `InvMachine` (what each statement
finds; a transmission may already run under a reception that is about to start),
`InvRadio`, `InvConfirm`. From it `GatewayInvariant`, `GatewayRunCorrect`
and `GatewayStateCorrect`. With `InvPrompt` and `PromptMain`: `GatewayWatchdogCorrect`,
`ReplyCycleCorrect` (each due reply once and to its end, nothing dropped but what is
asked for while `downlinkMsg` is `NULL`) and `FlagCorrect`, which shows that
the race of run `gateway_twice` is the only cause of a second reply.

**`RadioRegs_proof`**, for every modulation, power and time the parameters' types admit
and either amplifier. First what the conversions do: `ChannelHolds` and
`StepsNear` (24 bits hold every channel below 1024 MHz, which is missed by a step at
most), `TimeoutHolds`, `ModemHolds`, `PowerHolds`. Then `RegsInv`: a register outside of
`lost` agrees with `HWStatus`, and `antenna.tx => ~isRadioActive`, without which
`AntennaSwitched` is not inductive. From it `RegsTypeCorrect`, `ModemCorrect`, `PowerCorrect`,
`TimeoutCorrect`, `AntennaCorrect` and `OptimiseCorrect`, where `LongSymbols` compares the
driver's table with the length of a symbol in each of the 21 modulations.
`SignalQueriesExact`: the two queries for a signal
answer their bit although they return the raw register when it is clear;
`RxOngoingConfused`: `HAL_isRxOngoing`, which the program does not call, does not.

The type invariants of `EndNode`, `RelayMAC` and `Gateway` are proved and not
model-checked. The inductive invariants were checked by TLC before they were proved.

**Model-checked only.** Liveness (`TransmissionEnds`, `CycleEnds`, `RequestServed`,
`NodeKeepsSending`, `KeepsMonitoring`, `PassesOn`, `KeepsListening`,
`AnswersUnlessDisturbed`), which is out of the prover's reach.

## 7 Findings

Each is a run that TLC must find violated.

1. `phy_tx_timeout`: when the watchdog ends a transmission, `HAL_swTimeout` resets radio
   and machine but gives no confirmation. The PHY has a case for it
   (`HAL_TX_CNF_TIMEOUT`, `LoRa_PHY_FSM.cpp:137`), which is never reached: it stays in
   `PHY_TX_RUN` for ever, and an end node stops sending.
2. `phy_clear`: `CLEAR` during a window forgets the request and with it the branch that
   resets `rxNum`; a later uplink reaches the error branch "rx window can be opened
   only twice" (`LoRa_PHY_FSM.cpp:61`). The one call with `CLEAR`,
   `LoRa_RMAC_FSM.cpp:213`, waits for an event nobody sets.
3. `gateway_twice`: the `Timeout` may expire between the gateway's test of `flag` and the
   attach of the next one (`gateway_main.cpp:199` to `202`); the reply goes out, and again
   `ReplyDelay` later, although `flag` is 0.
4. `regs_reset`: after the watchdog of a transmission the radio keeps the reset values of
   data rate, power and timeout, while `HWStatus` keeps the settings
   (`Common_HAL.cpp:650`, under a comment that promises "a known state"). A program that
   configures nothing, as the gateway and `HAL_testMain.cpp`, listens with the wrong
   data rate from then on.

Observed while modelling, without a run of its own:

* `HAL_isRfActive`'s comment (`PHYHAL_interface.h:35`) says the opposite of what it
  returns. `HAL_isRxOngoing` is true of the status 3, a synchronised signal, whether or not
  a reception goes on. `HAL_isHeaderInfoValid` and `HAL_isModemClear` call HHI
  functions no file defines.
* The gateway assigns `packetSize` after `setPktStat` has used it: the first reply keeps
  0 bytes of its uplink, each later one as many as the uplink before had.
* The gateway counts as an uplink a packet with the text "LoRa" and a status that is
  none of 00, 01, 10, 11 (`gateway_main.cpp:119` to `129`): it sets `flag` without
  `setPktStat`. Before the first uplink `downlinkMsg` is `NULL`, `HAL_cmd_transmit` refuses
  it and `flag` is cleared; later the reply to another packet goes out again.
* A transmission without windows that is requested while an uplink's request is
  pending is taken together with it, and the uplink's windows never open.
* After a packet of an unexpected status (not 00 while monitoring, not 11 in the wait) the
  relay makes no further request and plans no monitoring: it is silent for ever
  (theorems `SilenceCorrect` and `DeafCorrect`).
  `KeepsMonitoring` names exactly these cases.
* `setPktStat` allocates two buffers per packet in all three programs and frees none.

## 8 Not modelled

* **Below registers**: the bytes of SPI transfers and handlers that use the bus between
  them, the FIFO, interrupt masks and the DIO mapping, IQ inversion, sync word, RSSI,
  `HW_IsChannelFree`. What matters of them to the machines above (which interrupt an
  operation ends with) is in `LoRaHAL`'s radio.
* **The SX1276 build** of the same drivers, which the Makefile does not select.
* **Milliseconds**: `PHY_FSM_run` divides delays and windows by 1000 as integers
  (`LoRa_PHY_FSM.cpp:197`); the models count whole seconds.
* **Sizes above 64**, which `HAL_cmd_transmit` refuses (`Tx_HAL.cpp:11`): the radio's
  maximum payload is 64, and the programs' own packets have 16 and 32 bytes.
* **Texts**: messages, debug output, reception counters, `ANALYSIS_ON` statistics, the
  contents of packets but for status and size, and with them the heap.
* **`PHY_setDelayTime`, `PHY_setWindowSize`**: called once before the end node's loop,
  so constants here; the relay's call only ever sets the same window.
* **Bench programs**: loops around two HAL commands, or not built at all.
* **mbed, `regs/`, build files**: third-party or data. What the code uses of them
  (one-shot `Timeout`s, interrupts, register layouts) is modelled as external. Of the
  about 179,000 lines of C in `src/` some 175,000 are the vendored mbed library: the
  share of lines the models stand for is small because of it, and no model of the
  firmware could raise it. The repository's own sources are about 4,400 lines.

## 9 Plan

Done: all modules of section 2 with their runs and proofs. What is left, in order of
what it would add:

1. What liveness rests on, as theorems: that the statements a fair step waits for are
   the only ones, and bounds on how long a cycle of the PHY can last.
2. `Network`: end node, relay and gateway on one channel with frames that are lost or
   collide, and the statuses they exchange: a relayed uplink's reply reaches the end
   node's second window.
3. The conversion of milliseconds in the PHY, and the SX1276 drivers.
