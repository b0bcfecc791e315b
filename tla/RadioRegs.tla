----------------------------- MODULE RadioRegs ------------------------------
(***************************************************************************)
(* The register layer of the SX1272 build: what Tx_HHI.cpp, Rx_HHI.cpp and *)
(* Common_HHI.cpp write for the HAL's commands, against what HWStatus, the *)
(* HAL's picture of the radio, says was written.                           *)
(*                                                                         *)
(* Commands are whole steps: a configuration runs only while no operation  *)
(* does, and no handler writes these registers then (OwnerConfigures of    *)
(* LoRaHAL).  Registers are the fields the sources address; a masked       *)
(* read-modify-write is the update of a field.                             *)
(***************************************************************************)
EXTENDS Integers

CONSTANTS
  Commands,     \* the commands the layer above calls
  Modulations,  \* bandwidth, datarate, coderate, preambleLen and frequency
  Powers,       \* values of power, an int8_t
  RxTimes,      \* values of rxTime, a uint16_t
  PowerOn,      \* the registers of a radio that was just reset
  PaBoost       \* does HW_GetPaSelect choose the boosted amplifier?

Bandwidths == 0..2           \* HALenum_bw_e: 125, 250 and 500 kHz
Datarates == 6..12           \* HALenum_dr_e
Coderates == 1..4            \* HALenum_cr_e
MaxFrequency == 1023999999   \* what the three bytes of FRF hold
RX_MAX_RXSYMBOLTIME == 1024
MinInt8 == -128
MaxInt8 == 127
MaxByte == 255
MaxUint16 == 65535
Bytes == 0..MaxByte

AllModulations ==
  [bandwidth : Bandwidths, datarate : Datarates, coderate : Coderates,
   preambleLen : 0..MaxUint16, frequency : 0..MaxFrequency]

FrfRegs == [msb : Bytes, mid : Bytes, lsb : Bytes]
ModemRegs ==
  [bw : Bandwidths, codingRate : Coderates, crc : BOOLEAN, ldro : BOOLEAN,
   sf : Datarates, preambleMsb : Bytes, preambleLsb : Bytes, frf : FrfRegs,
   detection : {"SF6", "SF7_TO_SF12"}]
PaRegs == [boost : BOOLEAN, outputPower : 0..15, dac20dBm : BOOLEAN]
TimeoutRegs == [msb : 0..3, lsb : Bytes]

ASSUME RegsAssumption ==
  /\ Modulations \subseteq AllModulations
  /\ Powers \subseteq MinInt8..MaxInt8 /\ RxTimes \subseteq 0..MaxUint16
  /\ PowerOn \in [modem : ModemRegs, pa : PaRegs, timeout : TimeoutRegs]
  /\ PaBoost \in BOOLEAN

VARIABLES
  \* HWStatus.settings
  mod,          \* Bandwidth, Datarate, Coderate, PreambleLen and Channel
  Power, LowDatarateOptimize, RxContinuous, rxSymbTimeout, State,
  \* the radio
  modem, pa, timeout,
  antenna,      \* hw_AntSwitch, and isRadioActive that goes with it
  lost          \* the registers a reset has changed behind HWStatus

settings == <<mod, Power, LowDatarateOptimize, RxContinuous, rxSymbTimeout>>
registers == <<modem, pa, timeout>>
vars == <<settings, State, registers, antenna, lost>>

\* HAL_INIT_*
InitModulation == [bandwidth |-> 0, datarate |-> 11, coderate |-> 1,
                   preambleLen |-> 8, frequency |-> 922100000]
InitPower == 14
InitSymbTimeout == 5

Init ==
  /\ mod = InitModulation /\ Power = InitPower /\ LowDatarateOptimize = FALSE
  /\ RxContinuous = TRUE /\ rxSymbTimeout = InitSymbTimeout
  /\ State = "RF_NULL"
  /\ modem = PowerOn.modem /\ pa = PowerOn.pa /\ timeout = PowerOn.timeout
  /\ antenna = [tx |-> FALSE, isRadioActive |-> FALSE]
  /\ lost = {"modem", "pa", "timeout"}
-----------------------------------------------------------------------------
(***************************************************************************)
(* Conversions.                                                            *)
(***************************************************************************)
\* The frequency in steps of 61.03515625 Hz, cut to a whole number: a MHz has
\* 16384 of them, 15625 Hz have 256.
Steps(freq) ==
  16384 * (freq \div 1000000) + ((freq % 1000000) * 256) \div 15625

\* Mutated form: the middle byte is not shifted.
Channel_MidUnshifted(freq) ==
  [msb |-> Steps(freq) \div 65536, mid |-> Steps(freq) % 256,
   lsb |-> Steps(freq) % 256]

\* HW_SetChannel
Channel(freq) ==
  [msb |-> Steps(freq) \div 65536, mid |-> (Steps(freq) \div 256) % 256,
   lsb |-> Steps(freq) % 256]

\* Mutated form: SF12 at 250 kHz is forgotten.
LowDROpt_125Only(m) == m.bandwidth = 0 /\ m.datarate \in {11, 12}

\* When the HAL asks for the optimisation of low data rates.
LowDROpt(m) ==
  \/ m.bandwidth = 0 /\ m.datarate \in {11, 12}
  \/ m.bandwidth = 1 /\ m.datarate = 12

\* The modem's registers, written alike by HW_SetTxConfig and HW_SetRxConfig.
Modem(m, ldro) ==
  [bw |-> m.bandwidth, codingRate |-> m.coderate, crc |-> TRUE, ldro |-> ldro,
   sf |-> m.datarate, preambleMsb |-> m.preambleLen \div 256,
   preambleLsb |-> m.preambleLen % 256, frf |-> Channel(m.frequency),
   detection |-> IF m.datarate = 6 THEN "SF6" ELSE "SF7_TO_SF12"]

Clamp(x, low, high) == IF x < low THEN low ELSE IF x > high THEN high ELSE x

\* Mutated form: 18 dBm do not switch the DAC.
RfTxPower_LateDac(power, dac) ==
  CASE ~PaBoost   -> [boost |-> FALSE, dac20dBm |-> dac,
                      outputPower |-> Clamp(power, -1, 14) + 1]
    [] PaBoost /\ power > 18 -> [boost |-> TRUE, dac20dBm |-> TRUE,
                      outputPower |-> Clamp(power, 5, 20) - 5]
    [] OTHER      -> [boost |-> TRUE, dac20dBm |-> FALSE,
                      outputPower |-> Clamp(power, 2, 17) - 2]

\* HW_SetRfTxPower; dac is what REG_PADAC held before.
RfTxPower(power, dac) ==
  CASE ~PaBoost   -> [boost |-> FALSE, dac20dBm |-> dac,
                      outputPower |-> Clamp(power, -1, 14) + 1]
    [] PaBoost /\ power > 17 -> [boost |-> TRUE, dac20dBm |-> TRUE,
                      outputPower |-> Clamp(power, 5, 20) - 5]
    [] OTHER      -> [boost |-> TRUE, dac20dBm |-> FALSE,
                      outputPower |-> Clamp(power, 2, 17) - 2]

SymbTimeout(symbols) == [msb |-> symbols \div 256, lsb |-> symbols % 256]

\* Mutated form: a sleep does not put isRadioActive back.
SetOpMode_Once(ant, mode) ==
  IF mode = "sleep"
  THEN [ant EXCEPT !.tx = ant.isRadioActive /\ ant.tx]
  ELSE [tx |-> mode = "tx", isRadioActive |-> TRUE]

\* HW_SetOpMode's antenna switch.  isRadioActive is TRUE after a sleep and
\* FALSE after any other mode: a sleep after a sleep leaves the switch alone.
SetOpMode(ant, mode) ==
  IF mode = "sleep"
  THEN [tx |-> ant.isRadioActive /\ ant.tx, isRadioActive |-> TRUE]
  ELSE [tx |-> mode = "tx", isRadioActive |-> FALSE]
-----------------------------------------------------------------------------
(***************************************************************************)
(* Commands.                                                               *)
(***************************************************************************)
Idle(command) == State = "RF_IDLE" /\ command \in Commands

\* HAL_cmd_init: reset, HW_init_radio, HAL_tapi_TxInitConfig and
\* HAL_rapi_RxInitConfig.
HAL_cmd_init ==
  /\ State = "RF_NULL"
  /\ State' = "RF_IDLE"
  /\ LowDatarateOptimize' = LowDROpt(mod)
  /\ modem' = Modem(mod, LowDROpt(mod))
  /\ pa' = RfTxPower(Power, PowerOn.pa.dac20dBm)
  /\ timeout' = SymbTimeout(rxSymbTimeout)
  /\ antenna' = SetOpMode([antenna EXCEPT !.tx = FALSE], "sleep")
  /\ lost' = {}
  /\ UNCHANGED <<mod, Power, RxContinuous, rxSymbTimeout>>

\* Mutated form: REG_LR_MODEMCONFIG2 is written without SYMBTIMEOUTMSB.
HAL_cmd_SetTxConfig_ClearsTimeout(m, power) ==
  /\ Idle("SetTxConfig")
  /\ mod' = m /\ Power' = power /\ LowDatarateOptimize' = LowDROpt(m)
  /\ pa' = RfTxPower(power, pa.dac20dBm)
  /\ modem' = Modem(m, LowDROpt(m))
  /\ timeout' = [timeout EXCEPT !.msb = 0]
  /\ lost' = lost \ {"modem", "pa"}
  /\ UNCHANGED <<RxContinuous, rxSymbTimeout, State, antenna>>

\* Keeps the timeout's bits in REG_LR_MODEMCONFIG2.
HAL_cmd_SetTxConfig(m, power) ==
  /\ Idle("SetTxConfig")
  /\ mod' = m /\ Power' = power /\ LowDatarateOptimize' = LowDROpt(m)
  /\ pa' = RfTxPower(power, pa.dac20dBm)
  /\ modem' = Modem(m, LowDROpt(m))
  /\ lost' = lost \ {"modem", "pa"}
  /\ UNCHANGED <<RxContinuous, rxSymbTimeout, State, timeout, antenna>>

HAL_cmd_SetRfTxPower(power) ==
  /\ Idle("SetRfTxPower")
  /\ Power' = power
  /\ pa' = RfTxPower(power, pa.dac20dBm)
  /\ lost' = lost \ {"pa"}
  /\ UNCHANGED <<mod, LowDatarateOptimize, RxContinuous, rxSymbTimeout, State,
                 modem, timeout, antenna>>

\* Mutated form: RX_MAX_RXSYMBOLTIME is accepted.
HAL_cmd_SetRxConfig_Unbounded(m, rxTime) ==
  /\ Idle("SetRxConfig") /\ rxTime <= RX_MAX_RXSYMBOLTIME
  /\ mod' = m /\ LowDatarateOptimize' = LowDROpt(m)
  /\ RxContinuous' = (rxTime = 0)
  /\ rxSymbTimeout' = IF rxTime = 0 THEN rxSymbTimeout ELSE rxTime
  /\ modem' = Modem(m, LowDROpt(m))
  /\ timeout' = SymbTimeout(rxSymbTimeout')
  /\ lost' = lost \ {"modem", "timeout"}
  /\ UNCHANGED <<Power, State, pa, antenna>>

\* A time of RX_MAX_RXSYMBOLTIME or more is refused, 0 is continuous.
HAL_cmd_SetRxConfig(m, rxTime) ==
  /\ Idle("SetRxConfig") /\ rxTime < RX_MAX_RXSYMBOLTIME
  /\ mod' = m /\ LowDatarateOptimize' = LowDROpt(m)
  /\ RxContinuous' = (rxTime = 0)
  /\ rxSymbTimeout' = IF rxTime = 0 THEN rxSymbTimeout ELSE rxTime
  /\ modem' = Modem(m, LowDROpt(m))
  /\ timeout' = SymbTimeout(rxSymbTimeout')
  /\ lost' = lost \ {"modem", "timeout"}
  /\ UNCHANGED <<Power, State, pa, antenna>>

Operate(state, ant) ==
  State' = state /\ antenna' = ant /\ UNCHANGED <<settings, registers, lost>>

HAL_cmd_receive ==
  /\ Idle("receive")
  /\ Operate("RF_RX_RUNNING", SetOpMode(antenna, "receiver"))

\* HAL_Sleep, HW_setTxPayload (which leaves sleep for standby) and HW_Tx.
HAL_cmd_transmit ==
  /\ State \in {"RF_IDLE", "RF_RX_RUNNING"} /\ "transmit" \in Commands
  /\ Operate("RF_TX_RUNNING",
             SetOpMode(SetOpMode(SetOpMode(antenna, "sleep"), "standby"), "tx"))

HAL_Sleep == Operate("RF_IDLE", SetOpMode(antenna, "sleep"))

HAL_cmd_Sleep == State # "RF_NULL" /\ "Sleep" \in Commands /\ HAL_Sleep
-----------------------------------------------------------------------------
(***************************************************************************)
(* Handlers.                                                               *)
(***************************************************************************)
\* HAL_hwDone, HAL_hwTimeout: a continuous reception goes on.
OperationEnds ==
  /\ State = "RF_TX_RUNNING" \/ (State = "RF_RX_RUNNING" /\ ~RxContinuous)
  /\ HAL_Sleep

\* The watchdog of a transmission: HW_init_radio resets the radio and writes
\* the initial registers and the channel.  HWStatus stays as it is.
HAL_swTimeout ==
  /\ State = "RF_TX_RUNNING"
  /\ State' = "RF_IDLE"
  /\ modem' = [PowerOn.modem EXCEPT !.frf = Channel(mod.frequency),
                                    !.detection = "SF7_TO_SF12"]
  /\ pa' = PowerOn.pa /\ timeout' = PowerOn.timeout
  /\ antenna' = SetOpMode([antenna EXCEPT !.tx = FALSE], "sleep")
  /\ lost' = {"modem", "pa", "timeout"}
  /\ UNCHANGED settings

Configure ==
  \/ \E m \in Modulations, power \in Powers : HAL_cmd_SetTxConfig(m, power)
  \/ \E power \in Powers : HAL_cmd_SetRfTxPower(power)
  \/ \E m \in Modulations, rxTime \in RxTimes : HAL_cmd_SetRxConfig(m, rxTime)

Next ==
  \/ HAL_cmd_init \/ Configure
  \/ HAL_cmd_receive \/ HAL_cmd_transmit \/ HAL_cmd_Sleep
  \/ OperationEnds \/ HAL_swTimeout

Spec == Init /\ [][Next]_vars
-----------------------------------------------------------------------------
(***************************************************************************)
(* The modem status queries, as functions of REG_LR_MODEMSTAT: the raw     *)
(* register is returned when the bit asked for is not set, and compared    *)
(* with the enumerator of ModemStatus.                                     *)
(***************************************************************************)
BitSet(stat, value) == (stat \div value) % 2 = 1

Query(stat, value, answer) == IF BitSet(stat, value) THEN answer ELSE stat

HAL_isSignalDetected(stat) == Query(stat, 1, 1) = 1
HAL_isSignalSynchronized(stat) == Query(stat, 2, 2) = 2
HAL_isRxOngoing(stat) == Query(stat, 4, 3) = 3
-----------------------------------------------------------------------------
(***************************************************************************)
(* Properties.                                                             *)
(***************************************************************************)
\* Every variable keeps its type.
RegsTypeOK ==
  /\ mod \in AllModulations /\ Power \in MinInt8..MaxInt8
  /\ LowDatarateOptimize \in BOOLEAN /\ RxContinuous \in BOOLEAN
  /\ rxSymbTimeout \in 0..RX_MAX_RXSYMBOLTIME - 1
  /\ State \in {"RF_NULL", "RF_IDLE", "RF_RX_RUNNING", "RF_TX_RUNNING"}
  /\ modem \in ModemRegs /\ pa \in PaRegs /\ timeout \in TimeoutRegs
  /\ antenna \in [tx : BOOLEAN, isRadioActive : BOOLEAN]
  /\ lost \subseteq {"modem", "pa", "timeout"}

Running == State \in {"RF_RX_RUNNING", "RF_TX_RUNNING"}

\* The frequency the registers stand for, in Hz, cut to a whole number.
Frf(regs) == 65536 * regs.msb + 256 * regs.mid + regs.lsb
Hertz(steps) == 1000000 * (steps \div 16384) + ((steps % 16384) * 15625) \div 256

\* The modem runs as HWStatus says: any mix of the two configurations leaves
\* no field of an earlier one, and the channel is hit to a step of the
\* synthesiser, less than a Hz cut here on top.
ModemFollowsSettings ==
  /\ modem.bw = mod.bandwidth /\ modem.sf = mod.datarate
  /\ modem.codingRate = mod.coderate /\ modem.crc
  /\ modem.ldro = LowDatarateOptimize
  /\ 256 * modem.preambleMsb + modem.preambleLsb = mod.preambleLen
  /\ modem.detection = "SF6" <=> mod.datarate = 6
  /\ mod.frequency - Hertz(Frf(modem.frf)) \in 0..62

\* What the amplifier gives, in dBm.
Emitted(regs) ==
  CASE ~regs.boost -> regs.outputPower - 1
    [] regs.boost /\ regs.dac20dBm -> regs.outputPower + 5
    [] OTHER -> regs.outputPower + 2

\* The amplifier gives the power asked for, or the nearest it can.
PowerFollowsSettings ==
  Emitted(pa) = IF PaBoost THEN Clamp(Power, 2, 20) ELSE Clamp(Power, -1, 14)

\* A single reception waits for as many symbols as it was asked to, whichever
\* configurations of the transmitter came in between: its two high bits share
\* a register with the data rate.
TimeoutFollowsSettings == 256 * timeout.msb + timeout.lsb = rxSymbTimeout

ModemKept == Running /\ "modem" \notin lost => ModemFollowsSettings
PowerKept == Running /\ "pa" \notin lost => PowerFollowsSettings
TimeoutKept == Running /\ "timeout" \notin lost => TimeoutFollowsSettings

\* Symbols of more than 16 ms need the optimisation of low data rates: a
\* symbol is 2^SF chips, at as many chips a second as the bandwidth has Hz.
Chips[sf \in 0..12] == IF sf = 0 THEN 1 ELSE 2 * Chips[sf - 1]
KiloHertz == <<125, 250, 500>>
LongSymbolsOptimised ==
  Running /\ "modem" \notin lost =>
    (modem.ldro <=> Chips[modem.sf] > 16 * KiloHertz[modem.bw + 1])

\* The antenna is switched to the transmitter while it transmits and never
\* otherwise, although isRadioActive decides whether the switch is touched.
AntennaSwitched == antenna.tx <=> State = "RF_TX_RUNNING"

\* "The workaround is to put the radio in a known state. Thus, we
\* re-initialize it." (HAL_swTimeout): whatever the watchdog does, HWStatus,
\* the "HW abstraction", tells how the radio that runs is configured.
RadioStaysKnown == Running => ModemFollowsSettings
=============================================================================
