-------------------------- MODULE RadioRegs_proof ---------------------------
(***************************************************************************)
(* Proofs about the register layer: a radio that runs is set as HWStatus   *)
(* says, for every modulation, power and reception time the types of the   *)
(* parameters admit, and the queries of the modem status the program uses  *)
(* answer exactly what their bit says.                                     *)
(***************************************************************************)
EXTENDS RadioRegs, TLAPS

(***************************************************************************)
(* Conversions.  The limits stay folded in the steps: with their values in *)
(* place the provers would enumerate the ranges.                           *)
(***************************************************************************)
LEMMA Limits ==
  /\ MaxFrequency \in Int /\ MaxFrequency <= 1023999999
  /\ 922100000 <= MaxFrequency /\ 8 <= MaxUint16
  /\ RX_MAX_RXSYMBOLTIME \in Int /\ RX_MAX_RXSYMBOLTIME = 1024
  /\ MaxByte \in Int /\ MaxByte = 255 /\ MaxUint16 \in Int /\ MaxUint16 <= 65535
  /\ MinInt8 \in Int /\ MaxInt8 \in Int
  BY SMT DEF MaxFrequency, RX_MAX_RXSYMBOLTIME, MinInt8, MaxInt8, MaxByte, MaxUint16

\* A frequency in MHz and Hz.
LEMMA FrequencyParts ==
  ASSUME NEW freq \in 0..MaxFrequency
  PROVE  /\ freq \in Int /\ freq \div 1000000 \in Int /\ freq % 1000000 \in Int
         /\ freq % 1000000 = freq - 1000000 * (freq \div 1000000)
         /\ 0 <= freq % 1000000 /\ freq % 1000000 <= 999999
         /\ 0 <= freq \div 1000000 /\ freq \div 1000000 <= 1023
<1>1. freq \in Int /\ 0 <= freq /\ freq <= 1023999999
  BY Limits, SMT
<1>2. freq % 1000000 = freq - 1000000 * (freq \div 1000000)
  BY <1>1, SMT
<1>3. /\ freq \div 1000000 \in Int /\ 0 <= freq \div 1000000
      /\ freq \div 1000000 <= 1023
      /\ freq % 1000000 \in Int /\ 0 <= freq % 1000000 /\ freq % 1000000 <= 999999
  BY <1>1, SMT
<1> QED
  BY <1>1, <1>2, <1>3, SMT

\* The steps of a frequency: a whole MHz has 16384 of them.
LEMMA StepsParts ==
  ASSUME NEW freq \in 0..MaxFrequency
  PROVE  /\ Steps(freq) \in Int /\ 0 <= Steps(freq) /\ Steps(freq) <= 16777215
         /\ Steps(freq) \div 16384 = freq \div 1000000
         /\ Steps(freq) % 16384 = ((freq % 1000000) * 256) \div 15625
<1> DEFINE q == freq \div 1000000
           r == freq % 1000000
           k == (r * 256) \div 15625
<1>1. q \in Int /\ r \in Int /\ 0 <= q /\ q <= 1023 /\ 0 <= r /\ r <= 999999
  BY FrequencyParts, SMT
<1> HIDE DEF q, r
<1>2. k \in Int /\ 0 <= k /\ k <= 16383
  BY <1>1, SMT
<1> HIDE DEF k
<1>3. Steps(freq) = 16384 * q + k
  BY SMT DEF Steps, q, r, k
<1>4. /\ Steps(freq) \in Int /\ 0 <= Steps(freq) /\ Steps(freq) <= 16777215
      /\ Steps(freq) \div 16384 = q /\ Steps(freq) % 16384 = k
  BY <1>1, <1>2, <1>3, SMT
<1> QED
  BY <1>4, SMT DEF q, r, k

\* Cut to steps, a frequency is missed by a step at most.
LEMMA StepsNear ==
  ASSUME NEW freq \in 0..MaxFrequency
  PROVE  freq - Hertz(Steps(freq)) \in 0..62
<1> DEFINE q == freq \div 1000000
           r == freq % 1000000
           k == (r * 256) \div 15625
           h == (k * 15625) \div 256
<1>1. freq \in Int /\ q \in Int /\ r \in Int /\ r = freq - 1000000 * q
  BY FrequencyParts, SMT
<1>2. Steps(freq) \div 16384 = q /\ Steps(freq) % 16384 = k
  BY StepsParts, SMT
<1>3. Hertz(Steps(freq)) = 1000000 * q + h
  <2> HIDE DEF q, k
  <2> QED BY <1>2, SMT DEF Hertz, h
<1> HIDE DEF q, r
<1>4. k \in Int /\ 15625 * k <= 256 * r /\ 256 * r < 15625 * k + 15625
  BY <1>1, SMT
<1> HIDE DEF k
<1>5. h \in Int /\ 256 * h <= 15625 * k /\ 15625 * k < 256 * h + 256
  BY <1>4, SMT
<1> HIDE DEF h
<1>6. 0 <= r - h /\ r - h <= 62
  BY <1>1, <1>4, <1>5, SMT
<1> QED
  BY <1>1, <1>3, <1>5, <1>6, SMT

\* The three bytes of a channel hold its steps.
LEMMA ChannelHolds ==
  ASSUME NEW freq \in 0..MaxFrequency
  PROVE  Channel(freq) \in FrfRegs /\ Frf(Channel(freq)) = Steps(freq)
<1> DEFINE s == Steps(freq)
           a == s \div 65536
           b == (s \div 256) % 256
           c == s % 256
           d == s \div 256
<1>1. s \in Int /\ 0 <= s /\ s <= 16777215
  BY StepsParts, SMT
<1>2. Channel(freq) = [msb |-> a, mid |-> b, lsb |-> c]
  BY SMT DEF Channel
<1> HIDE DEF s
<1>3. /\ a \in Int /\ 0 <= a /\ a <= 255 /\ b \in Int /\ 0 <= b /\ b <= 255
      /\ c \in Int /\ 0 <= c /\ c <= 255 /\ d \in Int
  BY <1>1, SMT
<1>4. b = d - 256 * a
  BY <1>1, SMT
<1>5. c = s - 256 * d
  BY <1>1, SMT
<1> HIDE DEF a, b, c, d
<1>6. a \in Bytes /\ b \in Bytes /\ c \in Bytes
  BY <1>3, Limits, SMT DEF Bytes
<1>7. Channel(freq) \in FrfRegs
  BY <1>2, <1>6, SMT DEF FrfRegs
<1>8. Channel(freq).msb = a /\ Channel(freq).mid = b /\ Channel(freq).lsb = c
  BY <1>2, SMT
<1>9. Frf(Channel(freq)) = 65536 * a + 256 * b + c
  BY <1>8, SMT DEF Frf
<1>10. 65536 * a + 256 * b + c = s
  BY <1>1, <1>3, <1>4, <1>5, SMT
<1> QED
  BY <1>7, <1>9, <1>10, SMT DEF s

\* The ten bits of a reception time.
LEMMA TimeoutHolds ==
  ASSUME NEW symbols \in 0..RX_MAX_RXSYMBOLTIME - 1
  PROVE  /\ SymbTimeout(symbols) \in TimeoutRegs
         /\ 256 * SymbTimeout(symbols).msb + SymbTimeout(symbols).lsb = symbols
<1> DEFINE a == symbols \div 256
           b == symbols % 256
<1>1. symbols \in Int /\ 0 <= symbols /\ symbols <= 1023
  BY Limits, SMT
<1>2. a \in 0..3 /\ b \in Int /\ 0 <= b /\ b <= 255 /\ b = symbols - 256 * a
  BY <1>1, SMT
<1>3. SymbTimeout(symbols) = [msb |-> a, lsb |-> b]
  BY SMT DEF SymbTimeout
<1> HIDE DEF a, b
<1>4. b \in Bytes
  BY <1>2, Limits, SMT DEF Bytes
<1>5. SymbTimeout(symbols) \in TimeoutRegs
  BY <1>2, <1>3, <1>4, SMT DEF TimeoutRegs
<1>6. SymbTimeout(symbols).msb = a /\ SymbTimeout(symbols).lsb = b
  BY <1>3, SMT
<1>7. 256 * a + b = symbols
  BY <1>1, <1>2, SMT
<1> QED
  BY <1>5, <1>6, <1>7, SMT

\* What HW_SetTxConfig and HW_SetRxConfig write holds the modulation.
LEMMA ModemHolds ==
  ASSUME NEW m \in AllModulations, NEW ldro \in BOOLEAN
  PROVE  /\ Modem(m, ldro) \in ModemRegs
         /\ LET r == Modem(m, ldro) IN
              /\ r.bw = m.bandwidth /\ r.sf = m.datarate
              /\ r.codingRate = m.coderate /\ r.crc /\ r.ldro = ldro
              /\ 256 * r.preambleMsb + r.preambleLsb = m.preambleLen
              /\ r.detection = "SF6" <=> m.datarate = 6
              /\ m.frequency - Hertz(Frf(r.frf)) \in 0..62
<1> DEFINE r == Modem(m, ldro)
           a == m.preambleLen \div 256
           b == m.preambleLen % 256
           frf == Channel(m.frequency)
           detection == IF m.datarate = 6 THEN "SF6" ELSE "SF7_TO_SF12"
<1>1. /\ m.bandwidth \in Bandwidths /\ m.datarate \in Datarates
      /\ m.coderate \in Coderates /\ m.preambleLen \in 0..MaxUint16
      /\ m.frequency \in 0..MaxFrequency
  BY SMT DEF AllModulations
<1>2. frf \in FrfRegs /\ m.frequency - Hertz(Frf(frf)) \in 0..62
  BY <1>1, ChannelHolds, StepsNear, SMT
<1>3. m.preambleLen \in Int /\ 0 <= m.preambleLen /\ m.preambleLen <= 65535
  BY <1>1, Limits, SMT
<1>4. /\ a \in Int /\ 0 <= a /\ a <= 255 /\ b \in Int /\ 0 <= b /\ b <= 255
      /\ b = m.preambleLen - 256 * a
  BY <1>3, SMT
<1>5. r = [bw |-> m.bandwidth, codingRate |-> m.coderate, crc |-> TRUE,
           ldro |-> ldro, sf |-> m.datarate, preambleMsb |-> a,
           preambleLsb |-> b, frf |-> frf, detection |-> detection]
  BY SMT DEF Modem
<1>6. /\ detection \in {"SF6", "SF7_TO_SF12"}
      /\ detection = "SF6" <=> m.datarate = 6
  BY SMT
<1> HIDE DEF r, a, b, frf, detection
<1>7. a \in Bytes /\ b \in Bytes
  BY <1>4, Limits, SMT DEF Bytes
<1>8. 256 * a + b = m.preambleLen
  BY <1>3, <1>4, SMT
<1>9. r \in ModemRegs
  BY <1>1, <1>2, <1>5, <1>6, <1>7, SMT DEF ModemRegs
<1>10. /\ r.bw = m.bandwidth /\ r.sf = m.datarate /\ r.codingRate = m.coderate
       /\ r.crc /\ r.ldro = ldro /\ r.preambleMsb = a /\ r.preambleLsb = b
       /\ r.detection = detection /\ r.frf = frf
  BY <1>5, SMT
<1> QED
  BY <1>2, <1>6, <1>8, <1>9, <1>10, SMT DEF r

\* What HW_SetRfTxPower writes makes the amplifier give the power asked for, or
\* the nearest it can.
LEMMA PowerHolds ==
  ASSUME NEW power \in MinInt8..MaxInt8, NEW dac \in BOOLEAN
  PROVE  /\ RfTxPower(power, dac) \in PaRegs
         /\ Emitted(RfTxPower(power, dac)) =
              IF PaBoost THEN Clamp(power, 2, 20) ELSE Clamp(power, -1, 14)
<1> DEFINE r == RfTxPower(power, dac)
           out == IF PaBoost THEN Clamp(power, 2, 20) ELSE Clamp(power, -1, 14)
<1> USE RegsAssumption
<1>1. power \in Int
  BY Limits, SMT
<1>2. CASE ~PaBoost
  <2> DEFINE low == Clamp(power, -1, 14) + 1
  <2>1. low \in 0..15
    BY <1>1, SMT DEF Clamp
  <2>2. r = [boost |-> FALSE, dac20dBm |-> dac, outputPower |-> low]
    BY <1>2, Zenon DEF RfTxPower
  <2>3. out = low - 1
    BY <1>1, <1>2, SMT DEF Clamp
  <2> HIDE DEF r, out, low
  <2>4. r \in PaRegs /\ ~r.boost /\ r.outputPower = low
    BY <2>1, <2>2, SMT DEF PaRegs
  <2>5. Emitted(r) = r.outputPower - 1
    BY <2>4, Zenon DEF Emitted
  <2> QED
    BY <2>3, <2>4, <2>5, Zenon DEF r, out
<1>3. CASE PaBoost /\ power > 17
  <2> DEFINE high == Clamp(power, 5, 20) - 5
  <2>1. high \in 0..15
    BY <1>1, SMT DEF Clamp
  <2>2. r = [boost |-> TRUE, dac20dBm |-> TRUE, outputPower |-> high]
    BY <1>3, Zenon DEF RfTxPower
  <2>3. out = high + 5
    BY <1>1, <1>3, SMT DEF Clamp
  <2> HIDE DEF r, out, high
  <2>4. r \in PaRegs /\ r.boost /\ r.dac20dBm /\ r.outputPower = high
    BY <2>1, <2>2, SMT DEF PaRegs
  <2>5. Emitted(r) = r.outputPower + 5
    BY <2>4, Zenon DEF Emitted
  <2> QED
    BY <2>3, <2>4, <2>5, Zenon DEF r, out
<1>4. CASE PaBoost /\ ~(power > 17)
  <2> DEFINE mid == Clamp(power, 2, 17) - 2
  <2>1. mid \in 0..15
    BY <1>1, SMT DEF Clamp
  <2>2. r = [boost |-> TRUE, dac20dBm |-> FALSE, outputPower |-> mid]
    BY <1>4, Zenon DEF RfTxPower
  <2>3. out = mid + 2
    BY <1>1, <1>4, SMT DEF Clamp
  <2> HIDE DEF r, out, mid
  <2>4. r \in PaRegs /\ r.boost /\ ~r.dac20dBm /\ r.outputPower = mid
    BY <2>1, <2>2, SMT DEF PaRegs
  <2>5. Emitted(r) = r.outputPower + 2
    BY <2>4, Zenon DEF Emitted
  <2> QED
    BY <2>3, <2>4, <2>5, Zenon DEF r, out
<1> QED
  BY <1>2, <1>3, <1>4, Zenon

(***************************************************************************)
(* The invariant: a register no reset has changed since HWStatus was       *)
(* written agrees with it, and the antenna's switch with the operation.    *)
(***************************************************************************)
ModemAgrees == ModemFollowsSettings /\ (LowDatarateOptimize <=> LowDROpt(mod))

RegsFollow ==
  /\ "modem" \notin lost => ModemAgrees
  /\ "pa" \notin lost => PowerFollowsSettings
  /\ "timeout" \notin lost => TimeoutFollowsSettings
  /\ AntennaSwitched /\ (antenna.tx => ~antenna.isRadioActive)

RegsInv == RegsTypeOK /\ RegsFollow

LEMMA InitHolds == Init => RegsInv
<1> SUFFICES ASSUME Init PROVE RegsInv
  OBVIOUS
<1>1. mod \in AllModulations
  <2>1. 922100000 \in 0..MaxFrequency /\ 8 \in 0..MaxUint16
    BY Limits, SMT
  <2> QED
    BY <2>1, SMT DEF Init, InitModulation, AllModulations, Bandwidths, Datarates, Coderates
<1>2. Power \in MinInt8..MaxInt8
  BY SMT DEF Init, InitPower, MinInt8, MaxInt8
<1>3. rxSymbTimeout \in 0..RX_MAX_RXSYMBOLTIME - 1
  BY Limits, SMT DEF Init, InitSymbTimeout
<1>4. modem \in ModemRegs /\ pa \in PaRegs /\ timeout \in TimeoutRegs
  BY RegsAssumption, SMT DEF Init
<1>5. antenna = [tx |-> FALSE, isRadioActive |-> FALSE]
  BY Zenon DEF Init
<1>6. antenna \in [tx : BOOLEAN, isRadioActive : BOOLEAN] /\ ~antenna.tx
  BY <1>5, SMT
<1>7. /\ State = "RF_NULL" /\ lost = {"modem", "pa", "timeout"}
      /\ LowDatarateOptimize = FALSE /\ RxContinuous = TRUE
  BY Zenon DEF Init
<1>8. LowDatarateOptimize \in BOOLEAN /\ RxContinuous \in BOOLEAN
  BY <1>7, Zenon
<1>9. RegsTypeOK
  BY <1>1, <1>2, <1>3, <1>4, <1>6, <1>7, <1>8, SMT DEF RegsTypeOK
<1>10. RegsFollow
  BY <1>6, <1>7, SMT DEF RegsFollow, AntennaSwitched
<1> QED
  BY <1>9, <1>10, Zenon DEF RegsInv

\* The modem's registers after either configuration.
LEMMA ModemStep ==
  ASSUME NEW m \in AllModulations, mod' = m, LowDatarateOptimize' = LowDROpt(m),
         modem' = Modem(m, LowDROpt(m))
  PROVE  /\ mod' \in AllModulations /\ LowDatarateOptimize' \in BOOLEAN
         /\ modem' \in ModemRegs /\ ModemAgrees'
<1>1. LowDROpt(m) \in BOOLEAN
  BY SMT DEF LowDROpt
<1> DEFINE opt == LowDROpt(m)
<1> HIDE DEF opt
<1>2. opt \in BOOLEAN /\ LowDatarateOptimize' = opt /\ modem' = Modem(m, opt)
  BY <1>1, Zenon DEF opt
<1>3. LowDatarateOptimize' \in BOOLEAN
  BY <1>2, Zenon
<1>4. ModemFollowsSettings'
  BY <1>2, ModemHolds, SMT DEF ModemFollowsSettings
<1>5. (LowDatarateOptimize <=> LowDROpt(mod))'
  BY Zenon DEF LowDROpt
<1> QED
  BY <1>2, <1>3, <1>4, <1>5, ModemHolds, SMT DEF ModemAgrees

\* The amplifier's registers after a power was set.
LEMMA PowerStep ==
  ASSUME NEW power \in MinInt8..MaxInt8, NEW dac \in BOOLEAN, Power' = power,
         pa' = RfTxPower(power, dac)
  PROVE  Power' \in MinInt8..MaxInt8 /\ pa' \in PaRegs /\ PowerFollowsSettings'
  BY PowerHolds, SMT DEF PowerFollowsSettings

\* The switch after HW_SetOpMode.
LEMMA SwitchStep ==
  ASSUME NEW ant \in [tx : BOOLEAN, isRadioActive : BOOLEAN],
         ant.tx => ~ant.isRadioActive, NEW mode
  PROVE  LET new == SetOpMode(ant, mode) IN
           /\ new \in [tx : BOOLEAN, isRadioActive : BOOLEAN]
           /\ new.tx <=> mode = "tx"
           /\ new.tx => ~new.isRadioActive
<1>1. CASE mode = "sleep"
  BY <1>1, SMT DEF SetOpMode
<1>2. CASE mode = "tx"
  <2> DEFINE new == SetOpMode(ant, mode)
  <2>1. new = [tx |-> TRUE, isRadioActive |-> FALSE]
    BY <1>2, Zenon DEF SetOpMode
  <2> HIDE DEF new
  <2>2. new \in [tx : BOOLEAN, isRadioActive : BOOLEAN] /\ new.tx /\ ~new.isRadioActive
    BY <2>1, SMT
  <2> QED
    BY <1>2, <2>2, Zenon DEF new
<1>3. CASE mode # "sleep" /\ mode # "tx"
  <2> DEFINE new == SetOpMode(ant, mode)
  <2>1. new = [tx |-> FALSE, isRadioActive |-> FALSE]
    BY <1>3, Zenon DEF SetOpMode
  <2> HIDE DEF new
  <2>2. new \in [tx : BOOLEAN, isRadioActive : BOOLEAN] /\ ~new.tx
    BY <2>1, SMT
  <2> QED
    BY <1>3, <2>2, Zenon DEF new
<1> QED
  BY <1>1, <1>2, <1>3, Zenon

(***************************************************************************)
(* The steps.                                                              *)
(***************************************************************************)
\* A command or handler that writes no register.
LEMMA OperateStep ==
  ASSUME NEW state \in {"RF_IDLE", "RF_RX_RUNNING", "RF_TX_RUNNING"},
         NEW ant \in [tx : BOOLEAN, isRadioActive : BOOLEAN],
         ant.tx <=> state = "RF_TX_RUNNING", ant.tx => ~ant.isRadioActive,
         RegsInv, Operate(state, ant)
  PROVE  RegsInv'
<1>1. RegsTypeOK'
  BY SMT DEF RegsInv, RegsTypeOK, Operate, settings, registers
<1>2. (antenna.tx => ~antenna.isRadioActive)' /\ AntennaSwitched'
  BY SMT DEF Operate, AntennaSwitched
<1>3. /\ UNCHANGED <<mod, Power, LowDatarateOptimize, rxSymbTimeout>>
      /\ UNCHANGED <<modem, pa, timeout, lost>>
  BY Zenon DEF Operate, settings, registers
<1>4. ("modem" \notin lost => ModemAgrees)'
  BY <1>3, SMT DEF RegsInv, RegsFollow, ModemAgrees, ModemFollowsSettings, LowDROpt
<1>5. ("pa" \notin lost => PowerFollowsSettings)'
  BY <1>3, SMT DEF RegsInv, RegsFollow, PowerFollowsSettings
<1>6. ("timeout" \notin lost => TimeoutFollowsSettings)'
  BY <1>3, SMT DEF RegsInv, RegsFollow, TimeoutFollowsSettings
<1> QED
  BY <1>1, <1>2, <1>4, <1>5, <1>6, Zenon DEF RegsInv, RegsFollow

LEMMA NextHolds == RegsInv /\ [Next]_vars => RegsInv'
<1> SUFFICES ASSUME RegsInv, [Next]_vars PROVE RegsInv'
  OBVIOUS
<1> USE RegsAssumption
<1>a. /\ mod \in AllModulations /\ Power \in MinInt8..MaxInt8
      /\ rxSymbTimeout \in 0..RX_MAX_RXSYMBOLTIME - 1
      /\ LowDatarateOptimize \in BOOLEAN /\ RxContinuous \in BOOLEAN
      /\ State \in {"RF_NULL", "RF_IDLE", "RF_RX_RUNNING", "RF_TX_RUNNING"}
      /\ modem \in ModemRegs /\ pa \in PaRegs /\ timeout \in TimeoutRegs
      /\ antenna \in [tx : BOOLEAN, isRadioActive : BOOLEAN]
      /\ lost \subseteq {"modem", "pa", "timeout"}
      /\ antenna.tx => ~antenna.isRadioActive
      /\ antenna.tx <=> State = "RF_TX_RUNNING"
  BY SMT DEF RegsInv, RegsTypeOK, RegsFollow, AntennaSwitched
<1>b. /\ "modem" \notin lost => ModemAgrees
      /\ "pa" \notin lost => PowerFollowsSettings
      /\ "timeout" \notin lost => TimeoutFollowsSettings
  BY Zenon DEF RegsInv, RegsFollow
<1>c. /\ PowerOn.modem \in ModemRegs /\ PowerOn.pa \in PaRegs
      /\ PowerOn.timeout \in TimeoutRegs /\ PowerOn.pa.dac20dBm \in BOOLEAN
  BY SMT DEF PaRegs
<1>d. pa.dac20dBm \in BOOLEAN
  BY <1>a, SMT DEF PaRegs
<1> DEFINE off == [antenna EXCEPT !.tx = FALSE]
<1>f. off \in [tx : BOOLEAN, isRadioActive : BOOLEAN] /\ ~off.tx
  <2>1. off \in [tx : BOOLEAN, isRadioActive : BOOLEAN]
    BY <1>a, Zenon
  <2>2. ~off.tx
    BY <1>a, SMT
  <2> QED
    BY <2>1, <2>2, Zenon
<1> HIDE DEF off
\* The configurations.
<1>e. ASSUME UNCHANGED <<antenna, State>>, RegsTypeOK',
             ("modem" \notin lost => ModemAgrees)',
             ("pa" \notin lost => PowerFollowsSettings)',
             ("timeout" \notin lost => TimeoutFollowsSettings)'
      PROVE  RegsInv'
  BY <1>a, <1>e, SMT DEF RegsInv, RegsFollow, AntennaSwitched
<1>1. CASE HAL_cmd_init
  <2>1. /\ ModemAgrees' /\ modem' \in ModemRegs
        /\ mod' \in AllModulations /\ LowDatarateOptimize' \in BOOLEAN
    BY <1>1, <1>a, ModemStep, SMT DEF HAL_cmd_init
  <2>2. PowerFollowsSettings' /\ pa' \in PaRegs /\ Power' \in MinInt8..MaxInt8
    BY <1>1, <1>a, <1>c, PowerStep, SMT DEF HAL_cmd_init
  <2>3. TimeoutFollowsSettings' /\ timeout' \in TimeoutRegs
    BY <1>1, <1>a, TimeoutHolds, SMT DEF HAL_cmd_init, TimeoutFollowsSettings
  <2>4. antenna' = SetOpMode(off, "sleep")
    BY <1>1, Zenon DEF HAL_cmd_init, off
  <2>5. antenna' \in [tx : BOOLEAN, isRadioActive : BOOLEAN] /\ ~antenna'.tx
    BY <1>f, <2>4, SwitchStep, SMT
  <2>6. State' = "RF_IDLE" /\ lost' = {} /\ UNCHANGED <<RxContinuous, rxSymbTimeout>>
    BY <1>1, Zenon DEF HAL_cmd_init
  <2>7. RegsTypeOK'
    BY <1>a, <2>1, <2>2, <2>3, <2>5, <2>6, SMT DEF RegsTypeOK
  <2> QED
    BY <2>1, <2>2, <2>3, <2>5, <2>6, <2>7, SMT DEF RegsInv, RegsFollow, AntennaSwitched
<1>2. ASSUME NEW m \in Modulations, NEW power \in Powers, HAL_cmd_SetTxConfig(m, power)
      PROVE  RegsInv'
  <2>1. m \in AllModulations /\ power \in MinInt8..MaxInt8
    BY Zenon
  <2>2. /\ ModemAgrees' /\ modem' \in ModemRegs
        /\ mod' \in AllModulations /\ LowDatarateOptimize' \in BOOLEAN
    BY <1>2, <2>1, ModemStep, SMT DEF HAL_cmd_SetTxConfig
  <2>3. PowerFollowsSettings' /\ pa' \in PaRegs /\ Power' \in MinInt8..MaxInt8
    BY <1>2, <1>d, <2>1, PowerStep, SMT DEF HAL_cmd_SetTxConfig
  <2>4. /\ UNCHANGED <<RxContinuous, rxSymbTimeout, State, timeout, antenna>>
        /\ lost' = lost \ {"modem", "pa"}
    BY <1>2, Zenon DEF HAL_cmd_SetTxConfig
  <2>5. RegsTypeOK'
    BY <1>a, <2>2, <2>3, <2>4, SMT DEF RegsTypeOK
  <2>6. ("timeout" \notin lost => TimeoutFollowsSettings)'
    BY <1>b, <2>4, SMT DEF TimeoutFollowsSettings
  <2> QED
    BY <1>e, <2>2, <2>3, <2>4, <2>5, <2>6, Zenon
<1>3. ASSUME NEW power \in Powers, HAL_cmd_SetRfTxPower(power)
      PROVE  RegsInv'
  <2>1. power \in MinInt8..MaxInt8
    BY Zenon
  <2>2. PowerFollowsSettings' /\ pa' \in PaRegs /\ Power' \in MinInt8..MaxInt8
    BY <1>3, <1>d, <2>1, PowerStep, SMT DEF HAL_cmd_SetRfTxPower
  <2>3. /\ UNCHANGED <<mod, LowDatarateOptimize, RxContinuous, rxSymbTimeout>>
        /\ UNCHANGED <<State, modem, timeout, antenna>> /\ lost' = lost \ {"pa"}
    BY <1>3, Zenon DEF HAL_cmd_SetRfTxPower
  <2>4. RegsTypeOK'
    BY <1>a, <2>2, <2>3, SMT DEF RegsTypeOK
  <2>5. ("modem" \notin lost => ModemAgrees)'
    BY <1>b, <2>3, SMT DEF ModemAgrees, ModemFollowsSettings, LowDROpt
  <2>6. ("timeout" \notin lost => TimeoutFollowsSettings)'
    BY <1>b, <2>3, SMT DEF TimeoutFollowsSettings
  <2> QED
    BY <1>e, <2>2, <2>3, <2>4, <2>5, <2>6, Zenon
<1>4. ASSUME NEW m \in Modulations, NEW rxTime \in RxTimes, HAL_cmd_SetRxConfig(m, rxTime)
      PROVE  RegsInv'
  <2>1. m \in AllModulations /\ rxTime \in 0..MaxUint16
    BY Zenon
  <2>2. /\ ModemAgrees' /\ modem' \in ModemRegs
        /\ mod' \in AllModulations /\ LowDatarateOptimize' \in BOOLEAN
    BY <1>4, <2>1, ModemStep, SMT DEF HAL_cmd_SetRxConfig
  <2>3. rxSymbTimeout' \in 0..RX_MAX_RXSYMBOLTIME - 1
    BY <1>4, <1>a, <2>1, Limits, SMT DEF HAL_cmd_SetRxConfig
  <2>4. TimeoutFollowsSettings' /\ timeout' \in TimeoutRegs
    BY <1>4, <2>3, TimeoutHolds, SMT DEF HAL_cmd_SetRxConfig, TimeoutFollowsSettings
  <2>5. /\ UNCHANGED <<Power, State, pa, antenna>> /\ lost' = lost \ {"modem", "timeout"}
        /\ RxContinuous' = (rxTime = 0)
    BY <1>4, Zenon DEF HAL_cmd_SetRxConfig
  <2>6. RxContinuous' \in BOOLEAN
    BY <2>5, Zenon
  <2>7. RegsTypeOK'
    BY <1>a, <2>2, <2>3, <2>4, <2>5, <2>6, SMT DEF RegsTypeOK
  <2>8. ("pa" \notin lost => PowerFollowsSettings)'
    BY <1>b, <2>5, SMT DEF PowerFollowsSettings
  <2> QED
    BY <1>e, <2>2, <2>4, <2>5, <2>7, <2>8, Zenon
\* The operations and their ends.
<1>5. CASE HAL_cmd_receive
  BY <1>5, <1>a, SwitchStep, OperateStep, SMT DEF HAL_cmd_receive
<1>6. CASE HAL_cmd_transmit
  <2> DEFINE ant1 == SetOpMode(antenna, "sleep")
             ant2 == SetOpMode(ant1, "standby")
             ant3 == SetOpMode(ant2, "tx")
  <2>1. /\ ant1 \in [tx : BOOLEAN, isRadioActive : BOOLEAN]
        /\ ant1.tx => ~ant1.isRadioActive
    BY <1>a, SwitchStep, SMT
  <2>2. /\ ant2 \in [tx : BOOLEAN, isRadioActive : BOOLEAN]
        /\ ant2.tx => ~ant2.isRadioActive
    <3> HIDE DEF ant1
    <3> QED BY <2>1, SwitchStep, SMT
  <2>3. /\ ant3 \in [tx : BOOLEAN, isRadioActive : BOOLEAN]
        /\ ant3.tx /\ ~ant3.isRadioActive
    <3> HIDE DEF ant2
    <3> QED BY <2>2, SwitchStep, SMT
  <2>4. Operate("RF_TX_RUNNING", ant3)
    BY <1>6, Zenon DEF HAL_cmd_transmit
  <2> HIDE DEF ant3
  <2> QED
    BY <2>3, <2>4, OperateStep, SMT
<1>s. ASSUME HAL_Sleep PROVE RegsInv'
  BY <1>s, <1>a, SwitchStep, OperateStep, SMT DEF HAL_Sleep
<1>7. CASE HAL_cmd_Sleep
  BY <1>7, <1>s, Zenon DEF HAL_cmd_Sleep
<1>8. CASE OperationEnds
  BY <1>8, <1>s, Zenon DEF OperationEnds
<1>9. CASE HAL_swTimeout
  <2>1. mod.frequency \in 0..MaxFrequency
    BY <1>a, SMT DEF AllModulations
  <2>2. Channel(mod.frequency) \in FrfRegs
    BY <2>1, ChannelHolds, SMT
  <2>3. modem' \in ModemRegs
    <3> DEFINE frf == Channel(mod.frequency)
    <3>1. modem' = [PowerOn.modem EXCEPT !.frf = frf, !.detection = "SF7_TO_SF12"]
      BY <1>9, Zenon DEF HAL_swTimeout
    <3> HIDE DEF frf
    <3>2. frf \in FrfRegs
      BY <2>2, Zenon DEF frf
    <3> DEFINE m == [PowerOn.modem EXCEPT !.frf = frf]
    <3>3. m \in ModemRegs
      BY <1>c, <3>2, SMT DEF ModemRegs
    <3>4. modem' = [m EXCEPT !.detection = "SF7_TO_SF12"]
      BY <3>1, Zenon
    <3> HIDE DEF m
    <3> QED
      BY <3>3, <3>4, SMT DEF ModemRegs
  <2>4. antenna' = SetOpMode(off, "sleep")
    BY <1>9, Zenon DEF HAL_swTimeout, off
  <2>5. antenna' \in [tx : BOOLEAN, isRadioActive : BOOLEAN] /\ ~antenna'.tx
    BY <1>f, <2>4, SwitchStep, SMT
  <2>6. /\ State' = "RF_IDLE" /\ lost' = {"modem", "pa", "timeout"}
        /\ pa' = PowerOn.pa /\ timeout' = PowerOn.timeout
        /\ UNCHANGED <<mod, Power, LowDatarateOptimize, RxContinuous, rxSymbTimeout>>
    BY <1>9, Zenon DEF HAL_swTimeout, settings
  <2>7. RegsTypeOK'
    BY <1>a, <1>c, <2>3, <2>5, <2>6, SMT DEF RegsTypeOK
  <2> QED
    BY <2>5, <2>6, <2>7, SMT DEF RegsInv, RegsFollow, AntennaSwitched
<1>10. CASE UNCHANGED vars
  <2>1. /\ UNCHANGED <<mod, Power, LowDatarateOptimize, RxContinuous, rxSymbTimeout>>
        /\ UNCHANGED <<State, modem, pa, timeout, antenna, lost>>
    BY <1>10, Zenon DEF vars, settings, registers
  <2>2. RegsTypeOK'
    BY <1>a, <2>1, SMT DEF RegsTypeOK
  <2>3. ("modem" \notin lost => ModemAgrees)'
    BY <1>b, <2>1, SMT DEF ModemAgrees, ModemFollowsSettings, LowDROpt
  <2>4. ("pa" \notin lost => PowerFollowsSettings)'
    BY <1>b, <2>1, SMT DEF PowerFollowsSettings
  <2>5. ("timeout" \notin lost => TimeoutFollowsSettings)'
    BY <1>b, <2>1, SMT DEF TimeoutFollowsSettings
  <2> QED
    BY <1>e, <2>1, <2>2, <2>3, <2>4, <2>5, Zenon
<1> QED
  BY <1>1, <1>2, <1>3, <1>4, <1>5, <1>6, <1>7, <1>8, <1>9, <1>10, Zenon DEF Next, Configure

LEMMA RegsInvHolds == Spec => []RegsInv
  BY InitHolds, NextHolds, PTL DEF Spec

\* Every register keeps the width the data sheet gives it.
THEOREM RegsTypeCorrect == Spec => []RegsTypeOK
<1>1. RegsInv => RegsTypeOK
  BY DEF RegsInv
<1> QED
  BY RegsInvHolds, <1>1, PTL

\* A running modem that no reset has touched since its last configuration is
\* set as HWStatus says, for every modulation.
THEOREM ModemCorrect == Spec => []ModemKept
<1>1. RegsInv => ModemKept
  BY Zenon DEF RegsInv, RegsFollow, ModemKept, ModemAgrees
<1> QED
  BY RegsInvHolds, <1>1, PTL

\* What the recursion of Chips says holds: a table of the powers of two
\* satisfies it, so the function chosen does.
LEMMA ChipsDouble ==
  \A sf \in 0..12 : Chips[sf] = IF sf = 0 THEN 1 ELSE 2 * Chips[sf - 1]
<1> DEFINE Doubles(f) == f = [sf \in 0..12 |-> IF sf = 0 THEN 1 ELSE 2 * f[sf - 1]]
           table == [sf \in 0..12 |->
                       CASE sf = 0 -> 1   [] sf = 1 -> 2    [] sf = 2 -> 4
                         [] sf = 3 -> 8   [] sf = 4 -> 16   [] sf = 5 -> 32
                         [] sf = 6 -> 64  [] sf = 7 -> 128  [] sf = 8 -> 256
                         [] sf = 9 -> 512 [] sf = 10 -> 1024
                         [] sf = 11 -> 2048 [] OTHER -> 4096]
<1>1. Doubles(table)
  <2>1. \A sf \in 0..12 : table[sf] = IF sf = 0 THEN 1 ELSE 2 * table[sf - 1]
    BY SMT
  <2>2. table = [sf \in 0..12 |-> table[sf]]
    OBVIOUS
  <2> HIDE DEF table
  <2> QED
    BY <2>1, <2>2, Zenon
<1>2. Chips = CHOOSE f : Doubles(f)
  BY Zenon DEF Chips
<1> HIDE DEF table
<1>3. Doubles(Chips)
  <2> HIDE DEF Doubles
  <2> QED
    BY <1>1, <1>2, Zenon
<1> QED
  BY <1>3, Zenon

\* The enumeration of bandwidths and data rates in the HAL names exactly the
\* symbols that last more than 16 ms.
LEMMA LongSymbols ==
  ASSUME NEW m \in AllModulations
  PROVE  LowDROpt(m) <=> Chips[m.datarate] > 16 * KiloHertz[m.bandwidth + 1]
<1>1. m.bandwidth \in Bandwidths /\ m.datarate \in Datarates
  BY SMT DEF AllModulations
<1>2. /\ Chips[6] = 64 /\ Chips[7] = 128 /\ Chips[8] = 256 /\ Chips[9] = 512
      /\ Chips[10] = 1024 /\ Chips[11] = 2048 /\ Chips[12] = 4096
  BY ChipsDouble, SMT
<1> HIDE DEF Chips
<1> QED
  BY <1>1, <1>2, SMT DEF LowDROpt, KiloHertz, Bandwidths, Datarates

\* The modem is told to optimise exactly the symbols that need it, for every
\* bandwidth and data rate: the enumerations in the two configurations and in
\* the initialisation miss none.
THEOREM OptimiseCorrect == Spec => []LongSymbolsOptimised
<1>1. RegsInv => LongSymbolsOptimised
  <2> SUFFICES ASSUME RegsInv, "modem" \notin lost
               PROVE  modem.ldro <=> Chips[modem.sf] > 16 * KiloHertz[modem.bw + 1]
    BY Zenon DEF LongSymbolsOptimised
  <2>1. mod \in AllModulations /\ ModemFollowsSettings
        /\ (LowDatarateOptimize <=> LowDROpt(mod))
    BY Zenon DEF RegsInv, RegsTypeOK, RegsFollow, ModemAgrees
  <2>2. /\ modem.sf = mod.datarate /\ modem.bw = mod.bandwidth
        /\ modem.ldro = LowDatarateOptimize
    BY <2>1, Zenon DEF ModemFollowsSettings
  <2> QED
    BY <2>1, <2>2, LongSymbols, Zenon
<1> QED
  BY RegsInvHolds, <1>1, PTL

\* ... and its amplifier gives the power asked for, or the nearest it can.
THEOREM PowerCorrect == Spec => []PowerKept
<1>1. RegsInv => PowerKept
  BY Zenon DEF RegsInv, RegsFollow, PowerKept
<1> QED
  BY RegsInvHolds, <1>1, PTL

\* ... and a single reception waits for the symbols it was given.
THEOREM TimeoutCorrect == Spec => []TimeoutKept
<1>1. RegsInv => TimeoutKept
  BY Zenon DEF RegsInv, RegsFollow, TimeoutKept
<1> QED
  BY RegsInvHolds, <1>1, PTL

\* The antenna is the transmitter's exactly while it transmits.
THEOREM AntennaCorrect == Spec => []AntennaSwitched
<1>1. RegsInv => AntennaSwitched
  BY Zenon DEF RegsInv, RegsFollow
<1> QED
  BY RegsInvHolds, <1>1, PTL

(***************************************************************************)
(* The queries of the modem's status.                                      *)
(***************************************************************************)
\* The two queries for a signal answer what their bit says, although a register
\* whose bit is not set is compared as it is.
THEOREM SignalQueriesExact ==
  ASSUME NEW stat \in 0..MaxByte
  PROVE  /\ HAL_isSignalDetected(stat) <=> BitSet(stat, 1)
         /\ HAL_isSignalSynchronized(stat) <=> BitSet(stat, 2)
<1>1. stat \in Int
  BY Limits, SMT
<1>2. 1 \div 1 = 1 /\ 2 \div 2 = 1 /\ 1 % 2 = 1
  BY SMT
<1>3. HAL_isSignalDetected(stat) <=> BitSet(stat, 1)
  BY <1>2, SMT DEF HAL_isSignalDetected, Query, BitSet
<1>4. HAL_isSignalSynchronized(stat) <=> BitSet(stat, 2)
  BY <1>2, SMT DEF HAL_isSignalSynchronized, Query, BitSet
<1> QED
  BY <1>3, <1>4, Zenon

\* The query for a reception does not: a detected and synchronised signal, bits
\* 0 and 1, reads as the value the query compares with.
THEOREM RxOngoingConfused == HAL_isRxOngoing(3) /\ ~BitSet(3, 4)
<1>1. ~BitSet(3, 4)
  BY SMT DEF BitSet
<1> QED
  BY <1>1, SMT DEF HAL_isRxOngoing, Query
=============================================================================
