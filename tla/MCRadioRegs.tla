---------------------------- MODULE MCRadioRegs -----------------------------
(* The registers with modulations, powers and times at the edges of their   *)
(* ranges.                                                                  *)
EXTENDS RadioRegs

AllCommands == {"SetTxConfig", "SetRfTxPower", "SetRxConfig", "receive",
                "transmit", "Sleep"}
\* The gateway configures nothing.
GatewayCommands == {"receive", "transmit", "Sleep"}

SomeModulations ==
  {[bandwidth |-> b, datarate |-> d, coderate |-> 1, preambleLen |-> 8,
    frequency |-> 922100000] : b \in Bandwidths, d \in {11, 12}}
  \union
  {[bandwidth |-> 0, datarate |-> 6, coderate |-> 4, preambleLen |-> 300,
    frequency |-> 922300000],
   [bandwidth |-> 0, datarate |-> 7, coderate |-> 4, preambleLen |-> 65535,
    frequency |-> 868000061]}

SomePowers == {-5, 2, 14, 18, 21}
SomeTimes == {0, 5, 1023, 1024}

\* The "Default" values of sx1272Regs-LoRa.h, or the radio's own.
Default ==
  [modem |-> [bw |-> 0, codingRate |-> 2, crc |-> FALSE, ldro |-> FALSE,
              sf |-> 7, preambleMsb |-> 0, preambleLsb |-> 8,
              frf |-> [msb |-> 228, mid |-> 192, lsb |-> 0],
              detection |-> "SF7_TO_SF12"],
   pa |-> [boost |-> FALSE, outputPower |-> 15, dac20dBm |-> FALSE],
   timeout |-> [msb |-> 0, lsb |-> 100]]
=============================================================================
