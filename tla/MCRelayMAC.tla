----------------------------- MODULE MCRelayMAC -----------------------------
(* The relay with the values of main.cpp and LoRa_RMAC_FSM.cpp. *)
EXTENDS RelayMAC

AnyStatement == Labels
\* Flag updates that no handler divides.
WholeUpdates == Labels \ {"store"}
LoopOnly == {"main"}
=============================================================================
