----------------------------- MODULE MCLoRaHAL ------------------------------
(* The HAL driven by any sequence of the commands the PHY calls. *)
EXTENDS LoRaHAL

MCCommands == CommandNames
=============================================================================
