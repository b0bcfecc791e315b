----------------------------- MODULE MCLoRaPHY ------------------------------
(* Instances of the PHY: who calls it, when handlers may run, how fast the  *)
(* main thread is and what the radio may fail to do.                        *)
EXTENDS LoRaPHY

\* Handlers before any statement, between the load and the store of a flag
\* update too.
AnyStatement == Labels

\* Flag updates that no handler divides.
WholeUpdates == Labels \ {"store"}

\* Clients that call from their main loop only.
MainLoopOnly == {"main"}
=============================================================================
