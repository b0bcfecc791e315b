----------------------------- MODULE MCEndNode ------------------------------
(* The end node with the periods of endnode_main.cpp. *)
EXTENDS EndNode

\* Flag updates that no handler divides.
WholeUpdates == Labels \ {"store"}
AnyStatement == Labels
=============================================================================
