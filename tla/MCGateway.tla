----------------------------- MODULE MCGateway ------------------------------
(* The gateway with packets of two sizes and a delay of two ticks. *)
EXTENDS Gateway

OnlyReceive == {"receive"}
TwoSizes == {1, 2}
=============================================================================
