---------------------------- MODULE RadioService ----------------------------
(***************************************************************************)
(* What the HAL promises the layer above it: one radio operation at a      *)
(* time, started and stopped by commands that look atomic, and answered by *)
(* confirmations only while the operation is running.                      *)
(*                                                                         *)
(*   link  the running operation                                           *)
(*   cnf   the last confirmation given for the operation started last      *)
(*                                                                         *)
(* A transmission may also end without any confirmation: that is what the  *)
(* TX watchdog of the HAL does (HAL_swTimeout).                            *)
(***************************************************************************)
VARIABLES link, cnf

serviceVars == <<link, cnf>>

Links == {"idle", "tx", "rxSingle", "rxContinuous"}
RxConfirmations == {"rxDone", "rxCrcError", "rxTimeout"}
Confirmations == {"none", "txDone"} \union RxConfirmations

Init == link = "idle" /\ cnf = "none"

\* A command of the layer above starts an operation on an idle radio ...
Start(op) ==
  /\ link = "idle"
  /\ link' = op
  /\ cnf' = "none"

\* ... or stops the running one, which is never confirmed afterwards.
Stop ==
  /\ link # "idle"
  /\ link' = "idle"
  /\ UNCHANGED cnf

TxConfirmed ==
  /\ link = "tx"
  /\ link' = "idle"
  /\ cnf' = "txDone"

\* A single reception ends with its confirmation; a continuous one goes on
\* and is never timed out.
RxConfirmed(c) ==
  \/ /\ link = "rxSingle"
     /\ link' = "idle"
     /\ cnf' = c
  \/ /\ link = "rxContinuous"
     /\ c # "rxTimeout"
     /\ cnf' = c
     /\ UNCHANGED link

Next ==
  \/ \E op \in Links \ {"idle"} : Start(op)
  \/ Stop
  \/ TxConfirmed
  \/ \E c \in RxConfirmations : RxConfirmed(c)

Spec == Init /\ [][Next]_serviceVars
=============================================================================
