------------------------------- MODULE ClassA -------------------------------
(***************************************************************************)
(* What the PHY promises for one uplink request: it is transmitted, then   *)
(* at most two receive windows open, one after the other, at most one      *)
(* downlink is handed up, and no window opens after it.  A transmission    *)
(* without windows may take the place of the uplink, before it begins.     *)
(***************************************************************************)
VARIABLE phase

Windows == {"rx1", "rx2"}
Phases == {"idle", "only", "tx", "wait1", "wait2", "found", "done"} \union Windows

Init == phase = "idle"

Transmit == phase = "idle" /\ phase' = "tx"

\* After the transmission the delays run.
Transmitted == phase = "tx" /\ phase' = "wait1"

\* A transmission that no window follows.
TransmitOnly == phase = "idle" /\ phase' = "only"
TransmittedOnly == phase = "only" /\ phase' = "idle"

OpenWindow ==
  \/ phase = "wait1" /\ phase' = "rx1"
  \/ phase = "wait2" /\ phase' = "rx2"

\* A window ends with a downlink, which is handed up ...
Find == phase \in Windows /\ phase' = "found"
HandUp == phase = "found" /\ phase' = "done"

\* ... or with nothing, and the second one is still to come.
FirstMissed == phase = "rx1" /\ phase' = "wait2"
SecondMissed == phase = "rx2" /\ phase' = "done"

Close == phase = "done" /\ phase' = "idle"

Next == Transmit \/ Transmitted \/ TransmitOnly \/ TransmittedOnly
        \/ OpenWindow \/ Find \/ HandUp \/ FirstMissed \/ SecondMissed \/ Close

Spec == Init /\ [][Next]_phase
=============================================================================
