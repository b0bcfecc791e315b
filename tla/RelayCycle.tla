----------------------------- MODULE RelayCycle ------------------------------
(***************************************************************************)
(* What a relay promises: it listens for an uplink, forwards each uplink   *)
(* it takes exactly once, then waits for the gateway's reply to it and     *)
(* passes at most one reply on.  While it plans to listen, or when it      *)
(* hears something else than an uplink, it may get lost; never between     *)
(* the uplink and its reply.                                               *)
(***************************************************************************)
VARIABLE phase

Phases == {"idle", "listening", "forwarding", "waiting", "replying",
           "lost"}

Init == phase = "idle"

Listen == phase = "idle" /\ phase' = "listening"
Forward == phase = "listening" /\ phase' = "forwarding"
Forwarded == phase = "forwarding" /\ phase' = "waiting"
Reply == phase = "waiting" /\ phase' = "replying"

\* Nothing heard, no reply, or the reply is out.
End == phase \in {"listening", "waiting", "replying"} /\ phase' = "idle"

Lose == phase \in {"idle", "listening", "replying"} /\ phase' = "lost"

Next == Listen \/ Forward \/ Forwarded \/ Reply \/ End \/ Lose

Spec == Init /\ [][Next]_phase
=============================================================================
