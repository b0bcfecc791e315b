----------------------------- MODULE ReplyCycle -----------------------------
(***************************************************************************)
(* What a gateway does, seen from the air: it listens, each frame it takes *)
(* makes a reply due (in the place of the one that was due), and it        *)
(* transmits a due reply once, to its end.  A frame it takes for an uplink *)
(* without being able to answer it makes the last reply due again; before  *)
(* there is any the request is dropped.                                    *)
(***************************************************************************)
CONSTANT Nothing   \* no reply

VARIABLES air,     \* "silent", "listening" or "replying"
          due,     \* is a reply to be transmitted?
          reply    \* the last one that was built

vars == <<air, due, reply>>

Init == air = "silent" /\ ~due /\ reply = Nothing

Listen == air = "silent" /\ air' = "listening" /\ UNCHANGED <<due, reply>>

\* A frame that is no uplink interrupts the reception.
Drop == air = "listening" /\ air' = "silent" /\ UNCHANGED <<due, reply>>

Take == air = "listening" /\ due' /\ reply' # Nothing /\ UNCHANGED air

\* A frame that cannot be answered.
Repeat == air = "listening" /\ due' /\ UNCHANGED <<air, reply>>

Reply ==
  /\ due /\ reply # Nothing /\ air # "replying"
  /\ air' = "replying" /\ ~due' /\ UNCHANGED reply

Refuse == due /\ reply = Nothing /\ ~due' /\ UNCHANGED <<air, reply>>

Replied == air = "replying" /\ air' = "silent" /\ UNCHANGED <<due, reply>>

Next == Listen \/ Drop \/ Take \/ Repeat \/ Reply \/ Refuse \/ Replied

Spec == Init /\ [][Next]_vars
=============================================================================
