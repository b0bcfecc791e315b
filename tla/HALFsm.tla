------------------------------- MODULE HALFsm -------------------------------
(***************************************************************************)
(* The state machine of HAL_FSM.cpp, as the two tables indexed by state    *)
(* and event that HAL_FSM_do consults.                                     *)
(***************************************************************************)

FsmStates == {"IDLE", "CFGING", "READY", "RUN"}
FsmEvents == {"CFGREQ", "RUN", "CFGEND", "RUNEND", "ABORT"}
FsmResults == {"SUCCESS", "CANNOTHAPPEN", "WARNING"}

\* Where each event leads; an event a state has no arc for leaves the state.
FSMnextState(s, e) ==
  CASE e = "CFGREQ" /\ s \in {"IDLE", "READY"} -> "CFGING"
    [] e = "RUN"    /\ s \in {"IDLE", "READY"} -> "RUN"
    [] e = "CFGEND" /\ s = "CFGING"            -> "READY"
    [] e = "RUNEND" /\ s = "RUN"               -> "READY"
    [] e = "ABORT"  /\ s \in {"READY", "RUN"}  -> "CFGING"
    [] OTHER                                   -> s

\* Mutated form: a running machine takes a configuration request.
Accepts_ConfigInRun(s) ==
  CASE s = "CFGING" -> {"CFGEND"}
    [] s = "RUN"    -> {"RUNEND", "ABORT", "CFGREQ"}
    [] OTHER        -> {"CFGREQ", "RUN", "ABORT"}

\* The events each state accepts.
Accepts(s) ==
  CASE s = "CFGING" -> {"CFGEND"}
    [] s = "RUN"    -> {"RUNEND", "ABORT"}
    [] OTHER        -> {"CFGREQ", "RUN", "ABORT"}

\* The verdict HAL_FSM_do returns to its caller.
FSMtransition(s, e) ==
  IF e \notin Accepts(s) THEN "CANNOTHAPPEN"
  ELSE IF s = "IDLE" /\ e = "RUN" THEN "WARNING" ELSE "SUCCESS"

\* Mutated form: the verdict is stored instead of the state.
HAL_FSM_do_Verdict(s, e) ==
  IF FSMtransition(s, e) # "CANNOTHAPPEN" THEN FSMtransition(s, e) ELSE s

\* HAL_FSM_do run without interruption, as an interrupt handler runs it.
HAL_FSM_do(s, e) ==
  IF FSMtransition(s, e) # "CANNOTHAPPEN" THEN FSMnextState(s, e) ELSE s
=============================================================================
