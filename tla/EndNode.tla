------------------------------ MODULE EndNode -------------------------------
(***************************************************************************)
(* The end node of endnode_main.cpp: the PHY, the handler that requests an *)
(* uplink when its Timeout goes off, and the main loop that attaches the   *)
(* Timeout again once the cycle is over.                                   *)
(***************************************************************************)
EXTENDS LoRaPHY

CONSTANTS
  FirstUplink,   \* seconds before the first request: tx.attach(.., 5)
  Period         \* seconds from one cycle to the next request: u.attach(.., 7)

ASSUME EndNodeAssumption ==
  /\ FirstUplink \in Nat \ {0} /\ Period \in Nat \ {0}
  /\ Requests = {"FSM"}

VARIABLES
  handlerTimer,  \* tx, and from then on u: attached one at a time
  msg_pended     \* has a request been made since the handler was attached?

nodeVars == <<handlerTimer, msg_pended>>
allVars == <<vars, nodeVars>>

NodeInit == Init /\ handlerTimer = FirstUplink /\ msg_pended = FALSE

\* handler_txTimeout: the request, then the payload, whose data rate depends
\* on the scenario.
HandlerTxTimeout ==
  /\ pc \in ClientPoints /\ handlerTimer = 0
  /\ PHY_indicateEvent("FSM")
  /\ \E p \in Params : PHY_configUlPayload(p)
  /\ handlerTimer' = Off /\ msg_pended' = TRUE
  /\ UNCHANGED <<presentState, nextState, rxNum, rxErr, repeatFlag, dl, dlPayload,
                 threadVars, timerVars, radioVars, slot>>

CycleOver == presentState = "PHY_IDLE" /\ repeatFlag /\ msg_pended

\* Mutated form: the request stays pending.
MainCheck_StaysPended ==
  /\ MainLoop
  /\ handlerTimer' = IF CycleOver THEN Period ELSE handlerTimer
  /\ UNCHANGED msg_pended

\* The statement of main after PHY_FSM_run.
MainCheck ==
  /\ MainLoop
  /\ IF CycleOver THEN msg_pended' = FALSE /\ handlerTimer' = Period
     ELSE UNCHANGED nodeVars

\* A prompt main thread has made its check too.
NodeTick ==
  /\ MayTick /\ handlerTimer # 0 /\ (PromptMain => ~CycleOver)
  /\ TickTimers
  /\ handlerTimer' = Count(handlerTimer)
  /\ UNCHANGED <<phyVars, clientVars, threadVars, radioVars, msg_pended>>

NodeNext ==
  \/ PHYStep /\ UNCHANGED nodeVars
  \/ MainCheck
  \/ HandlerTxTimeout
  \/ NodeTick

NodeSpec == NodeInit /\ [][NodeNext]_allVars

\* As in LoRaPHY, for the main loop, the handlers, the clock and the frames.
NodeFairness ==
  /\ WF_allVars((PHY_FSM_run /\ UNCHANGED nodeVars) \/ MainCheck)
  /\ SF_allVars(TimerInterrupt /\ UNCHANGED nodeVars)
  /\ SF_allVars(HandlerTxTimeout) /\ SF_allVars(NodeTick)
  /\ SF_allVars(Frame /\ UNCHANGED nodeVars)
  /\ SF_allVars(FrameEnd /\ UNCHANGED nodeVars)
  /\ SF_allVars(TxCompletes /\ HalTxDone /\ UNCHANGED nodeVars)

FairNodeSpec == NodeSpec /\ NodeFairness
-----------------------------------------------------------------------------
\* Every variable keeps its type.
NodeTypeOK ==
  TypeOK /\ handlerTimer \in Off..(FirstUplink + Period) /\ msg_pended \in BOOLEAN

\* The handler is attached or its request is pending, never both and never
\* neither: two attached handlers would request twice per cycle, none would
\* silence the node.
OneHandler == (handlerTimer = Off) <=> msg_pended

\* The receive windows listen on the parameters the uplink was sent with
\* ("dl freq:=ul freq, dl drate:=ul drate"), although the handler, an
\* interrupt, rewrites ul.
WindowsFollowUplink ==
  presentState = "PHY_RX_RUN" /\ link = "rx" => cfg = txCfg

\* The node never falls silent: it sends uplink after uplink.
NodeKeepsSending == []<>(presentState = "PHY_TX_RUN")
=============================================================================
