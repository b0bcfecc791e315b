SPECIFICATION FairRelaySpec
CONSTANTS
  Requests = {"FSM", "TX", "RX"}
  Params = {p1, p2}
  RxDelay1 = 1
  Window1 = 1
  Window2 = 2
  WindowRx = 10
  TxTimeout = 2
  InterruptPoints <- WholeUpdates
  ClientPoints <- LoopOnly
  PromptMain = TRUE
  TxCompletes = TRUE
  FramesComplete = TRUE
  MonitorPeriod = 5
  MonitorParams = p1
  RelayParams = p2
INVARIANTS
  TwoWindows
  IdleIsClean
  DeliversCurrentFrame
PROPERTIES
  CycleEnds
  KeepsMonitoring
  PassesOn
