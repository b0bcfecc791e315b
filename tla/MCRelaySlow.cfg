SPECIFICATION RelaySpec
CONSTANTS
  Requests = {"FSM", "TX", "RX"}
  Params = {p1, p2}
  RxDelay1 = 1
  Window1 = 1
  Window2 = 2
  WindowRx = 10
  TxTimeout = 2
  InterruptPoints <- AnyStatement
  ClientPoints <- LoopOnly
  PromptMain = FALSE
  TxCompletes = TRUE
  FramesComplete = FALSE
  MonitorPeriod = 5
  MonitorParams = p1
  RelayParams = p2
INVARIANTS
  OneCycle
  WaitsForPHY
PROPERTIES
  TransmitsOnlyRelayed
  ImplementsRelayCycle
