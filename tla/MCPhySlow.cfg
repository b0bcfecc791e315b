SPECIFICATION Spec
CONSTANTS
  Requests = {"FSM", "TX"}
  Params = {p1, p2}
  RxDelay1 = 1
  Window1 = 1
  Window2 = 2
  WindowRx = 1
  TxTimeout = 2
  InterruptPoints <- AnyStatement
  ClientPoints <- AnyStatement
  PromptMain = FALSE
  TxCompletes = FALSE
  FramesComplete = FALSE
INVARIANTS
  TypeOK
  TwoWindows
  IdleIsClean
PROPERTIES
  RequestKept
  ImplementsClassA
