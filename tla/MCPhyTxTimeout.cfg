SPECIFICATION FairSpec
CONSTANTS
  Requests = {"FSM"}
  Params = {p1}
  RxDelay1 = 1
  Window1 = 1
  Window2 = 2
  WindowRx = 1
  TxTimeout = 2
  InterruptPoints <- WholeUpdates
  ClientPoints <- MainLoopOnly
  PromptMain = TRUE
  TxCompletes = FALSE
  FramesComplete = TRUE
PROPERTIES
  TxIsAnswered
