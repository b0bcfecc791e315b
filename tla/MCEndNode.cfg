SPECIFICATION FairNodeSpec
CONSTANTS
  Requests = {"FSM"}
  Params = {p1, p2}
  RxDelay1 = 1
  Window1 = 1
  Window2 = 2
  WindowRx = 1
  TxTimeout = 2
  InterruptPoints <- WholeUpdates
  ClientPoints <- WholeUpdates
  PromptMain = TRUE
  TxCompletes = TRUE
  FramesComplete = TRUE
  FirstUplink = 5
  Period = 7
INVARIANTS
  OneHandler
  WindowsFollowUplink
PROPERTIES
  NodeKeepsSending
  RequestServed
