SPECIFICATION FairGatewaySpec
CONSTANTS
  Commands <- OnlyReceive
  ReplyDelay = 2
  Sizes <- TwoSizes
  PromptMain = FALSE
INVARIANTS
  RunMeansActive
  StateMatchesRadio
PROPERTIES
  KeepsListening
