SPECIFICATION FairGatewaySpec
CONSTANTS
  Commands <- OnlyReceive
  ReplyDelay = 2
  Sizes <- TwoSizes
  PromptMain = TRUE
INVARIANTS
  WatchdogGuardsTx
PROPERTIES
  ImplementsReplyCycle
  AnswersUnlessDisturbed
