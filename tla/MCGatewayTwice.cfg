SPECIFICATION GatewaySpec
CONSTANTS
  Commands <- OnlyReceive
  ReplyDelay = 2
  Sizes <- TwoSizes
  PromptMain = FALSE
PROPERTIES
  FlagSendsTx
