SPECIFICATION Spec
CONSTANTS
  Commands <- GatewayCommands
  Modulations <- SomeModulations
  Powers <- SomePowers
  RxTimes <- SomeTimes
  PowerOn <- Default
  PaBoost = TRUE
INVARIANTS
  RadioStaysKnown
