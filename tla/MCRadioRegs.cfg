SPECIFICATION Spec
CONSTANTS
  Commands <- AllCommands
  Modulations <- SomeModulations
  Powers <- SomePowers
  RxTimes <- SomeTimes
  PowerOn <- Default
  PaBoost = TRUE
INVARIANTS
  RegsTypeOK
  ModemKept
  PowerKept
  TimeoutKept
  LongSymbolsOptimised
  AntennaSwitched
