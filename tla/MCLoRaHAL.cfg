SPECIFICATION FairSpec
CONSTANT Commands <- MCCommands
INVARIANTS
  TypeOK
  WatchdogGuardsTx
  ResourceReleased
  OwnerConfigures
  RunMeansActive
  StateMatchesRadio
PROPERTIES
  TransmissionNotCut
  ImplementsService
  TransmissionEnds
