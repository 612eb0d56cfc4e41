SPECIFICATION FairSpec
CONSTANTS
  Requests <- MCRequests
  Rotations <- MCRotations
  Polls = 2
  MaxInFlight = 2
INVARIANTS
  TypeOK
  DeactiveTruthful
  SpeedTruthful
PROPERTIES
  ActivateTruthful
  CommandReturns
