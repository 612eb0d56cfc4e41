SPECIFICATION Spec
CONSTANTS
  Requests <- MCRequests
  Rotations <- MCRotations
  Polls = 2
  MaxInFlight = 2
INVARIANT ActivatedIsRanging
