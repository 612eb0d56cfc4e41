SPECIFICATION FairSpec
CONSTANTS
  FrameLen = 4
  MaxRead = 5
  MaxBuf = 10
  StreamLen = 12
INVARIANTS
  TypeOK
  NoIntactFrameLost
  BacklogBounded
PROPERTY CallEnds
