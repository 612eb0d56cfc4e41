SPECIFICATION FairSpec
CONSTANT MaxFrame = 3
INVARIANTS
  TypeOK
  SessionOwnsReader
  NoScanAfterDisconnect
  AnnouncedCircleIsWhole
PROPERTIES
  ImplementsSession
  CallReturns
