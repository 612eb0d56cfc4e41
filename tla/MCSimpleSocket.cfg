SPECIFICATION Spec
CONSTANTS
  MaxFds = 2
  MaxQueue = 2
  MaxRequest = 2
  MaxSignals = 1
  MaxFaults = 1
INVARIANTS
  TypeOK
  DescriptorAccounted
  HarmNeedsStaleErrno
  PromisedReadComplete
PROPERTIES
  CallReturns
