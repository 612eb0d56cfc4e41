SPECIFICATION Spec
CONSTANTS
  Threads <- MCThreads
  Calls <- MCCalls
  Owner = "app"
  Ports <- MCPorts
  NoPort = ""
  Baudrates <- MCBaudrates
  Bytesizes = {8}
  Parities <- MCParities
  Stopbits = {1, 3}
  Flows = {"none", "hardware"}
  MaxFd = 1
  MaxPending = 1
  Sizes <- MCSizes
  SizeMax = 3
  WaitTime = 1
  MaxFaults = 1
INVARIANTS
  TypeOK
  DescriptorAccounted
  NoLockCycle
  ReportedSettingsInForce
PROPERTIES
  SetPortSparesTransfers
  CallReturns
