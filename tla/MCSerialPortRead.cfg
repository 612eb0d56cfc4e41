SPECIFICATION Spec
CONSTANTS
  Threads <- MCThreads
  Calls <- MCCalls
  Owner = "app"
  Ports <- MCPorts
  NoPort = ""
  Baudrates <- MCBaudrates
  Bytesizes = {8}
  Parities <- MCParities
  Stopbits = {1}
  Flows = {"none"}
  MaxFd = 2
  MaxPending = 2
  Sizes <- MCSizes
  SizeMax = 3
  WaitTime = 1
  MaxFaults = 0
INVARIANT ReadWithinRequest
