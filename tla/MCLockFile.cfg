SPECIFICATION Spec
CONSTANTS
  Clients <- MCClients
  Processes <- MCProcesses
  ProcessOf <- MCProcessOf
  ParentOf <- MCParentOf
  Styles = {"fhs", "uucp"}
  MaxCrashes = 1
  MaxFaults = 1
INVARIANTS
  TypeOK
  ExclusiveUntilRobbed
  
PROPERTIES
  LockLostOnlyInWindow
  StaleLockCleared
