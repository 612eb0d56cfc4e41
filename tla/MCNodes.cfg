\* Each node may end: its last state is no deadlock.
CONSTANTS
  Noise <- MCNoise
  MaxSent = 3
  MaxWire = 4
  Turn = 6
  Distances <- MCDistances
  Near = 1
  Far = 2
  Limits <- MCLimits
  Margin = 1
  LateStart = 2
  MaxPoints = 5
  PktLen = 4
  BufLen = 6
  MaxPkt = 2
  Half = 8
  Velocities <- MCVelocities
  Mod = 8
  Header = 5
  Payloads <- MCPayloads
  MaxTurn = 2
  MaxLost = 2
SPECIFICATION Spec
INVARIANTS
  NodesTypeOK
  CellsShowNearest
  PublishesFirstWholePacket
  LossCostsTwoPackets
PROPERTY LearntUnlessBlind
CHECK_DEADLOCK FALSE
