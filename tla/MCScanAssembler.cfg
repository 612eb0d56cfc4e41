SPECIFICATION Spec
CONSTANTS
  Circle = 8
  Margin = 1
  LateStart = 2
  PointsPerFrame = 3
  MaxPoints = 8
  MaxFrames = 5
  Starts <- MCStarts
  Spans <- MCSpans
INVARIANTS
  TypeOK
  PointsConserved
  AnnouncedCircleIsOneTurn
PROPERTY CirclesEndAtWraps
CHECK_DEADLOCK FALSE
