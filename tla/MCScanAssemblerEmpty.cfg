SPECIFICATION Spec
CONSTANTS
  Circle = 8
  Margin = 1
  LateStart = 2
  PointsPerFrame = 3
  MaxPoints = 8
  MaxFrames = 4
  Starts <- MCStarts
  Spans <- MCSpans
INVARIANT AnnouncedCircleHasPoints
CHECK_DEADLOCK FALSE
