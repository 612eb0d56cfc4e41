------------------------------- MODULE ScanNode -------------------------------
(***************************************************************************)
(* The lidar's ROS node: main connects the driver, sets the motor speed    *)
(* once, and publishes each circle it grabs; publish_msg sorts the points  *)
(* of a circle into the cells of a LaserScan message.  A point is its      *)
(* angle and its distance, in whole units; the float quotient that gives   *)
(* the cell is an exact one here, truncated towards zero as the cast does. *)
(* What the cast makes of a negative or an undefined quotient is left to   *)
(* the processor.  Intensities are left out: a cell has that of the last   *)
(* point in it, whether or not that point's range was kept.                *)
(***************************************************************************)
EXTENDS Integers, Sequences, FiniteSetsExt

CONSTANTS
  Turn,       \* units of 360 degrees
  Distances,  \* distances the lidar reports
  Near, Far,  \* min_range, max_range
  Limits,     \* pairs angle_min, angle_max the node may be started with
  Margin,     \* 1 degree: a circle's angles may fall by as much (ScanAssembler)
  LateStart,  \* 10 degrees: no circle starts later (ScanAssembler)
  MaxPoints   \* bound: points of a circle

ASSUME ScanAssumption ==
  /\ Turn \in Nat /\ Distances \subseteq Nat /\ MaxPoints \in Nat
  /\ Margin \in Nat /\ LateStart \in Nat

VARIABLES
  nodePc,     \* "connect", "speed", "grab", "publish", "published" or "end"
  connected,  \* isConnected()
  ranging,    \* the lidar turns and measures
  clockwise, limits,  \* parameters
  saturates,  \* the processor converts negative floats to 0
  circle,     \* scan_data, from the grab to the end of the turn
  message     \* ranges of the message published

nodeVars == <<nodePc, connected, ranging, clockwise, limits, saturates,
              circle, message>>

NaN     == -1
Outside == -1   \* an index beyond the last cell

Point == [angle : 0 .. Turn - 1, distance : Distances]
\* What the assembler announces: ScanAssembler's AnnouncedCircleIsOneTurn.
\* The angles may creep back, each by no more than Margin.
Circles == {c \in UNION {[1 .. n -> Point] : n \in 0 .. MaxPoints} :
              /\ c # <<>> => c[1].angle <= LateStart
              /\ \A i \in 1 .. Len(c) - 1 : c[i].angle - c[i + 1].angle <= Margin}

NodeInit ==
  /\ nodePc = "connect" /\ connected = FALSE /\ ranging \in BOOLEAN
  /\ clockwise \in BOOLEAN /\ saturates \in BOOLEAN
  /\ limits \in Limits
  /\ circle = <<>> /\ message = <<>>

parameters == <<clockwise, limits, saturates>>

-----------------------------------------------------------------------------
\* publish_msg, for one point.  A distance or a direction beyond its limits
\* counts as 0, which is nearer than any other.
Direction(p) == IF clockwise THEN p.angle ELSE Turn - p.angle

RangeOf(p) ==
  IF \/ p.distance \notin Near .. Far
     \/ Direction(p) \notin limits[1] .. limits[2]
  THEN 0 ELSE p.distance

\* (angle - angle_min) / angle_increment with angle_increment = span / n, as
\* the quotient of an offset and a width; the span may be negative.
Span(c)  == c[Len(c)].angle - c[1].angle
Width(c) == IF Span(c) < 0 THEN -Span(c) ELSE Span(c)
Offset(c, p) ==
  LET d == (Direction(p) - c[1].angle) * Len(c)
  IN IF Span(c) < 0 THEN -d ELSE d

Negative == IF saturates THEN 0 ELSE Outside
Index(c, p) ==
  LET d == Offset(c, p)
  IN IF d >= 0 THEN d \div Width(c)
     ELSE IF -d < Width(c) THEN 0 ELSE Negative

\* Mutant of Set: the last point in a cell wins.
SetLast(ranges, last, i, r) ==
  IF ranges[i] = NaN /\ i - last = 2
  THEN [ranges EXCEPT ![i] = r, ![i - 1] = r] ELSE [ranges EXCEPT ![i] = r]

\* The first point in a cell sets it, and also the cell before it if the last
\* point was two cells back, whatever that cell holds; later points set it if
\* they are nearer.
Set(ranges, last, i, r) ==
  IF ranges[i] # NaN THEN [ranges EXCEPT ![i] = IF r < @ THEN r ELSE @]
  ELSE IF i - last = 2 THEN [ranges EXCEPT ![i] = r, ![i - 1] = r]
  ELSE [ranges EXCEPT ![i] = r]

AddPoint(c, acc, p) ==
  LET i == Index(c, p)
  IN IF i \in 0 .. Len(c) - 1
     THEN [ranges |-> Set(acc.ranges, acc.last, i, RangeOf(p)), last |-> i]
     ELSE acc

NoRanges(c) == [i \in 0 .. Len(c) - 1 |-> NaN]
\* The ranges and last_index after n points.
Passes(c) ==
  LET after[n \in 0 .. Len(c)] ==
        IF n = 0 THEN [ranges |-> NoRanges(c), last |-> 0]
        ELSE AddPoint(c, after[n - 1], c[n])
  IN after
Ranges(c) == Passes(c)[Len(c)].ranges

\* The last point at the angle of the first: the increment is 0 and each
\* quotient undefined or infinite.  The processor takes all of them for cell
\* 0, or those that are not positive, or none.  No point: data[-1] gives the
\* limits of an empty message.
Undefined(c) ==
  LET notPositive == {i \in DOMAIN c : Direction(c[i]) <= c[1].angle}
  IN {NoRanges(c)} \cup
     {[NoRanges(c) EXCEPT ![0] = Min({RangeOf(c[i]) : i \in taken})] :
        taken \in {DOMAIN c, notPositive} \ {{}}}

PublishMsg(c) ==
  /\ IF c # <<>> /\ Span(c) # 0 THEN message' = Ranges(c)
     ELSE message' \in Undefined(c)

-----------------------------------------------------------------------------
\* The first loop of main: Connect until it succeeds, or until ros::ok() is
\* false: main then goes on without a connection.
Connect ==
  /\ nodePc = "connect"
  /\ connected' = TRUE /\ nodePc' = "speed"
  /\ UNCHANGED <<ranging, circle, message, parameters>>

NotOkBeforeConnect ==
  /\ nodePc = "connect"
  /\ nodePc' = "speed"
  /\ UNCHANGED <<connected, ranging, circle, message, parameters>>

\* GetRotationSpeed within a tenth of motor_speed, or SetRotationSpeed, whose
\* result nobody looks at: it stops the lidar and starts it again, and may
\* fail in between.
SpeedIsRight ==
  /\ nodePc = "speed" /\ connected /\ ranging
  /\ nodePc' = "grab"
  /\ UNCHANGED <<connected, ranging, circle, message, parameters>>

SetRotationSpeed ==
  /\ nodePc = "speed"
  /\ nodePc' = "grab"
  /\ IF connected THEN ranging' \in BOOLEAN ELSE UNCHANGED ranging
  /\ UNCHANGED <<connected, circle, message, parameters>>

\* The second loop: GrabFullScanBlocking (which may also time out, and then
\* the loop turns once more), publish_msg, the end of one turn.
Grab ==
  /\ nodePc = "grab" /\ connected /\ ranging
  /\ circle' \in Circles /\ nodePc' = "publish"
  /\ UNCHANGED <<connected, ranging, message, parameters>>

Publish ==
  /\ nodePc = "publish"
  /\ PublishMsg(circle)
  /\ nodePc' = "published"
  /\ UNCHANGED <<connected, ranging, circle, parameters>>

NextTurn ==
  /\ nodePc = "published"
  /\ nodePc' = "grab" /\ circle' = <<>> /\ message' = <<>>
  /\ UNCHANGED <<connected, ranging, parameters>>

\* ros::ok() is false: Disconnect.
NotOk ==
  /\ nodePc = "grab"
  /\ nodePc' = "end" /\ connected' = FALSE
  /\ UNCHANGED <<ranging, circle, message, parameters>>

NodeNext ==
  \/ Connect
  \/ NotOkBeforeConnect
  \/ SpeedIsRight
  \/ SetRotationSpeed
  \/ Grab
  \/ Publish
  \/ NextTurn
  \/ NotOk

-----------------------------------------------------------------------------
\* A message has a cell for each point of its circle.
NodeTypeOK ==
  /\ nodePc \in {"connect", "speed", "grab", "publish", "published", "end"}
  /\ connected \in BOOLEAN /\ ranging \in BOOLEAN
  /\ Len(circle) <= MaxPoints
  /\ nodePc = "published" /\ circle # <<>> =>
       message \in [0 .. Len(circle) - 1 -> Distances \cup {NaN, 0}]

\* The points of a circle whose direction lies in cell k of the message,
\* k * increment up to (k + 1) * increment from angle_min.
InCell(k) ==
  {i \in DOMAIN circle : /\ k * Width(circle) <= Offset(circle, circle[i])
                         /\ Offset(circle, circle[i]) < (k + 1) * Width(circle)}
Seen(k) == {RangeOf(circle[i]) : i \in InCell(k)}
\* Points on the other side of angle_min: from up to one cell away they come
\* into cell 0, and from further off on a processor that saturates.
Before == {RangeOf(circle[i]) : i \in {j \in DOMAIN circle :
            /\ Offset(circle, circle[j]) < 0
            /\ saturates \/ -Offset(circle, circle[j]) < Width(circle)}}

\* Point i is painted over: later ones go back to the cell before its own, and
\* from there straight to the cell after it, which is empty.  The gap is then
\* filled although it is none.
PaintedOver(c, i) ==
  LET cell(m) == Index(c, c[m])
  IN \E h, j \in i + 1 .. Len(c) :
       /\ 0 <= cell(h) /\ cell(h) = cell(i) - 1
       /\ h < j /\ cell(j) = cell(i) + 1 /\ cell(j) < Len(c)
       /\ \A m \in h + 1 .. j - 1 : cell(m) \notin 0 .. Len(c) - 1
       /\ \A m \in 1 .. j - 1 : cell(m) # cell(j)

\* Navigation takes the ranges for obstacles.  A cell with points is never
\* empty and reports no more than the nearest of its points, but for those
\* painted over, which takes angles that fall; and what it reports was
\* measured there, in the next cell (the gap that is filled), or, in cell 0,
\* on the other side of angle_min.  Points one cannot see this way are those
\* at the end of the circle, beyond the last cell.
CellsShowNearest ==
  nodePc = "published" /\ circle # <<>> /\ Span(circle) # 0 =>
    \A k \in DOMAIN message :
      /\ \A i \in InCell(k) :
           /\ message[k] # NaN
           /\ message[k] <= RangeOf(circle[i]) \/ PaintedOver(circle, i)
      /\ message[k] # NaN =>
           \/ message[k] \in Seen(k)
           \/ message[k] \in Seen(k + 1)
           \/ k = 0 /\ message[k] \in Before

=============================================================================
