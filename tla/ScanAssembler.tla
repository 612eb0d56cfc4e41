---------------------------- MODULE ScanAssembler ----------------------------
(***************************************************************************)
(* The part of uart_data_handle that turns decoded frames into circles:    *)
(* the points of a frame are appended to temp_data, and where the angle    *)
(* falls by more than a degree the points before it become full_scan_data_ *)
(* and the rest starts the next circle.  A point is its angle, in whole    *)
(* units of which a circle has Circle.                                     *)
(*                                                                         *)
(* The device turns at any speed or stands still, and damaged frames leave *)
(* gaps of any size, so a frame starts anywhere; it spans little.          *)
(***************************************************************************)
EXTENDS Integers, Sequences

CONSTANTS
  Circle,          \* 360 degrees
  Margin,          \* 1 degree: a smaller fall of the angle is no wrap
  LateStart,       \* 10 degrees: a circle that starts later is not full
  PointsPerFrame,  \* POINT_PER_PACK, 12
  MaxPoints,       \* POINT_CIRCLE_MAX_SIZE, 4096
  Starts, Spans,   \* first angles of frames, and end less start
  MaxFrames        \* bound: frames decoded

ASSUME CircleAssumption ==
  /\ Circle \in Nat \ {0} /\ Margin \in Nat /\ LateStart \in Nat
  /\ PointsPerFrame \in Nat /\ PointsPerFrame > 1
  /\ MaxPoints \in Nat /\ MaxPoints > PointsPerFrame
  /\ Starts \subseteq 0 .. Circle - 1
  /\ Spans \subseteq 0 .. Circle - LateStart - Margin - 1
  /\ MaxFrames \in Nat

VARIABLES
  temp,       \* temp_data: the points of the circle under way
  lastAngle,  \* the static last_angle
  full,       \* full_scan_data_: the points it counts
  first,      \* angle of full_scan_data_.data[0], counted or not
  ready,      \* full_scan_ready_
  frames,     \* frames decoded so far
  got, done   \* history: the points appended to temp and not discarded by an
              \* overflow; the points of all circles copied to full

vars == <<temp, lastAngle, full, first, ready, frames, got, done>>

\* The memsets of the constructor; full_scan_ready_ is modelled as lowered.
Init ==
  /\ temp = <<>> /\ lastAngle = 0
  /\ full = <<>> /\ first = 0 /\ ready = FALSE
  /\ frames = 0 /\ got = <<>> /\ done = <<>>

-----------------------------------------------------------------------------
\* point_data_parse_frame_ms200: point i (from 0) of a frame.  The step is an
\* integer quotient of the frame's span.
Angle(start, end, i) ==
  LET diff == (end + Circle - start) % Circle
      a    == start + i * (diff \div (PointsPerFrame - 1))
  IN  IF a >= Circle THEN a - Circle ELSE a

FramePoints(start, end) ==
  [k \in 1 .. PointsPerFrame |-> Angle(start, end, k - 1)]

\* The angle that point k of a frame is compared with: the point before it,
\* in the frame or, for the first, the last one decoded.
Before(pts, k) == IF k = 1 THEN lastAngle ELSE pts[k - 1]

\* The points where the angle falls by more than Margin; the first one counts.
Wraps(pts) == {k \in 1 .. PointsPerFrame : Before(pts, k) - pts[k] > Margin}

\* Mutant of HasRoom: one point more than the arrays are meant to hold.
HasRoomOffByOne == Len(temp) + PointsPerFrame <= MaxPoints

HasRoom == Len(temp) + PointsPerFrame < MaxPoints

-----------------------------------------------------------------------------
\* No wrap: the points join the circle under way.
SameCircle(pts) ==
  /\ HasRoom
  /\ Wraps(pts) = {}
  /\ temp' = temp \o pts
  /\ lastAngle' = pts[PointsPerFrame]
  /\ got' = got \o pts
  /\ UNCHANGED <<full, first, ready, done>>

\* Mutants: every circle is announced; last_angle stays at the wrap; the
\* wrapping point is not carried over.
AnnounceAny(firstAngle) == TRUE
WrapAngle(pts, k) == Before(pts, k)
RestAfter(pts, k) == SubSeq(pts, k + 1, PointsPerFrame)

\* Whether a circle is announced, by the angle at data[0].
Announce(firstAngle) == firstAngle <= LateStart

\* last_angle after a frame that wrapped at point k.
EndAngle(pts, k) == pts[PointsPerFrame]

\* The points of the frame that start the next circle.  The code moves them to
\* the front of temp_data by memcpy, also when fewer points are gathered than
\* are moved and the two ranges overlap, which C++ leaves undefined; here it
\* has the outcome of memmove, as in the usual C libraries.
Rest(pts, k) == SubSeq(pts, k, PointsPerFrame)

\* The first wrap ends the circle: what was gathered before it is copied, and
\* announced unless its first point stands beyond LateStart.  Copying nothing
\* leaves the old data[0] to be tested.  Later wraps in the frame go unseen.
CloseCircle(pts) ==
  /\ HasRoom
  /\ \E k \in Wraps(pts) :
       LET circle == temp \o SubSeq(pts, 1, k - 1)
       IN  /\ \A j \in Wraps(pts) : k <= j
           /\ full' = circle
           /\ first' = IF circle = <<>> THEN first ELSE circle[1]
           /\ ready' = Announce(first')
           /\ lastAngle' = EndAngle(pts, k)
           /\ temp' = Rest(pts, k)
           /\ done' = done \o circle
  /\ got' = got \o pts

\* No room: the circle under way and the frame are dropped; last_angle stays.
Overflow ==
  /\ ~HasRoom
  /\ temp' = <<>>
  /\ got' = done
  /\ UNCHANGED <<lastAngle, full, first, ready, done>>

DecodeFrame(start, span) ==
  LET pts == FramePoints(start, (start + span) % Circle)
  IN  /\ frames < MaxFrames
      /\ frames' = frames + 1
      /\ SameCircle(pts) \/ CloseCircle(pts) \/ Overflow

\* GrabFullScan[Blocking] took the circle.
Taken ==
  /\ ready
  /\ ready' = FALSE
  /\ UNCHANGED <<temp, lastAngle, full, first, frames, got, done>>

Next == \/ \E start \in Starts, span \in Spans : DecodeFrame(start, span)
        \/ Taken

Spec == Init /\ [][Next]_vars

-----------------------------------------------------------------------------
(* Properties. *)

Angles == 0 .. Circle - 1

\* Types, with the arrays' bounds: temp_data never holds MaxPoints points.
TypeOK ==
  /\ temp \in Seq(Angles) /\ Len(temp) < MaxPoints
  /\ full \in Seq(Angles) /\ Len(full) < MaxPoints
  /\ lastAngle \in Angles /\ first \in Angles /\ ready \in BOOLEAN
  /\ frames \in 0 .. MaxFrames

\* Every point that was kept is in exactly one circle, in the order received.
PointsConserved == got = done \o temp

\* An announced circle is one turn of the device: it starts near 0 and its
\* angle never falls by more than Margin, also when the frame it begins in
\* wrapped twice, when frames were lost, and after an overflow.
AnnouncedCircleIsOneTurn ==
  ready /\ full # <<>> =>
    /\ full[1] <= LateStart
    /\ \A k \in 1 .. Len(full) - 1 : full[k] - full[k + 1] <= Margin

\* Circles are cut at wraps only: where one ends and has points, the next
\* one's first point lies more than Margin below its last.
CirclesEndAtWraps ==
  [][done' # done => full'[Len(full')] - temp'[1] > Margin]_vars

\* "Not a full scan" is what the code calls a circle that does not start near
\* 0, and the header promises a circle with all its points: an announced
\* circle has points.
AnnouncedCircleHasPoints == ready => full # <<>>
=============================================================================
