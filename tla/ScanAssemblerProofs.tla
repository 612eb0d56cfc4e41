------------------------- MODULE ScanAssemblerProofs -------------------------
(***************************************************************************)
(* The safety of the scan assembler for every size of frame, circle and    *)
(* buffer, and every frame the device may send.                            *)
(***************************************************************************)
EXTENDS ScanAssembler, SequenceTheorems, TLAPS

-----------------------------------------------------------------------------
\* Arithmetic that the provers need to be told.

\* A multiple of the truncated quotient does not exceed the dividend.
LEMMA Quotient ==
  ASSUME NEW a \in Nat, NEW m \in Nat \ {0}
  PROVE  a \div m \in Nat /\ m * (a \div m) <= a
OBVIOUS

\* Products of naturals grow with their first factor.
LEMMA Product ==
  ASSUME NEW i \in Nat, NEW j \in Nat, NEW s \in Nat, i <= j
  PROVE  i * s \in Nat /\ i * s <= j * s
OBVIOUS

\* An angle of less than two circles, reduced to one.
LEMMA Reduced ==
  ASSUME NEW a \in Nat, a < 2 * Circle
  PROVE  a % Circle = IF a >= Circle THEN a - Circle ELSE a
BY CircleAssumption

\* What a frame looks like: angles of the circle, that fall at most once, and
\* only if the frame starts late in the circle.
Falls(s, k) == s[k - 1] - s[k] > Margin
IsFrame(pts) ==
  /\ pts \in Seq(Angles) /\ Len(pts) = PointsPerFrame
  /\ \A i, j \in 2 .. PointsPerFrame : i < j /\ Falls(pts, i) => ~Falls(pts, j)
  /\ \A j \in 2 .. PointsPerFrame : Falls(pts, j) => pts[1] > LateStart

\* Every frame the device may send is one.
LEMMA FrameShape ==
  ASSUME NEW start \in Starts, NEW span \in Spans
  PROVE  IsFrame(FramePoints(start, (start + span) % Circle))
<1> DEFINE end == (start + span) % Circle
           step == span \div (PointsPerFrame - 1)
           at(i) == start + i * step
           pts == FramePoints(start, end)
<1>1. start \in 0 .. Circle - 1 /\ span \in 0 .. Circle - LateStart - Margin - 1
  BY CircleAssumption
<1>2. (end + Circle - start) % Circle = span
  <2>1. end = IF start + span >= Circle THEN start + span - Circle ELSE start + span
    BY <1>1, CircleAssumption, Reduced
  <2>2. end + Circle - start \in Nat /\ end + Circle - start < 2 * Circle
    BY <1>1, <2>1, CircleAssumption
  <2> HIDE DEF end
  <2>3. (end + Circle - start) % Circle =
          IF end + Circle - start >= Circle THEN (end + Circle - start) - Circle ELSE end + Circle - start
    BY <2>2, Reduced
  <2> QED
    BY <1>1, <2>1, <2>3, CircleAssumption
<1>3. step \in Nat /\ (PointsPerFrame - 1) * step <= span
  BY <1>1, CircleAssumption, Quotient
<1>4. \A k \in 1 .. PointsPerFrame :
        pts[k] = IF at(k - 1) >= Circle THEN at(k - 1) - Circle ELSE at(k - 1)
  BY <1>2 DEF FramePoints, Angle
<1> HIDE DEF end, step
<1>5. \A i \in 0 .. PointsPerFrame - 1 : at(i) \in Nat /\ at(i) <= start + span
  <2> SUFFICES ASSUME NEW i \in 0 .. PointsPerFrame - 1
               PROVE  at(i) \in Nat /\ at(i) <= start + span
    OBVIOUS
  <2>1. i * step \in Nat /\ i * step <= (PointsPerFrame - 1) * step
    BY <1>3, CircleAssumption, Product
  <2> QED
    BY <1>1, <1>3, <2>1, CircleAssumption
<1>6. \A i, j \in 0 .. PointsPerFrame - 1 : i <= j => at(i) <= at(j)
  <2> SUFFICES ASSUME NEW i \in 0 .. PointsPerFrame - 1, NEW j \in 0 .. PointsPerFrame - 1,
                      i <= j
               PROVE  at(i) <= at(j)
    OBVIOUS
  <2>1. i * step \in Nat /\ j * step \in Nat /\ i * step <= j * step
    BY <1>3, CircleAssumption, Product
  <2> QED
    BY <1>1, <2>1
<1>7. at(0) = start
  BY <1>1, <1>3
<1> HIDE DEF at
<1>8. \A k \in 1 .. PointsPerFrame : pts[k] \in Angles
  <2> SUFFICES ASSUME NEW k \in 1 .. PointsPerFrame PROVE pts[k] \in Angles
    OBVIOUS
  <2>1. at(k - 1) \in Nat /\ at(k - 1) <= start + span
    BY <1>5, CircleAssumption
  <2> QED
    BY <1>1, <1>4, <2>1, CircleAssumption DEF Angles
<1>9. pts \in Seq(Angles) /\ Len(pts) = PointsPerFrame
  BY <1>8, CircleAssumption DEF FramePoints
<1> HIDE DEF pts
\* The angle falls where it passes Circle, and it passes it once.
<1>10. ASSUME NEW j \in 2 .. PointsPerFrame, Falls(pts, j)
       PROVE  at(j - 2) < Circle /\ at(j - 1) >= Circle
  <2>1. at(j - 2) \in Nat /\ at(j - 1) \in Nat /\ at(j - 2) <= at(j - 1)
    BY <1>5, <1>6, CircleAssumption
  <2>2. /\ pts[j - 1] = IF at(j - 2) >= Circle THEN at(j - 2) - Circle ELSE at(j - 2)
        /\ pts[j] = IF at(j - 1) >= Circle THEN at(j - 1) - Circle ELSE at(j - 1)
    BY <1>4, CircleAssumption
  <2> QED
    BY <1>10, <2>1, <2>2, CircleAssumption DEF Falls
<1>11. \A i, j \in 2 .. PointsPerFrame : i < j /\ Falls(pts, i) => ~Falls(pts, j)
  <2> SUFFICES ASSUME NEW i \in 2 .. PointsPerFrame, NEW j \in 2 .. PointsPerFrame,
                      i < j, Falls(pts, i), Falls(pts, j)
               PROVE  FALSE
    OBVIOUS
  <2>1. at(i - 1) >= Circle /\ at(j - 2) < Circle
    BY <1>10
  <2>2. at(i - 1) \in Nat /\ at(j - 2) \in Nat /\ at(i - 1) <= at(j - 2)
    BY <1>5, <1>6, CircleAssumption
  <2> QED
    BY <2>1, <2>2, CircleAssumption
<1>12. \A j \in 2 .. PointsPerFrame : Falls(pts, j) => pts[1] > LateStart
  <2> SUFFICES ASSUME NEW j \in 2 .. PointsPerFrame, Falls(pts, j)
               PROVE  pts[1] > LateStart
    OBVIOUS
  <2>1. at(j - 1) >= Circle /\ at(j - 1) \in Nat /\ at(j - 1) <= start + span
    BY <1>5, <1>10, CircleAssumption
  <2>2. pts[1] = start
    BY <1>1, <1>4, <1>7, CircleAssumption
  <2> QED
    BY <1>1, <2>1, <2>2, CircleAssumption
<1> QED
  BY <1>9, <1>11, <1>12 DEF IsFrame, pts, end

-----------------------------------------------------------------------------
\* Points whose angle never falls, or that begin too late to be announced: what
\* the assembler keeps while a circle is under way.
OneTurn(s) ==
  \/ \A k \in 2 .. Len(s) : ~Falls(s, k)
  \/ s # <<>> /\ s[1] > LateStart

\* temp ends in last_angle, and so the test of the next frame's first point
\* compares it with the point before it; data[0] is the first point of full.
Turns ==
  /\ temp # <<>> => temp[Len(temp)] = lastAngle
  /\ OneTurn(temp)
  /\ full # <<>> => full[1] = first
  /\ OneTurn(full)
  /\ ready => first <= LateStart

HistoryOK == got \in Seq(Angles) /\ done \in Seq(Angles)

IInv == TypeOK /\ HistoryOK /\ PointsConserved /\ Turns

\* Joining points that do not fall, without a fall between, keeps OneTurn.
LEMMA JoinTurn ==
  ASSUME NEW s \in Seq(Angles), NEW t \in Seq(Angles), OneTurn(s),
         \A k \in 2 .. Len(t) : ~Falls(t, k),
         s # <<>> /\ t # <<>> => s[Len(s)] - t[1] <= Margin
  PROVE  OneTurn(s \o t)
<1>1. /\ s \o t \in Seq(Angles) /\ Len(s \o t) = Len(s) + Len(t)
      /\ \A i \in 1 .. Len(s) + Len(t) :
           (s \o t)[i] = IF i <= Len(s) THEN s[i] ELSE t[i - Len(s)]
  BY ConcatProperties
<1>2. Len(s) \in Nat /\ Len(t) \in Nat
  OBVIOUS
<1>3. CASE s # <<>> /\ s[1] > LateStart
  <2>1. Len(s) > 0
    BY <1>3
  <2> QED
    BY <1>1, <1>2, <1>3, <2>1 DEF OneTurn
<1>4. CASE \A k \in 2 .. Len(s) : ~Falls(s, k)
  <2> SUFFICES ASSUME NEW k \in 2 .. Len(s) + Len(t) PROVE ~Falls(s \o t, k)
    BY <1>1 DEF OneTurn
  <2>1. CASE k <= Len(s)
    BY <1>1, <1>2, <1>4, <2>1 DEF Falls
  <2>2. CASE k = Len(s) + 1
    <3>1. s # <<>> /\ t # <<>>
      BY <1>2, <2>2
    <3>2. (s \o t)[k - 1] = s[Len(s)] /\ (s \o t)[k] = t[1]
      BY <1>1, <1>2, <2>2
    <3>3. s[Len(s)] \in Int /\ t[1] \in Int
      BY <1>2, <2>2, CircleAssumption, SMTT(30) DEF Angles
    <3> QED
      BY <3>1, <3>2, <3>3, CircleAssumption DEF Falls
  <2>3. CASE k > Len(s) + 1
    <3>1. k - Len(s) \in 2 .. Len(t)
      BY <1>2, <2>3
    <3>2. (s \o t)[k - 1] = t[(k - Len(s)) - 1] /\ (s \o t)[k] = t[k - Len(s)]
      BY <1>1, <1>2, <2>3
    <3> QED
      BY <3>1, <3>2 DEF Falls
  <2> QED
    BY <1>2, <2>1, <2>2, <2>3
<1> QED
  BY <1>3, <1>4 DEF OneTurn

\* The part of a frame before its first wrap, and the part from there on.
LEMMA FrameParts ==
  ASSUME NEW pts, IsFrame(pts), NEW k \in 1 .. PointsPerFrame
  PROVE  /\ SubSeq(pts, 1, k - 1) \in Seq(Angles)
         /\ Len(SubSeq(pts, 1, k - 1)) = k - 1
         /\ \A i \in 1 .. k - 1 : SubSeq(pts, 1, k - 1)[i] = pts[i]
         /\ Rest(pts, k) \in Seq(Angles)
         /\ Len(Rest(pts, k)) = PointsPerFrame - k + 1
         /\ \A i \in 1 .. PointsPerFrame - k + 1 : Rest(pts, k)[i] = pts[k + i - 1]
         /\ SubSeq(pts, 1, k - 1) \o Rest(pts, k) = pts
<1>1. pts \in Seq(Angles) /\ Len(pts) = PointsPerFrame
  BY DEF IsFrame
<1>2. k \in Nat /\ PointsPerFrame \in Nat
  BY CircleAssumption
<1>3. \A i \in 1 .. PointsPerFrame : pts[i] \in Angles
  BY <1>1
<1>4. /\ SubSeq(pts, 1, k - 1) \in Seq(Angles)
      /\ Len(SubSeq(pts, 1, k - 1)) = k - 1
      /\ \A i \in 1 .. k - 1 : SubSeq(pts, 1, k - 1)[i] = pts[i]
  BY <1>1, <1>2, <1>3
<1>5. /\ Rest(pts, k) \in Seq(Angles)
      /\ Len(Rest(pts, k)) = PointsPerFrame - k + 1
      /\ \A i \in 1 .. PointsPerFrame - k + 1 : Rest(pts, k)[i] = pts[k + i - 1]
  BY <1>1, <1>2, <1>3 DEF Rest
<1>6. SubSeq(pts, 1, k - 1) \o Rest(pts, k) = pts
  <2> DEFINE a == SubSeq(pts, 1, k - 1)
             b == Rest(pts, k)
  <2>1. /\ a \o b \in Seq(Angles) /\ Len(a \o b) = PointsPerFrame
        /\ \A i \in 1 .. PointsPerFrame :
             (a \o b)[i] = IF i <= k - 1 THEN a[i] ELSE b[i - (k - 1)]
    BY <1>2, <1>4, <1>5, ConcatProperties
  <2>2. \A i \in 1 .. PointsPerFrame : (a \o b)[i] = pts[i]
    BY <1>2, <1>4, <1>5, <2>1
  <2> QED
    BY <1>1, <2>1, <2>2, SeqEqual
<1> QED
  BY <1>4, <1>5, <1>6

-----------------------------------------------------------------------------
\* The invariant holds at the start.
LEMMA Initially == Init => IInv
<1> SUFFICES ASSUME Init PROVE IInv
  OBVIOUS
<1> USE CircleAssumption DEF Init
<1>1. \A S : <<>> \in Seq(S) /\ Len(<<>>) = 0
  BY EmptySeq
<1>2. ready \in BOOLEAN
  BY Zenon
<1>3. TypeOK
  BY <1>1, <1>2 DEF TypeOK, Angles
<1>4. HistoryOK /\ PointsConserved
  BY <1>1, ConcatEmptySeq DEF HistoryOK, PointsConserved
<1>5. Turns
  BY <1>1 DEF Turns, OneTurn
<1> QED
  BY <1>3, <1>4, <1>5 DEF IInv

\* A frame without a wrap does not fall, and neither does it fall behind what
\* temp ends in.
LEMMA NoWrap ==
  ASSUME IInv, NEW pts, IsFrame(pts), NEW n \in 0 .. PointsPerFrame,
         \A k \in 1 .. n : k \notin Wraps(pts)
  PROVE  /\ \A k \in 2 .. n : ~Falls(pts, k)
         /\ n > 0 /\ temp # <<>> => temp[Len(temp)] - pts[1] <= Margin
<1>1. \A k \in 1 .. n : ~(Before(pts, k) - pts[k] > Margin)
  BY CircleAssumption DEF Wraps
<1>2. \A k \in 2 .. n : ~Falls(pts, k)
  BY <1>1, CircleAssumption DEF Before, Falls
<1>3. ASSUME n > 0, temp # <<>> PROVE temp[Len(temp)] - pts[1] <= Margin
  <2>1. ~(lastAngle - pts[1] > Margin)
    BY <1>1, <1>3, CircleAssumption DEF Before
  <2>2. lastAngle \in Int /\ pts[1] \in Int
    BY CircleAssumption DEF IInv, TypeOK, IsFrame, Angles
  <2> QED
    BY <1>3, <2>1, <2>2, CircleAssumption DEF IInv, Turns
<1> QED
  BY <1>2, <1>3

\* A frame without a wrap keeps it, and cuts no circle.
LEMMA SameCircleStep ==
  ASSUME IInv, NEW pts, IsFrame(pts), SameCircle(pts), frames' \in 0 .. MaxFrames
  PROVE  IInv'
<1>1. /\ temp \in Seq(Angles) /\ pts \in Seq(Angles) /\ Len(pts) = PointsPerFrame
      /\ got \in Seq(Angles) /\ done \in Seq(Angles)
  BY DEF IInv, TypeOK, HistoryOK, IsFrame
<1>2. PointsPerFrame \in Nat /\ PointsPerFrame > 1
  BY CircleAssumption
<1>3. /\ temp \o pts \in Seq(Angles) /\ Len(temp \o pts) = Len(temp) + PointsPerFrame
      /\ (temp \o pts)[Len(temp) + PointsPerFrame] = pts[PointsPerFrame]
  <2>1. /\ temp \o pts \in Seq(Angles) /\ Len(temp \o pts) = Len(temp) + Len(pts)
        /\ \A i \in 1 .. Len(temp) + Len(pts) :
             (temp \o pts)[i] = IF i <= Len(temp) THEN temp[i] ELSE pts[i - Len(temp)]
    BY <1>1, ConcatProperties
  <2>2. Len(temp) \in Nat
    BY <1>1
  <2> QED
    BY <1>1, <1>2, <2>1, <2>2
<1>4. TypeOK'
  <2>1. lastAngle' \in Angles
    BY <1>1, <1>2 DEF SameCircle
  <2>2. ready' \in BOOLEAN
    BY Zenon DEF SameCircle, IInv, TypeOK
  <2> QED
    BY <1>3, <2>1, <2>2 DEF SameCircle, HasRoom, IInv, TypeOK
<1>5. HistoryOK' /\ PointsConserved'
  <2>1. got \o pts \in Seq(Angles)
    BY <1>1, ConcatProperties
  <2>2. (done \o temp) \o pts = done \o (temp \o pts)
    BY <1>1, ConcatAssociative, SMTT(30)
  <2> QED
    BY <1>1, <2>1, <2>2 DEF SameCircle, IInv, HistoryOK, PointsConserved
<1>6. Turns'
  <2>1. OneTurn(temp \o pts)
    <3>1. /\ \A k \in 2 .. PointsPerFrame : ~Falls(pts, k)
          /\ temp # <<>> => temp[Len(temp)] - pts[1] <= Margin
      <4>1. \A k \in 1 .. PointsPerFrame : k \notin Wraps(pts)
        BY DEF SameCircle
      <4>2. PointsPerFrame \in 0 .. PointsPerFrame /\ PointsPerFrame > 0
        BY <1>2
      <4> QED
        BY <4>1, <4>2, NoWrap
    <3>2. OneTurn(temp)
      BY DEF IInv, Turns
    <3> QED
      BY <1>1, <3>1, <3>2, JoinTurn
  <2>2. temp' = temp \o pts /\ lastAngle' = pts[PointsPerFrame]
    BY DEF SameCircle
  <2>3. temp'[Len(temp')] = lastAngle'
    BY <1>3, <2>2
  <2>4. OneTurn(temp)'
    BY <2>1, <2>2 DEF OneTurn, Falls
  <2>5. /\ full # <<>> => full[1] = first
        /\ OneTurn(full)
        /\ ready => first <= LateStart
    BY DEF IInv, Turns
  <2>6. full' = full /\ first' = first /\ (ready' <=> ready)
    BY Zenon DEF SameCircle
  <2> QED
    BY <2>3, <2>4, <2>5, <2>6 DEF Turns, OneTurn, Falls
<1> QED
  BY <1>4, <1>5, <1>6 DEF IInv

\* What a wrap at k makes of temp and full.
LEMMA CloseCircleFacts ==
  ASSUME IInv, NEW pts, IsFrame(pts), CloseCircle(pts)
  PROVE  \E k \in 1 .. PointsPerFrame :
           /\ k \in Wraps(pts) /\ \A j \in 1 .. k - 1 : j \notin Wraps(pts)
           /\ full' = temp \o SubSeq(pts, 1, k - 1)
           /\ first' = IF full' = <<>> THEN first ELSE full'[1]
           /\ ready' = Announce(first')
           /\ lastAngle' = pts[PointsPerFrame]
           /\ temp' = Rest(pts, k)
           /\ done' = done \o full'
           /\ got' = got \o pts
<1>1. PICK k \in Wraps(pts) :
        /\ \A j \in Wraps(pts) : k <= j
        /\ full' = temp \o SubSeq(pts, 1, k - 1)
        /\ first' = IF full' = <<>> THEN first ELSE full'[1]
        /\ ready' = Announce(first')
        /\ lastAngle' = EndAngle(pts, k)
        /\ temp' = Rest(pts, k)
        /\ done' = done \o full'
  BY Zenon DEF CloseCircle
<1>2. k \in 1 .. PointsPerFrame
  BY DEF Wraps
<1>3. \A j \in 1 .. k - 1 : j \notin Wraps(pts)
  BY <1>1, <1>2, CircleAssumption
<1>4. got' = got \o pts
  BY DEF CloseCircle
<1> QED
  BY <1>1, <1>2, <1>3, <1>4 DEF EndAngle

\* A frame with a wrap keeps it, and the circle it cuts ends at the wrap.
LEMMA CloseCircleStep ==
  ASSUME IInv, NEW pts, IsFrame(pts), CloseCircle(pts), frames' \in 0 .. MaxFrames
  PROVE  IInv' /\ (done' # done => full'[Len(full')] - temp'[1] > Margin)
<1>1. /\ temp \in Seq(Angles) /\ pts \in Seq(Angles) /\ Len(pts) = PointsPerFrame
      /\ got \in Seq(Angles) /\ done \in Seq(Angles) /\ full \in Seq(Angles)
      /\ lastAngle \in Angles /\ first \in Angles /\ Len(temp) \in Nat
  BY DEF IInv, TypeOK, HistoryOK, IsFrame
<1>2. PointsPerFrame \in Nat /\ PointsPerFrame > 1
  BY CircleAssumption
<1>3. PICK k \in 1 .. PointsPerFrame :
        /\ k \in Wraps(pts) /\ \A j \in 1 .. k - 1 : j \notin Wraps(pts)
        /\ full' = temp \o SubSeq(pts, 1, k - 1)
        /\ first' = IF full' = <<>> THEN first ELSE full'[1]
        /\ ready' = Announce(first')
        /\ lastAngle' = pts[PointsPerFrame]
        /\ temp' = Rest(pts, k)
        /\ done' = done \o full'
        /\ got' = got \o pts
  BY Zenon, CloseCircleFacts
<1> DEFINE front == SubSeq(pts, 1, k - 1)
<1>4. /\ front \in Seq(Angles) /\ Len(front) = k - 1
      /\ \A i \in 1 .. k - 1 : front[i] = pts[i]
      /\ Rest(pts, k) \in Seq(Angles) /\ Len(Rest(pts, k)) = PointsPerFrame - k + 1
      /\ \A i \in 1 .. PointsPerFrame - k + 1 : Rest(pts, k)[i] = pts[k + i - 1]
      /\ front \o Rest(pts, k) = pts
  BY FrameParts
<1> HIDE DEF front
<1>5. full' = temp \o front
  BY <1>3 DEF front
<1>6. /\ full' \in Seq(Angles) /\ Len(full') = Len(temp) + (k - 1)
      /\ \A i \in 1 .. Len(temp) + (k - 1) :
           full'[i] = IF i <= Len(temp) THEN temp[i] ELSE front[i - Len(temp)]
  <2>1. /\ temp \o front \in Seq(Angles) /\ Len(temp \o front) = Len(temp) + Len(front)
        /\ \A i \in 1 .. Len(temp) + Len(front) :
             (temp \o front)[i] = IF i <= Len(temp) THEN temp[i] ELSE front[i - Len(temp)]
    BY <1>1, <1>4, ConcatProperties, ZenonT(40)
  <2>2. Len(front) = k - 1
    BY <1>4
  <2> QED
    BY ONLY <1>5, <2>1, <2>2
<1>7. Before(pts, k) - pts[k] > Margin
  BY <1>3 DEF Wraps
<1>8. TypeOK'
  <2>1. temp' \in Seq(Angles) /\ Len(temp') < MaxPoints
    BY <1>2, <1>3, <1>4, CircleAssumption
  <2>2. Len(full') < MaxPoints
    BY <1>1, <1>2, <1>6, CircleAssumption, SMTT(30) DEF CloseCircle, HasRoom
  <2>3. lastAngle' \in Angles
    BY <1>1, <1>2, <1>3
  <2>4. first' \in Angles
    <3>1. CASE full' = <<>>
      BY <1>1, <1>3, <3>1
    <3>2. CASE full' # <<>>
      <4>1. full'[1] \in Angles
        BY <1>6, <3>2
      <4> QED
        BY <1>3, <3>2, <4>1
    <3> QED
      BY <3>1, <3>2
  <2>5. ready' \in BOOLEAN
    BY <1>3 DEF Announce
  <2> QED
    BY <1>6, <2>1, <2>2, <2>3, <2>4, <2>5 DEF TypeOK, Angles
<1>9. HistoryOK' /\ PointsConserved'
  <2>1. got' \in Seq(Angles) /\ done' \in Seq(Angles)
    BY <1>1, <1>3, <1>6, ConcatProperties
  <2>2. got' = (done \o temp) \o (front \o temp')
    BY <1>3, <1>4 DEF IInv, PointsConserved
  <2>3. (done \o temp) \o (front \o temp') = ((done \o temp) \o front) \o temp'
    <3>1. done \o temp \in Seq(Angles)
      BY <1>1, ConcatProperties
    <3>2. front \in Seq(Angles) /\ temp' \in Seq(Angles)
      BY <1>3, <1>4
    <3> QED
      BY ONLY <3>1, <3>2, ConcatAssociative, SMTT(30)
  <2>4. (done \o temp) \o front = done \o full'
    <3>1. done \in Seq(Angles) /\ temp \in Seq(Angles) /\ front \in Seq(Angles)
      BY ONLY <1>1, <1>4
    <3>2. (done \o temp) \o front = done \o (temp \o front)
      BY ONLY <3>1, ConcatAssociative, SMTT(30)
    <3> QED
      BY ONLY <1>5, <3>2
  <2> QED
    BY <1>3, <2>1, <2>2, <2>3, <2>4 DEF HistoryOK, PointsConserved
<1>10. Turns'
  <2>1. temp'[Len(temp')] = lastAngle'
    BY <1>2, <1>3, <1>4
  <2>2. OneTurn(temp')
    <3>1. CASE \A j \in 2 .. Len(temp') : ~Falls(temp', j)
      BY <3>1 DEF OneTurn
    <3>2. CASE \E j \in 2 .. Len(temp') : Falls(temp', j)
      <4>1. PICK j \in 2 .. Len(temp') : Falls(temp', j)
        BY <3>2
      <4>2. k + j - 1 \in 2 .. PointsPerFrame /\ Falls(pts, k + j - 1)
        <5>1. /\ temp'[j - 1] = pts[k + (j - 1) - 1]
              /\ temp'[j] = pts[k + j - 1]
          <6>1. Len(temp') = PointsPerFrame - k + 1
            BY ONLY <1>3, <1>4
          <6>2. j - 1 \in 1 .. PointsPerFrame - k + 1 /\ j \in 1 .. PointsPerFrame - k + 1
            BY ONLY <1>2, <4>1, <6>1, k \in 1 .. PointsPerFrame
          <6> QED
            BY ONLY <1>3, <1>4, <6>2
        <5>2. k + (j - 1) - 1 = (k + j - 1) - 1 /\ k + j - 1 \in 2 .. PointsPerFrame
          <6>1. Len(temp') = PointsPerFrame - k + 1
            BY ONLY <1>3, <1>4
          <6> QED
            BY ONLY <1>2, <4>1, <6>1, k \in 1 .. PointsPerFrame
        <5> QED
          BY <4>1, <5>1, <5>2 DEF Falls
      <4>3. k = 1
        <5> SUFFICES ASSUME k # 1 PROVE FALSE
          OBVIOUS
        <5>1. k \in 2 .. PointsPerFrame /\ Falls(pts, k)
          BY <1>2, <1>7 DEF Before, Falls
        <5>2. k < k + j - 1
          BY <1>2, <1>4, <1>3, <4>1
        <5> QED
          BY <4>2, <5>1, <5>2 DEF IsFrame
      <4>4. temp'[1] = pts[1] /\ temp' # <<>>
        BY <1>2, <1>3, <1>4, <4>3, SMTT(30)
      <4>5. pts[1] > LateStart
        BY <4>2 DEF IsFrame
      <4> QED
        BY <4>4, <4>5 DEF OneTurn
    <3> QED
      BY <3>1, <3>2
  <2>3. OneTurn(full')
    <3>1. /\ \A i \in 2 .. k - 1 : ~Falls(pts, i)
          /\ k - 1 > 0 /\ temp # <<>> => temp[Len(temp)] - pts[1] <= Margin
      <4>1. k - 1 \in 0 .. PointsPerFrame
        BY <1>2
      <4> QED
        BY <1>3, <4>1, NoWrap
    <3>2. \A i \in 2 .. Len(front) : ~Falls(front, i)
      BY <1>2, <1>4, <3>1 DEF Falls
    <3>3. temp # <<>> /\ front # <<>> => temp[Len(temp)] - front[1] <= Margin
      BY <1>2, <1>4, <3>1
    <3>4. OneTurn(temp)
      BY DEF IInv, Turns
    <3> QED
      BY <1>1, <1>4, <1>5, <3>2, <3>3, <3>4, JoinTurn
  <2>4. full' # <<>> => full'[1] = first'
    BY <1>3
  <2>5. ready' => first' <= LateStart
    BY <1>3 DEF Announce
  <2> QED
    BY <2>1, <2>2, <2>3, <2>4, <2>5 DEF Turns, OneTurn, Falls
<1>11. ASSUME done' # done PROVE full'[Len(full')] - temp'[1] > Margin
  <2>1. full' # <<>>
    BY <1>1, <1>3, <1>11, ConcatEmptySeq
  <2>2. temp'[1] = pts[k]
    BY <1>2, <1>3, <1>4
  <2>3. full'[Len(full')] = Before(pts, k)
    <3>1. CASE k = 1
      <4>1. full'[Len(full')] = temp[Len(temp)] /\ temp # <<>>
        BY <1>1, <1>6, <2>1, <3>1
      <4> QED
        BY <3>1, <4>1 DEF Before, IInv, Turns
    <3>2. CASE k # 1
      <4>1. k \in Int /\ k >= 2 /\ Len(temp) \in Nat
        BY ONLY <1>1, <1>2, <3>2, k \in 1 .. PointsPerFrame
      <4>2. Len(temp) + (k - 1) \in 1 .. Len(temp) + (k - 1) /\ k - 1 \in 1 .. k - 1
        BY ONLY <4>1
      <4>3. /\ ~(Len(temp) + (k - 1) <= Len(temp))
            /\ (Len(temp) + (k - 1)) - Len(temp) = k - 1
        BY ONLY <4>1
      <4>4. full'[Len(temp) + (k - 1)] = front[k - 1]
        BY ONLY <1>6, <4>2, <4>3
      <4> QED
        BY ONLY <1>4, <1>6, <3>2, <4>2, <4>4 DEF Before
    <3> QED
      BY <3>1, <3>2
  <2> QED
    BY <1>7, <2>2, <2>3
<1> QED
  BY <1>8, <1>9, <1>10, <1>11 DEF IInv

\* A frame that finds no room keeps it.
LEMMA OverflowStep ==
  ASSUME IInv, Overflow, frames' \in 0 .. MaxFrames
  PROVE  IInv'
<1>1. \A S : <<>> \in Seq(S) /\ Len(<<>>) = 0
  BY EmptySeq
<1>2. TypeOK'
  <2>1. ready' \in BOOLEAN
    BY Zenon DEF Overflow, IInv, TypeOK
  <2> QED
    BY <1>1, <2>1, CircleAssumption DEF Overflow, IInv, TypeOK
<1>3. HistoryOK' /\ PointsConserved'
  BY <1>1, ConcatEmptySeq DEF Overflow, IInv, HistoryOK, PointsConserved
<1>4. Turns'
  <2>1. full' = full /\ first' = first /\ (ready' <=> ready) /\ temp' = <<>>
    BY Zenon DEF Overflow
  <2> QED
    BY <1>1, <2>1 DEF IInv, Turns, OneTurn, Falls
<1> QED
  BY <1>2, <1>3, <1>4 DEF IInv

\* One step of the specification, and where circles are cut.
LEMMA Inductive ==
  IInv /\ [Next]_vars => IInv' /\ (done' # done => full'[Len(full')] - temp'[1] > Margin)
<1> SUFFICES ASSUME IInv, [Next]_vars
             PROVE  IInv' /\ (done' # done => full'[Len(full')] - temp'[1] > Margin)
  OBVIOUS
<1>1. ASSUME NEW start \in Starts, NEW span \in Spans, DecodeFrame(start, span)
      PROVE  IInv' /\ (done' # done => full'[Len(full')] - temp'[1] > Margin)
  <2> DEFINE pts == FramePoints(start, (start + span) % Circle)
  <2>1. IsFrame(pts)
    BY FrameShape
  <2>2. frames' \in 0 .. MaxFrames
    BY <1>1, CircleAssumption DEF DecodeFrame, IInv, TypeOK
  <2>3. SameCircle(pts) \/ CloseCircle(pts) \/ Overflow
    BY <1>1 DEF DecodeFrame
  <2> HIDE DEF pts
  <2>4. CASE SameCircle(pts)
    BY <2>1, <2>2, <2>4, SameCircleStep DEF SameCircle
  <2>5. CASE CloseCircle(pts)
    BY <2>1, <2>2, <2>5, CloseCircleStep
  <2>6. CASE Overflow
    BY <2>2, <2>6, OverflowStep DEF Overflow
  <2> QED
    BY <2>3, <2>4, <2>5, <2>6
<1>2. CASE Taken
  <2>1. ready' \in BOOLEAN /\ ~ready'
    BY Zenon, <1>2 DEF Taken
  <2> QED
    BY <1>2, <2>1
       DEF Taken, IInv, TypeOK, HistoryOK, PointsConserved, Turns, OneTurn, Falls
<1>3. CASE UNCHANGED vars
  <2>1. ready' <=> ready
    BY Zenon, <1>3 DEF vars
  <2>2. ready' \in BOOLEAN
    BY Zenon, <1>3 DEF vars, IInv, TypeOK
  <2> QED
    BY <1>3, <2>1, <2>2
       DEF vars, IInv, TypeOK, HistoryOK, PointsConserved, Turns, OneTurn, Falls
<1> QED
  BY <1>1, <1>2, <1>3 DEF Next

\* The invariant holds in every reachable state.
LEMMA Invariance == Spec => []IInv
BY Initially, Inductive, PTL DEF Spec

-----------------------------------------------------------------------------
\* Types; and temp_data and full_scan_data_ never fill their arrays, whatever
\* the device sends.
THEOREM TypeCorrect == Spec => []TypeOK
<1>1. IInv => TypeOK
  BY DEF IInv
<1> QED
  BY Invariance, <1>1, PTL

\* Every point of uart_data_handle that no overflow discards is in exactly one
\* circle or in temp_data, in the order received.
THEOREM Conserved == Spec => []PointsConserved
<1>1. IInv => PointsConserved
  BY DEF IInv
<1> QED
  BY Invariance, <1>1, PTL

\* An announced circle with points is one turn of the device, whatever frames
\* are lost and wherever they wrap.
THEOREM OneTurnAnnounced == Spec => []AnnouncedCircleIsOneTurn
<1>1. IInv => AnnouncedCircleIsOneTurn
  <2> SUFFICES ASSUME IInv, ready, full # <<>>
               PROVE  /\ full[1] <= LateStart
                      /\ \A k \in 1 .. Len(full) - 1 : full[k] - full[k + 1] <= Margin
    BY DEF AnnouncedCircleIsOneTurn
  <2>1. full[1] = first /\ first <= LateStart /\ OneTurn(full)
    BY DEF IInv, Turns
  <2>2. full \in Seq(Angles) /\ first \in Int /\ Len(full) \in Nat
    BY CircleAssumption DEF IInv, TypeOK, Angles
  <2>3. \A k \in 2 .. Len(full) : ~Falls(full, k)
    BY <2>1, <2>2, CircleAssumption DEF OneTurn
  <2> SUFFICES ASSUME NEW k \in 1 .. Len(full) - 1
               PROVE  full[k] - full[k + 1] <= Margin
    BY <2>1
  <2>4. ~Falls(full, k + 1) /\ (k + 1) - 1 = k
    BY <2>2, <2>3
  <2>5. full[k] \in Int /\ full[k + 1] \in Int
    BY <2>2, CircleAssumption DEF Angles
  <2> QED
    BY <2>4, <2>5, CircleAssumption DEF Falls
<1> QED
  BY Invariance, <1>1, PTL

\* A circle with points ends where the angle falls: the next one starts more
\* than Margin below.
THEOREM CutAtWraps == Spec => CirclesEndAtWraps
<1>1. IInv /\ [Next]_vars => [done' # done => full'[Len(full')] - temp'[1] > Margin]_vars
  BY Inductive
<1> QED
  BY Invariance, <1>1, PTL DEF Spec, CirclesEndAtWraps
=============================================================================
