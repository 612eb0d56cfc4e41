-------------------------- MODULE LidarDriverProofs --------------------------
(***************************************************************************)
(* Theorems about LidarDriver, for every MaxFrame: type correctness, the   *)
(* pairing of session and receive thread, no scan after Disconnect, and    *)
(* the wholeness of an announced circle.  IInv is the inductive invariant; *)
(* it says at each point of Connect and Disconnect which of port, flag and *)
(* thread are up, and at each point of the write of a circle what the      *)
(* buffer and the flag hold.                                               *)
(***************************************************************************)
EXTENDS LidarDriver, TLAPS

\* Where the application is when neither Connect nor Disconnect is under way.
Calm == {"idle", "waiting", "count", "flag", "copyHead", "copyTail", "taken",
         "clearFull", "clearOne"}

\* Session and thread: SessionOwnsReader, and how the calls in between keep it.
Session ==
  /\ upc \in Calm =>
       /\ (connected <=> portOpen)
       /\ (connected <=> rpc # "none")
       /\ connected => ~exitFlag /\ rpc # "done"
  /\ upc \in {"closing", "joining"} => exitFlag /\ (connected <=> rpc # "none")
  /\ upc \in {"joining", "resetting", "opening"} => ~portOpen
  /\ upc \in {"resetting", "opening", "spawning"} => rpc = "none"
  /\ upc = "opening" => ~connected
  /\ upc = "spawning" => connected /\ portOpen /\ ~exitFlag

\* Nothing is announced to an application that is not connected.
Quiet ==
  upc \in Calm \cup {"opening"} /\ ~connected =>
    \A c \in Channels : ready[c] => buf[c] = NoScan

\* The write of a circle: flag down from the wrap to the announcement.
CircleWrite ==
  /\ rch = "full" /\ rpc \in {"head", "tail", "announce"} => ~ready["full"]
  /\ rch = "full" /\ rpc = "tail" => item = 0 \/ buf["full"]["head"] = item
  /\ rch = "full" /\ rpc = "announce" /\ buf["full"]["tail"] # 0 =>
       buf["full"]["head"] = buf["full"]["tail"]
  /\ ready["full"] /\ buf["full"]["tail"] # 0 =>
       buf["full"]["head"] = buf["full"]["tail"]

\* Points are copied before they are counted.
Backed ==
  /\ \A c \in Channels : buf[c]["tail"] # 0 => buf[c]["head"] # 0
  /\ rpc = "tail" /\ item # 0 => buf[rch]["head"] # 0

IInv == Types /\ Backed /\ Session /\ Quiet /\ CircleWrite

-----------------------------------------------------------------------------
\* No step of either thread leaves the types.
LEMMA TypeStep == Types /\ [Next]_vars => Types'
<1> SUFFICES ASSUME Types, [Next]_vars PROVE Types'
  OBVIOUS
<1> USE MaxFrameAssumption DEF Types, UserPC, RxPC, Channels, Parts, Scans
<1>1. ASSUME NEW b \in BOOLEAN, BeginDisconnect(b) PROVE Types'
  BY <1>1 DEF BeginDisconnect, shared, rx
<1>2. CASE BeginConnect
  BY <1>2 DEF BeginConnect, shared, rx
<1>3. ASSUME NEW c \in Channels, BeginGrab(c) PROVE Types'
  BY <1>3 DEF BeginGrab, shared, rx
<1>4. ASSUME NEW c \in Channels, BeginGrabBlocking(c) PROVE Types'
  BY <1>4 DEF BeginGrabBlocking, shared, rx
<1>5. CASE ClosePort
  BY <1>5, ZenonT(40) DEF ClosePort, shared, rx
<1>6. CASE JoinReader
  BY <1>6 DEF JoinReader, shared, rx
<1>7. CASE EndDisconnect
  BY <1>7, ZenonT(40) DEF EndDisconnect, shared, rx
<1>8. CASE OpenFails
  BY <1>8 DEF OpenFails, shared, rx
<1>9. CASE OpenPort
  BY <1>9 DEF OpenPort, shared, rx
<1>10. CASE SpawnReader
  BY <1>10 DEF SpawnReader, shared, rx
<1>11. CASE WaitTimesOut
  BY <1>11 DEF WaitTimesOut, shared, rx
<1>12. CASE WaitWakesSpuriously
  BY <1>12 DEF WaitWakesSpuriously, shared, rx
<1>13. CASE TestCount
  BY <1>13 DEF TestCount, shared, rx
<1>14. CASE TestFlag
  BY <1>14 DEF TestFlag, shared, rx
<1>15. CASE CopyHead
  BY <1>15 DEF CopyHead, shared, rx
<1>16. CASE CopyTail
  BY <1>16 DEF CopyTail, shared, rx
<1>17. CASE EndGrab
  BY <1>17 DEF EndGrab, NoScan, shared, rx
<1>18. CASE RxTestExit
  BY <1>18 DEF RxTestExit, shared, user
<1>19. CASE RxWait
  BY <1>19 DEF RxWait, shared, user
<1>20. CASE RxRead
  BY <1>20 DEF RxRead, shared, user
<1>21. CASE RxParseEnds
  BY <1>21 DEF RxParseEnds, shared, user
<1>22. CASE RxFrame
  BY <1>22 DEF RxFrame, shared, user
<1>23. CASE RxWriteHead
  BY <1>23 DEF RxWriteHead, shared, user
<1>24. CASE RxWriteTail
  BY <1>24 DEF RxWriteTail, shared, user
<1>25. CASE RxAnnounce
  BY <1>25 DEF RxAnnounce, shared, user
<1>26. CASE RxNotFull
  BY <1>26 DEF RxNotFull, shared, user
<1>27. CASE RxSignal
  BY <1>27 DEF RxSignal, shared, user
<1>28. CASE RxSameCircle
  BY <1>28 DEF RxSameCircle, shared, user
<1>29. CASE RxCircle
  BY <1>29 DEF RxCircle, shared, user
<1>30. CASE UNCHANGED vars
  BY <1>30 DEF vars, shared, user, rx
<1>31. CASE BeginClear
  BY <1>31 DEF BeginClear, shared, rx
<1>32. CASE ClearFullCount
  BY <1>32 DEF ClearFullCount, rx
<1>33. CASE ClearOneCount
  BY <1>33 DEF ClearOneCount, rx
<1>34. QED
  BY <1>1, <1>2, <1>3, <1>4, <1>5, <1>6, <1>7, <1>8, <1>9, <1>10, <1>11,
     <1>12, <1>13, <1>14, <1>15, <1>16, <1>17, <1>18, <1>19, <1>20, <1>21,
     <1>22, <1>23, <1>24, <1>25, <1>26, <1>27, <1>28, <1>29, <1>30,
     <1>31, <1>32, <1>33
     DEF Next, Call, UserStep, RxStep

\* Connect and Disconnect keep port, flags and thread in step.
LEMMA SessionStep == Types /\ Session /\ [Next]_vars => Session'
<1> SUFFICES ASSUME Types, Session, [Next]_vars PROVE Session'
  OBVIOUS
<1> USE DEF Types, Session, Calm, UserPC, RxPC
<1>1. ASSUME NEW b \in BOOLEAN, BeginDisconnect(b) PROVE Session'
  BY <1>1 DEF BeginDisconnect, shared, rx
<1>2. CASE BeginConnect
  BY <1>2 DEF BeginConnect, shared, rx
<1>3. ASSUME NEW c \in Channels, BeginGrab(c) \/ BeginGrabBlocking(c)
      PROVE  Session'
  BY <1>3 DEF BeginGrab, BeginGrabBlocking, shared, rx
<1>4. CASE ClosePort
  BY <1>4 DEF ClosePort, shared, rx
<1>5. CASE JoinReader
  BY <1>5 DEF JoinReader, shared, rx
<1>6. CASE EndDisconnect
  BY <1>6 DEF EndDisconnect, shared, rx
<1>7. CASE OpenPort
  BY <1>7 DEF OpenPort, shared, rx
<1>8. CASE SpawnReader
  BY <1>8 DEF SpawnReader, shared, rx
<1>9. CASE OpenFails \/ WaitTimesOut \/ WaitWakesSpuriously
  BY <1>9 DEF OpenFails, WaitTimesOut, WaitWakesSpuriously, shared, rx
<1>10. CASE TestCount \/ TestFlag \/ CopyHead \/ CopyTail
  BY <1>10 DEF TestCount, TestFlag, CopyHead, CopyTail, shared, rx
<1>11. CASE EndGrab
  BY <1>11 DEF EndGrab, shared, rx
<1>12. CASE RxTestExit \/ RxWait \/ RxRead \/ RxParseEnds
  BY <1>12 DEF RxTestExit, RxWait, RxRead, RxParseEnds, shared, user
<1>13. CASE RxFrame
  BY <1>13 DEF RxFrame, shared, user
<1>14. CASE RxWriteHead
  BY <1>14 DEF RxWriteHead, shared, user
<1>15. CASE RxWriteTail
  BY <1>15 DEF RxWriteTail, shared, user
<1>16. CASE RxAnnounce
  BY <1>16 DEF RxAnnounce, shared, user
<1>17. CASE RxSignal
  BY <1>17 DEF RxSignal, shared, user
<1>18. CASE RxCircle
  BY <1>18 DEF RxCircle, shared, user
<1>19. CASE RxNotFull \/ RxSameCircle
  BY <1>19 DEF RxNotFull, RxSameCircle, shared, user
<1>20. CASE UNCHANGED vars
  BY <1>20 DEF vars, shared, user, rx
<1>21. CASE BeginClear
  BY <1>21 DEF BeginClear, shared, rx
<1>22. CASE ClearFullCount
  BY <1>22 DEF ClearFullCount, NoScan, Parts, rx
<1>23. CASE ClearOneCount
  BY <1>23 DEF ClearOneCount, NoScan, Parts, rx
<1>24. QED
  BY <1>1, <1>2, <1>3, <1>4, <1>5, <1>6, <1>7, <1>8, <1>9, <1>10, <1>11,
     <1>12, <1>13, <1>14, <1>15, <1>16, <1>17, <1>18, <1>19, <1>20,
     <1>21, <1>22, <1>23
     DEF Next, Call, UserStep, RxStep

\* Only EndDisconnect makes a driver unconnected, and it lowers both flags;
\* without a thread nothing raises them.
LEMMA QuietStep == Types /\ Session /\ Quiet /\ [Next]_vars => Quiet'
<1> SUFFICES ASSUME Types, Session, Quiet, [Next]_vars PROVE Quiet'
  OBVIOUS
<1> USE DEF Types, Session, Quiet, Calm, UserPC, RxPC, Channels
<1>1. ASSUME NEW b \in BOOLEAN, BeginDisconnect(b) PROVE Quiet'
  BY <1>1 DEF BeginDisconnect, shared, rx
<1>2. CASE BeginConnect
  BY <1>2 DEF BeginConnect, shared, rx
<1>3. ASSUME NEW c \in Channels, BeginGrab(c) \/ BeginGrabBlocking(c)
      PROVE  Quiet'
  BY <1>3 DEF BeginGrab, BeginGrabBlocking, shared, rx
<1>4. CASE ClosePort
  BY <1>4 DEF ClosePort, shared, rx
<1>5. CASE JoinReader
  BY <1>5 DEF JoinReader, shared, rx
<1>6. CASE EndDisconnect
  BY <1>6 DEF EndDisconnect, shared, rx
<1>7. CASE OpenPort
  BY <1>7 DEF OpenPort, shared, rx
<1>8. CASE SpawnReader
  BY <1>8 DEF SpawnReader, shared, rx
<1>9. CASE OpenFails \/ WaitTimesOut \/ WaitWakesSpuriously
  BY <1>9 DEF OpenFails, WaitTimesOut, WaitWakesSpuriously, shared, rx
<1>10. CASE TestCount \/ TestFlag \/ CopyHead \/ CopyTail
  BY <1>10 DEF TestCount, TestFlag, CopyHead, CopyTail, shared, rx
<1>11. CASE EndGrab
  BY <1>11 DEF EndGrab, shared, rx
<1>12. CASE RxTestExit \/ RxWait \/ RxRead \/ RxParseEnds
  BY <1>12 DEF RxTestExit, RxWait, RxRead, RxParseEnds, shared, user
<1>13. CASE RxFrame
  BY <1>13 DEF RxFrame, shared, user
<1>14. CASE RxWriteHead
  BY <1>14 DEF RxWriteHead, shared, user
<1>15. CASE RxWriteTail
  BY <1>15 DEF RxWriteTail, shared, user
<1>16. CASE RxAnnounce
  BY <1>16 DEF RxAnnounce, shared, user
<1>17. CASE RxSignal
  BY <1>17 DEF RxSignal, shared, user
<1>18. CASE RxCircle
  BY <1>18 DEF RxCircle, shared, user
<1>19. CASE RxNotFull \/ RxSameCircle
  BY <1>19 DEF RxNotFull, RxSameCircle, shared, user
<1>20. CASE UNCHANGED vars
  BY <1>20 DEF vars, shared, user, rx
<1>21. CASE BeginClear
  BY <1>21 DEF BeginClear, shared, rx
<1>22. CASE ClearFullCount
  BY <1>22 DEF ClearFullCount, NoScan, Parts, rx
<1>23. CASE ClearOneCount
  BY <1>23 DEF ClearOneCount, NoScan, Parts, rx
<1>24. QED
  BY <1>1, <1>2, <1>3, <1>4, <1>5, <1>6, <1>7, <1>8, <1>9, <1>10, <1>11,
     <1>12, <1>13, <1>14, <1>15, <1>16, <1>17, <1>18, <1>19, <1>20,
     <1>21, <1>22, <1>23
     DEF Next, Call, UserStep, RxStep

\* The application only lowers flags; the thread raises the flag of the circle
\* after both parts are written.
LEMMA CircleStep == Types /\ CircleWrite /\ [Next]_vars => CircleWrite'
<1> SUFFICES ASSUME Types, CircleWrite, [Next]_vars PROVE CircleWrite'
  OBVIOUS
<1> USE DEF Types, CircleWrite, RxPC, Channels, Parts
<1>1. ASSUME NEW b \in BOOLEAN, BeginDisconnect(b) PROVE CircleWrite'
  BY <1>1 DEF BeginDisconnect, shared, rx
<1>2. CASE BeginConnect
  BY <1>2 DEF BeginConnect, shared, rx
<1>3. ASSUME NEW c \in Channels, BeginGrab(c) \/ BeginGrabBlocking(c)
      PROVE  CircleWrite'
  BY <1>3 DEF BeginGrab, BeginGrabBlocking, shared, rx
<1>4. CASE ClosePort
  BY <1>4 DEF ClosePort, shared, rx
<1>5. CASE JoinReader
  BY <1>5 DEF JoinReader, shared, rx
<1>6. CASE EndDisconnect
  BY <1>6 DEF EndDisconnect, shared, rx
<1>7. CASE OpenPort
  BY <1>7 DEF OpenPort, shared, rx
<1>8. CASE SpawnReader
  BY <1>8 DEF SpawnReader, shared, rx
<1>9. CASE OpenFails \/ WaitTimesOut \/ WaitWakesSpuriously
  BY <1>9 DEF OpenFails, WaitTimesOut, WaitWakesSpuriously, shared, rx
<1>10. CASE TestCount \/ TestFlag \/ CopyHead \/ CopyTail
  BY <1>10 DEF TestCount, TestFlag, CopyHead, CopyTail, shared, rx
<1>11. CASE EndGrab
  BY <1>11 DEF EndGrab, shared, rx
<1>12. CASE RxTestExit \/ RxWait \/ RxRead \/ RxParseEnds
  BY <1>12 DEF RxTestExit, RxWait, RxRead, RxParseEnds, shared, user
<1>13. CASE RxFrame
  BY <1>13 DEF RxFrame, shared, user
<1>14. CASE RxWriteHead
  BY <1>14 DEF RxWriteHead, shared, user
<1>15. CASE RxWriteTail
  BY <1>15 DEF RxWriteTail, shared, user
<1>16. CASE RxAnnounce
  BY <1>16 DEF RxAnnounce, shared, user
<1>17. CASE RxSignal
  BY <1>17 DEF RxSignal, shared, user
<1>18. CASE RxCircle
  BY <1>18 DEF RxCircle, shared, user
<1>19. CASE RxNotFull \/ RxSameCircle
  BY <1>19 DEF RxNotFull, RxSameCircle, shared, user
<1>20. CASE UNCHANGED vars
  BY <1>20 DEF vars, shared, user, rx
<1>21. CASE BeginClear
  BY <1>21 DEF BeginClear, shared, rx
<1>22. CASE ClearFullCount
  BY <1>22 DEF ClearFullCount, NoScan, Parts, rx
<1>23. CASE ClearOneCount
  BY <1>23 DEF ClearOneCount, NoScan, Parts, rx
<1>24. QED
  BY <1>1, <1>2, <1>3, <1>4, <1>5, <1>6, <1>7, <1>8, <1>9, <1>10, <1>11,
     <1>12, <1>13, <1>14, <1>15, <1>16, <1>17, <1>18, <1>19, <1>20,
     <1>21, <1>22, <1>23
     DEF Next, Call, UserStep, RxStep

\* No step counts points that were not copied.
LEMMA BackedStep == Types /\ Backed /\ [Next]_vars => Backed'
<1> SUFFICES ASSUME Types, Backed, [Next]_vars PROVE Backed'
  OBVIOUS
<1> USE DEF Types, Backed, RxPC, Channels, Parts
<1>1. ASSUME NEW b \in BOOLEAN, BeginDisconnect(b) PROVE Backed'
  BY <1>1 DEF BeginDisconnect, shared, rx
<1>2. CASE BeginConnect
  BY <1>2 DEF BeginConnect, shared, rx
<1>3. ASSUME NEW c \in Channels, BeginGrab(c) \/ BeginGrabBlocking(c)
      PROVE  Backed'
  BY <1>3 DEF BeginGrab, BeginGrabBlocking, shared, rx
<1>4. CASE ClosePort
  BY <1>4 DEF ClosePort, shared, rx
<1>5. CASE JoinReader
  BY <1>5 DEF JoinReader, shared, rx
<1>6. CASE EndDisconnect
  BY <1>6 DEF EndDisconnect, shared, rx
<1>7. CASE OpenPort
  BY <1>7 DEF OpenPort, shared, rx
<1>8. CASE SpawnReader
  BY <1>8 DEF SpawnReader, shared, rx
<1>9. CASE OpenFails \/ WaitTimesOut \/ WaitWakesSpuriously
  BY <1>9 DEF OpenFails, WaitTimesOut, WaitWakesSpuriously, shared, rx
<1>10. CASE TestCount \/ TestFlag \/ CopyHead \/ CopyTail
  BY <1>10 DEF TestCount, TestFlag, CopyHead, CopyTail, shared, rx
<1>11. CASE EndGrab
  BY <1>11 DEF EndGrab, shared, rx
<1>12. CASE RxTestExit \/ RxWait \/ RxRead \/ RxParseEnds
  BY <1>12 DEF RxTestExit, RxWait, RxRead, RxParseEnds, shared, user
<1>13. CASE RxFrame
  BY <1>13 DEF RxFrame, shared, user
<1>14. CASE RxWriteHead
  BY <1>14 DEF RxWriteHead, shared, user
<1>15. CASE RxWriteTail
  BY <1>15 DEF RxWriteTail, shared, user
<1>16. CASE RxAnnounce
  BY <1>16 DEF RxAnnounce, shared, user
<1>17. CASE RxSignal
  BY <1>17 DEF RxSignal, shared, user
<1>18. CASE RxCircle
  BY <1>18 DEF RxCircle, shared, user
<1>19. CASE RxNotFull \/ RxSameCircle
  BY <1>19 DEF RxNotFull, RxSameCircle, shared, user
<1>20. CASE UNCHANGED vars
  BY <1>20 DEF vars, shared, user, rx
<1>21. CASE BeginClear
  BY <1>21 DEF BeginClear, shared, rx
<1>22. CASE ClearFullCount
  BY <1>22 DEF ClearFullCount, Parts, rx
<1>23. CASE ClearOneCount
  BY <1>23 DEF ClearOneCount, Parts, rx
<1>24. QED
  BY <1>1, <1>2, <1>3, <1>4, <1>5, <1>6, <1>7, <1>8, <1>9, <1>10, <1>11,
     <1>12, <1>13, <1>14, <1>15, <1>16, <1>17, <1>18, <1>19, <1>20,
     <1>21, <1>22, <1>23
     DEF Next, Call, UserStep, RxStep

-----------------------------------------------------------------------------
\* A new driver satisfies the inductive invariant, whatever value the
\* constructor left in the flags.
LEMMA Initially == Init => IInv
<1> SUFFICES ASSUME Init PROVE IInv
  OBVIOUS
<1> USE MaxFrameAssumption DEF Init, NoScan
<1>1. Types
  <2>1. connected \in BOOLEAN /\ portOpen \in BOOLEAN /\ reopen \in BOOLEAN
    BY Zenon
  <2>2. /\ buf \in [Channels -> [Parts -> Scans]]
        /\ copy \in [Parts -> Scans] /\ item \in Scans /\ frame \in Scans
    BY DEF Channels, Parts, Scans
  <2>3. upc \in UserPC /\ uch \in Channels /\ rpc \in RxPC /\ rch \in Channels
    BY DEF UserPC, RxPC, Channels
  <2>4. QED
    BY <2>1, <2>2, <2>3 DEF Types
<1>2. Session
  BY DEF Session, Calm
<1>3. Quiet
  BY DEF Quiet
<1>4. CircleWrite
  BY DEF CircleWrite, Channels, Parts
<1>5. Backed
  BY DEF Backed, Channels, Parts
<1>6. QED
  BY <1>1, <1>2, <1>3, <1>4, <1>5 DEF IInv

\* The five parts together are preserved by every step.
LEMMA Inductive == IInv /\ [Next]_vars => IInv'
  BY TypeStep, BackedStep, SessionStep, QuietStep, CircleStep DEF IInv

\* The inductive invariant holds in every reachable state.
LEMMA Invariance == Spec => []IInv
  BY Initially, Inductive, PTL DEF Spec

\* Every variable keeps its type, and a count that is not 0 counts points.
THEOREM TypeCorrect == Spec => []TypeOK
<1>1. IInv => TypeOK
  BY DEF IInv, Backed, TypeOK
<1>2. QED
  BY <1>1, Invariance, PTL

\* Between calls, connection, open port and running thread go together.
THEOREM SessionSafety == Spec => []SessionOwnsReader
<1>1. IInv => SessionOwnsReader
  BY DEF IInv, Session, SessionOwnsReader, Calm
<1>2. QED
  BY <1>1, Invariance, PTL

\* After Disconnect, and until Connect succeeds, no Grab returns a scan.
THEOREM QuietAfterDisconnect == Spec => []NoScanAfterDisconnect
<1>1. IInv => NoScanAfterDisconnect
  BY DEF IInv, Quiet, NoScanAfterDisconnect, Calm
<1>2. QED
  BY <1>1, Invariance, PTL

\* What full_scan_ready_ announces is one circle, completely written.
THEOREM AnnouncedWhole == Spec => []AnnouncedCircleIsWhole
<1>1. IInv => AnnouncedCircleIsWhole
  BY DEF IInv, CircleWrite, AnnouncedCircleIsWhole
<1>2. QED
  BY <1>1, Invariance, PTL

-----------------------------------------------------------------------------
\* Every step of the two threads is a step of the abstract session, or none.
LEMMA StepRefined ==
  Types /\ Session /\ [Next]_vars => [Abstract!Next]_(Abstract!vars)
<1> DEFINE Refined == [Abstract!Next]_(Abstract!vars)
<1> SUFFICES ASSUME Types, Session, [Next]_vars PROVE Refined
  OBVIOUS
<1> USE DEF Types, UserPC, RxPC, Channels, Granted, Offered, Abstract!vars
<1>1. ASSUME NEW b \in BOOLEAN, BeginDisconnect(b) PROVE Refined
  BY <1>1 DEF BeginDisconnect, shared, rx
<1>2. ASSUME NEW c \in Channels, BeginGrab(c) \/ BeginGrabBlocking(c)
      PROVE  Refined
  BY <1>2 DEF BeginGrab, BeginGrabBlocking, shared, rx
<1>3. CASE BeginConnect \/ BeginClear \/ OpenFails
  BY <1>3 DEF BeginConnect, BeginClear, OpenFails, shared, rx
<1>4. CASE ClosePort \/ JoinReader \/ SpawnReader
  BY <1>4 DEF ClosePort, JoinReader, SpawnReader, shared, rx
<1>5. CASE EndDisconnect
  <2>1. Abstract!Close
    BY <1>5 DEF EndDisconnect, Abstract!Close, rx
  <2>2. QED
    BY <2>1 DEF Abstract!Next
<1>6. CASE OpenPort
  <2>1. Abstract!Open
    BY <1>6 DEF OpenPort, Abstract!Open, Session, rx
  <2>2. QED
    BY <2>1 DEF Abstract!Next
<1>7. CASE WaitTimesOut \/ WaitWakesSpuriously \/ TestCount
  BY <1>7 DEF WaitTimesOut, WaitWakesSpuriously, TestCount, shared, rx
<1>8. CASE TestFlag
  <2>1. CASE ready[uch]
    <3>1. PICK c \in Channels : c = uch
      OBVIOUS
    <3>2. Abstract!Take(c)
      BY <1>8, <2>1, <3>1 DEF TestFlag, Abstract!Take, shared, rx
    <3>3. QED
      BY <3>2 DEF Abstract!Next
  <2>2. CASE ~ready[uch]
    BY <1>8, <2>2 DEF TestFlag, shared, rx
  <2>3. QED
    BY <2>1, <2>2
<1>9. CASE CopyHead \/ CopyTail \/ ClearFullCount \/ ClearOneCount
  BY <1>9 DEF CopyHead, CopyTail, ClearFullCount, ClearOneCount, shared, rx
<1>10. CASE EndGrab
  <2>1. Abstract!Return
    BY <1>10 DEF EndGrab, Abstract!Return, rx
  <2>2. QED
    BY <2>1 DEF Abstract!Next
<1>11. CASE RxTestExit \/ RxWait \/ RxRead \/ RxParseEnds \/ RxFrame
  BY <1>11 DEF RxTestExit, RxWait, RxRead, RxParseEnds, RxFrame, shared, user
<1>12. CASE RxWriteHead \/ RxWriteTail \/ RxNotFull \/ RxSameCircle
  BY <1>12 DEF RxWriteHead, RxWriteTail, RxNotFull, RxSameCircle, shared, user
<1>13. CASE RxAnnounce
  <2>1. connected
    BY <1>13 DEF RxAnnounce, Session, Calm
  <2>2. CASE Granted /\ uch = rch
    BY <1>13, <2>2 DEF RxAnnounce, user
  <2>3. CASE ~(Granted /\ uch = rch)
    <3>1. PICK c \in Channels : c = rch
      OBVIOUS
    <3>2. Abstract!Announce(c)
      BY <1>13, <2>1, <2>3, <3>1 DEF RxAnnounce, Abstract!Announce, user
    <3>3. QED
      BY <3>2 DEF Abstract!Next
  <2>4. QED
    BY <2>2, <2>3
<1>14. CASE RxSignal
  BY <1>14 DEF RxSignal, shared
<1>15. CASE RxCircle
  <2>1. connected
    BY <1>15 DEF RxCircle, Session, Calm
  <2>2. Abstract!Withdraw("full")
    BY <1>15, <2>1 DEF RxCircle, Abstract!Withdraw, user
  <2>3. QED
    BY <2>2 DEF Abstract!Next
<1>16. CASE UNCHANGED vars
  BY <1>16 DEF vars, shared, user, rx
<1>17. QED
  BY <1>1, <1>2, <1>3, <1>4, <1>5, <1>6, <1>7, <1>8, <1>9, <1>10, <1>11,
     <1>12, <1>13, <1>14, <1>15, <1>16
     DEF Next, Call, UserStep, RxStep

\* The driver implements the abstract session: announcements only while it is
\* connected, each grabbed at most once, all withdrawn by Disconnect.
THEOREM Refinement == Spec => ImplementsSession
<1>1. Init => Abstract!Init
  BY DEF Init, Abstract!Init, Offered, Granted
<1>2. IInv /\ [Next]_vars => [Abstract!Next]_(Abstract!vars)
  BY StepRefined DEF IInv
<1>3. QED
  BY <1>1, <1>2, Invariance, PTL DEF Spec, ImplementsSession, Abstract!Spec
=============================================================================
