---------------------------- MODULE RunModeProofs ----------------------------
(***************************************************************************)
(* Theorems about RunMode, for every set of requests and speeds and every  *)
(* bound of the polling loops: what the calls' TRUE is worth.              *)
(*                                                                         *)
(* The driver decides on valid_data_, and the proofs rest on when that is  *)
(* out of date (Silence, Frames): only in the loop that waits for the      *)
(* change, and there only until the receive thread has looked at a lidar   *)
(* with nothing more in flight, which a loop of two polls always reaches.  *)
(***************************************************************************)
EXTENDS RunMode, SequenceTheorems, TLAPS

Activating  == {"activate", "sendStart", "awaitData"}
Deactiving  == {"deactive", "sendStop", "awaitSilence"}
Loops       == {"awaitData", "awaitSilence", "confirm"}

\* Which call is at which place, and what its local variables hold there.
Control ==
  /\ upc \in {"idle", "return", "setSpeed", "confirm"} \cup Activating \cup Deactiving
  /\ upc \in Activating => op = "activate" \/ (op = "speed" /\ setFlag)
  /\ upc \in Deactiving => op = "deactive" \/ (op = "speed" /\ setFlag)
  /\ upc = "setSpeed" => op = "speed"
  /\ upc = "confirm" => op = "speed" /\ setFlag
  /\ op = "speed" => target \in {Clamp(s) : s \in Requests}

\* A start or a stop is in flight only in the first poll of the loop that waits
\* for its effect.
Pending ==
  /\ polls > 0 => inFlight = <<>> /\ upc \in Loops
  /\ \A i \in 1 .. Len(inFlight) :
       /\ inFlight[i].kind = "start" => upc = "awaitData"
       /\ inFlight[i].kind = "stop" => upc = "awaitSilence"

\* valid_data_ = 0 of a ranging lidar: Activate waits, and no round of the
\* receive thread has followed the command.
Silence ==
  connected /\ valid = 0 =>
    mode = "standby" \/ (upc = "awaitData" /\ (polls = 0 \/ ~fresh))

\* valid_data_ = 1 of a lidar in standby: the same of Deactive.
Frames ==
  connected /\ looked /\ valid = 1 =>
    mode = "ranging" \/ (upc = "awaitSilence" /\ (polls = 0 \/ ~fresh))

\* The course of a SetRotationSpeed that found the lidar ranging.
Restart ==
  op = "speed" /\ setFlag =>
    /\ upc \in Deactiving => connected \/ valid = 1
    /\ upc \in {"setSpeed", "activate", "sendStart"} =>
         connected /\ valid = 0 /\ mode = "standby"
    /\ upc = "awaitData" => connected
    /\ upc = "confirm" =>
         /\ connected /\ inFlight = <<>>
         /\ fresh /\ valid = 1 => mode = "ranging" /\ rotation = motor
    /\ upc = "return" /\ result => inFlight = <<>>

IInv == /\ TypeOK /\ Control /\ Pending /\ Silence /\ Frames /\ Restart
        /\ DeactiveTruthful /\ SpeedTruthful

-----------------------------------------------------------------------------
\* The commands, and a queue of them that loses its first or gains a last.

\* SetRotationSpeed never sends a speed outside 5 .. 15.
LEMMA ClampFacts == \A s \in Requests : Clamp(s) \in 5 .. 15
BY RunModeAssumption DEF Clamp

\* What a command is.
LEMMA CommandFacts ==
  /\ [kind |-> "start"] \in Commands /\ [kind |-> "stop"] \in Commands
  /\ \A v \in {Clamp(s) : s \in Requests} : [kind |-> "speed", to |-> v] \in Commands
  /\ \A c \in Commands : /\ c.kind \in {"start", "stop", "speed"}
                         /\ c.kind = "speed" => c.to \in 5 .. 15
BY ClampFacts DEF Commands

\* The oldest command is gone.
LEMMA TailFacts ==
  ASSUME inFlight \in Seq(Commands), inFlight # <<>>
  PROVE  /\ Tail(inFlight) \in Seq(Commands) /\ Len(Tail(inFlight)) = Len(inFlight) - 1
         /\ Len(inFlight) \in Nat \ {0}
         /\ Head(inFlight) = inFlight[1] /\ Head(inFlight) \in Commands
         /\ \A i \in 1 .. Len(Tail(inFlight)) :
              i + 1 \in 1 .. Len(inFlight) /\ Tail(inFlight)[i] = inFlight[i + 1]
OBVIOUS

\* A command was written.
LEMMA AppendFacts ==
  ASSUME inFlight \in Seq(Commands), NEW c \in Commands
  PROVE  /\ Append(inFlight, c) \in Seq(Commands)
         /\ Len(Append(inFlight, c)) = Len(inFlight) + 1 /\ Len(inFlight) \in Nat
         /\ \A i \in 1 .. Len(inFlight) + 1 :
              /\ i = Len(inFlight) + 1 => Append(inFlight, c)[i] = c
              /\ i # Len(inFlight) + 1 => /\ i \in 1 .. Len(inFlight)
                                          /\ Append(inFlight, c)[i] = inFlight[i]
OBVIOUS

-----------------------------------------------------------------------------
\* The invariant holds at the start: the port is closed.
LEMMA Initially == Init => IInv
<1> SUFFICES ASSUME Init PROVE IInv
  OBVIOUS
<1> USE RunModeAssumption DEF Init
<1>1. /\ hasPort \in BOOLEAN /\ connected \in BOOLEAN /\ looked \in BOOLEAN
      /\ fresh \in BOOLEAN /\ result \in BOOLEAN /\ setFlag \in BOOLEAN /\ ~connected
  BY Zenon
<1>2. TypeOK
  BY <1>1 DEF TypeOK
<1>3. ~connected /\ upc = "idle" /\ op = "none" /\ inFlight = <<>> /\ polls = 0
  BY <1>1
<1> QED
  BY ONLY <1>2, <1>3 DEF IInv, Control, Pending, Silence, Frames, Restart,
     DeactiveTruthful, SpeedTruthful, Returning, Activating, Deactiving, Loops

\* What is written joins the queue or is lost.
LEMMA Written ==
  ASSUME inFlight \in Seq(Commands), Len(inFlight) <= MaxInFlight, NEW c \in Commands,
         \/ inFlight' = Append(inFlight, c) /\ Len(inFlight) < MaxInFlight
         \/ inFlight' = inFlight
  PROVE  /\ inFlight' \in Seq(Commands) /\ Len(inFlight') <= MaxInFlight
         /\ \A i \in 1 .. Len(inFlight') :
              inFlight'[i] = c \/ (i \in 1 .. Len(inFlight) /\ inFlight'[i] = inFlight[i])
BY AppendFacts, RunModeAssumption, SMTT(30)

\* Every step keeps the invariant.
LEMMA Inductive == IInv /\ [Next]_vars => IInv'
<1> SUFFICES ASSUME IInv, [Next]_vars PROVE IInv'
  OBVIOUS
<1> USE RunModeAssumption
    DEF IInv, port, reader, lidar, call, TypeOK, Control, Pending, Silence, Frames, Restart,
        DeactiveTruthful, SpeedTruthful, Returning, Activating, Deactiving, Loops
<1>1. ASSUME LidarObeys PROVE IInv'
  <2> DEFINE kind == Head(inFlight).kind
  <2>1. /\ Head(inFlight) = inFlight[1] /\ 1 \in 1 .. Len(inFlight)
        /\ Head(inFlight) \in Commands /\ inFlight # <<>>
    BY <1>1, TailFacts DEF LidarObeys
  <2>2. /\ kind = "start" => upc = "awaitData"
        /\ kind = "stop" => upc = "awaitSilence"
        /\ kind \in {"start", "stop", "speed"} /\ polls = 0
        /\ kind = "speed" => Head(inFlight).to \in 5 .. 15
    BY <2>1, CommandFacts, SMTT(30)
  <2>3. /\ mode' = mode \/ (upc = "awaitData" /\ mode' = "ranging")
                       \/ (upc = "awaitSilence" /\ mode' = "standby")
        /\ motor' \in Rotations \cup 5 .. 15 /\ polls = 0
    BY <1>1, <2>2 DEF LidarObeys
  <2>4. TypeOK'
    BY <1>1, <2>3, TailFacts DEF LidarObeys
  <2>5. Control' /\ Pending'
    BY <1>1, TailFacts DEF LidarObeys
  <2>6. UNCHANGED <<port, reader, fresh, upc, call, polls, result>>
    BY <1>1 DEF LidarObeys
  <2>7. Silence' /\ Frames' /\ DeactiveTruthful'
    BY <2>3, <2>6
  <2>8. Restart' /\ SpeedTruthful'
    BY <2>1, <2>3, <2>6
  <2> QED
    BY <2>4, <2>5, <2>7, <2>8
<1>2. ASSUME Connect PROVE IInv'
  <2>1. /\ looked' <=> (connected' /\ mode = "ranging")
        /\ (looked' => valid' = 1) /\ (~looked' => valid' \in {valid, 0})
        /\ mode' = mode
    BY <1>2 DEF Connect, Joined
  <2>2. TypeOK'
    BY <1>2 DEF Connect, Joined
  <2>3. Control' /\ Pending'
    BY <1>2 DEF Connect, Joined
  <2>4. Silence'
    BY <2>1, <2>2, <2>3
  <2>5. Frames' /\ DeactiveTruthful'
    BY <1>2, <2>1 DEF Connect, Joined
  <2>6. Restart' /\ SpeedTruthful'
    BY <1>2 DEF Connect, Joined
  <2> QED
    BY <2>2, <2>3, <2>4, <2>5, <2>6
<1>3. ASSUME LidarMisses PROVE IInv'
  <2>1. TypeOK'
    <3>1. /\ hasPort' \in BOOLEAN /\ connected' \in BOOLEAN /\ looked' \in BOOLEAN
          /\ fresh' \in BOOLEAN /\ result' \in BOOLEAN /\ setFlag' \in BOOLEAN
          /\ connected' => hasPort'
      BY <1>3 DEF LidarMisses
    <3> QED
      BY <1>3, <3>1, TailFacts DEF LidarMisses
  <2>2. Control' /\ Pending'
    BY <1>3, TailFacts DEF LidarMisses
  <2>3. Silence' /\ Frames' /\ DeactiveTruthful'
    BY <1>3, TailFacts DEF LidarMisses
  <2>4. Restart' /\ SpeedTruthful'
    BY <1>3, TailFacts DEF LidarMisses
  <2> QED
    BY <2>1, <2>2, <2>3, <2>4
<1>4. ASSUME Look PROVE IInv'
  <2>1. TypeOK'
    <3>1. /\ hasPort' \in BOOLEAN /\ connected' \in BOOLEAN /\ looked' \in BOOLEAN
          /\ fresh' \in BOOLEAN /\ result' \in BOOLEAN /\ setFlag' \in BOOLEAN
          /\ connected' => hasPort'
      BY <1>4 DEF Look
    <3> QED
      BY <1>4, <3>1 DEF Look
  <2>2. Control' /\ Pending'
    BY <1>4 DEF Look
  <2>3. Silence' /\ Frames' /\ DeactiveTruthful'
    BY <1>4 DEF Look
  <2>4. Restart' /\ SpeedTruthful'
    BY <1>4 DEF Look
  <2> QED
    BY <2>1, <2>2, <2>3, <2>4
<1>5. ASSUME Disconnect PROVE IInv'
  <2>1. TypeOK'
    <3>1. /\ hasPort' \in BOOLEAN /\ connected' \in BOOLEAN /\ looked' \in BOOLEAN
          /\ fresh' \in BOOLEAN /\ result' \in BOOLEAN /\ setFlag' \in BOOLEAN
          /\ connected' => hasPort'
      BY <1>5 DEF Disconnect, Joined
    <3> QED
      BY <1>5, <3>1 DEF Disconnect, Joined
  <2>2. Control' /\ Pending'
    BY <1>5 DEF Disconnect, Joined
  <2>3. Silence' /\ Frames' /\ DeactiveTruthful'
    BY <1>5 DEF Disconnect, Joined
  <2>4. Restart' /\ SpeedTruthful'
    BY <1>5 DEF Disconnect, Joined
  <2> QED
    BY <2>1, <2>2, <2>3, <2>4
<1>6. ASSUME OtherProgram PROVE IInv'
  <2>1. TypeOK'
    <3>1. /\ hasPort' \in BOOLEAN /\ connected' \in BOOLEAN /\ looked' \in BOOLEAN
          /\ fresh' \in BOOLEAN /\ result' \in BOOLEAN /\ setFlag' \in BOOLEAN
          /\ connected' => hasPort'
      BY <1>6 DEF OtherProgram
    <3> QED
      BY <1>6, <3>1 DEF OtherProgram
  <2>2. Control' /\ Pending'
    BY <1>6 DEF OtherProgram
  <2>3. Silence' /\ Frames' /\ DeactiveTruthful'
    BY <1>6 DEF OtherProgram
  <2>4. Restart' /\ SpeedTruthful'
    BY <1>6 DEF OtherProgram
  <2> QED
    BY <2>1, <2>2, <2>3, <2>4
<1>7. ASSUME Begin("activate", "activate") PROVE IInv'
  <2>1. TypeOK'
    <3>1. /\ hasPort' \in BOOLEAN /\ connected' \in BOOLEAN /\ looked' \in BOOLEAN
          /\ fresh' \in BOOLEAN /\ result' \in BOOLEAN /\ setFlag' \in BOOLEAN
          /\ connected' => hasPort'
      BY <1>7 DEF Begin, Go
    <3> QED
      BY <1>7, <3>1 DEF Begin, Go
  <2>2. Control' /\ Pending'
    BY <1>7 DEF Begin, Go
  <2>3. Silence' /\ Frames' /\ DeactiveTruthful'
    BY <1>7 DEF Begin, Go
  <2>4. Restart' /\ SpeedTruthful'
    BY <1>7 DEF Begin, Go
  <2> QED
    BY <2>1, <2>2, <2>3, <2>4
<1>8. ASSUME Begin("deactive", "deactive") PROVE IInv'
  <2>1. TypeOK'
    <3>1. /\ hasPort' \in BOOLEAN /\ connected' \in BOOLEAN /\ looked' \in BOOLEAN
          /\ fresh' \in BOOLEAN /\ result' \in BOOLEAN /\ setFlag' \in BOOLEAN
          /\ connected' => hasPort'
      BY <1>8 DEF Begin, Go
    <3> QED
      BY <1>8, <3>1 DEF Begin, Go
  <2>2. Control' /\ Pending'
    BY <1>8 DEF Begin, Go
  <2>3. Silence' /\ Frames' /\ DeactiveTruthful'
    BY <1>8 DEF Begin, Go
  <2>4. Restart' /\ SpeedTruthful'
    BY <1>8 DEF Begin, Go
  <2> QED
    BY <2>1, <2>2, <2>3, <2>4
<1>9. ASSUME NEW speed \in Requests, BeginSetSpeed(speed) PROVE IInv'
  <2>1. TypeOK'
    <3>1. /\ hasPort' \in BOOLEAN /\ connected' \in BOOLEAN /\ looked' \in BOOLEAN
          /\ fresh' \in BOOLEAN /\ result' \in BOOLEAN /\ setFlag' \in BOOLEAN
          /\ connected' => hasPort'
      BY <1>9 DEF BeginSetSpeed, Go
    <3> QED
      BY <1>9, <3>1, ClampFacts DEF BeginSetSpeed, Go
  <2>2. /\ op' = "speed" /\ (setFlag' <=> valid = 1) /\ target' \in {Clamp(s) : s \in Requests}
        /\ upc' = IF valid = 1 THEN "deactive" ELSE "setSpeed"
    BY <1>9 DEF BeginSetSpeed, Go
  <2>3. Control'
    BY ONLY <2>2 DEF Control, Activating, Deactiving
  <2>4. Pending'
    BY <1>9 DEF BeginSetSpeed, Go
  <2>5. Silence' /\ Frames' /\ DeactiveTruthful'
    BY <1>9 DEF BeginSetSpeed, Go
  <2>6. Restart' /\ SpeedTruthful'
    BY <1>9 DEF BeginSetSpeed, Go
  <2> QED
    BY <2>1, <2>3, <2>4, <2>5, <2>6
<1>10. ASSUME Return PROVE IInv'
  <2>1. TypeOK'
    <3>1. /\ hasPort' \in BOOLEAN /\ connected' \in BOOLEAN /\ looked' \in BOOLEAN
          /\ fresh' \in BOOLEAN /\ result' \in BOOLEAN /\ setFlag' \in BOOLEAN
          /\ connected' => hasPort'
      BY <1>10 DEF Return
    <3> QED
      BY <1>10, <3>1 DEF Return
  <2>2. Control' /\ Pending'
    BY <1>10 DEF Return
  <2>3. Silence' /\ Frames' /\ DeactiveTruthful'
    BY <1>10 DEF Return
  <2>4. Restart' /\ SpeedTruthful'
    BY <1>10 DEF Return
  <2> QED
    BY <2>1, <2>2, <2>3, <2>4
<1>11. ASSUME ActivateTest PROVE IInv'
  <2>1. TypeOK'
    <3>1. /\ hasPort' \in BOOLEAN /\ connected' \in BOOLEAN /\ looked' \in BOOLEAN
          /\ fresh' \in BOOLEAN /\ result' \in BOOLEAN /\ setFlag' \in BOOLEAN
          /\ connected' => hasPort'
      BY <1>11 DEF ActivateTest, ActivateGives, Go, Give
    <3> QED
      BY <1>11, <3>1 DEF ActivateTest, ActivateGives, Go, Give
  <2>2. Control' /\ Pending'
    BY <1>11 DEF ActivateTest, ActivateGives, Go, Give
  <2>3. Silence' /\ Frames' /\ DeactiveTruthful'
    BY <1>11 DEF ActivateTest, ActivateGives, Go, Give
  <2>4. Restart' /\ SpeedTruthful'
    BY <1>11 DEF ActivateTest, ActivateGives, Go, Give
  <2> QED
    BY <2>1, <2>2, <2>3, <2>4
<1>12. ASSUME ActivatePoll PROVE IInv'
  <2>1. TypeOK'
    <3>1. /\ hasPort' \in BOOLEAN /\ connected' \in BOOLEAN /\ looked' \in BOOLEAN
          /\ fresh' \in BOOLEAN /\ result' \in BOOLEAN /\ setFlag' \in BOOLEAN
          /\ connected' => hasPort'
      BY <1>12 DEF ActivatePoll, ActivateGives, Go, Give, PollAgain, Settled
    <3> QED
      BY <1>12, <3>1 DEF ActivatePoll, ActivateGives, Go, Give, PollAgain, Settled
  <2>2. Control' /\ Pending'
    BY <1>12 DEF ActivatePoll, ActivateGives, Go, Give, PollAgain, Settled
  <2>3. Silence' /\ Frames' /\ DeactiveTruthful'
    BY <1>12 DEF ActivatePoll, ActivateGives, Go, Give, PollAgain, Settled
  <2>4. Restart' /\ SpeedTruthful'
    BY <1>12 DEF ActivatePoll, ActivateGives, Go, Give, PollAgain, Settled
  <2> QED
    BY <2>1, <2>2, <2>3, <2>4
<1>13. ASSUME DeactiveTest PROVE IInv'
  <2>1. TypeOK'
    <3>1. /\ hasPort' \in BOOLEAN /\ connected' \in BOOLEAN /\ looked' \in BOOLEAN
          /\ fresh' \in BOOLEAN /\ result' \in BOOLEAN /\ setFlag' \in BOOLEAN
          /\ connected' => hasPort'
      BY <1>13 DEF DeactiveTest, DeactiveSucceeds, Go, Give
    <3> QED
      BY <1>13, <3>1, SMTT(30) DEF DeactiveTest, DeactiveSucceeds, Go, Give
  <2>2. Control' /\ Pending'
    BY <1>13 DEF DeactiveTest, DeactiveSucceeds, Go, Give
  <2>3. Silence' /\ Frames' /\ DeactiveTruthful'
    BY <1>13 DEF DeactiveTest, DeactiveSucceeds, Go, Give
  <2>4. Restart' /\ SpeedTruthful'
    BY <1>13 DEF DeactiveTest, DeactiveSucceeds, Go, Give
  <2> QED
    BY <2>1, <2>2, <2>3, <2>4
<1>14. ASSUME DeactivePoll PROVE IInv'
  <2>1. TypeOK'
    <3>1. /\ hasPort' \in BOOLEAN /\ connected' \in BOOLEAN /\ looked' \in BOOLEAN
          /\ fresh' \in BOOLEAN /\ result' \in BOOLEAN /\ setFlag' \in BOOLEAN
          /\ connected' => hasPort'
      BY <1>14 DEF DeactivePoll, DeactiveSucceeds, Go, Give, PollAgain, Settled
    <3> QED
      BY <1>14, <3>1 DEF DeactivePoll, DeactiveSucceeds, Go, Give, PollAgain, Settled
  <2>2. Control' /\ Pending'
    BY <1>14 DEF DeactivePoll, DeactiveSucceeds, Go, Give, PollAgain, Settled
  <2>3. Silence' /\ Frames' /\ DeactiveTruthful'
    BY <1>14 DEF DeactivePoll, DeactiveSucceeds, Go, Give, PollAgain, Settled
  <2>4. Restart' /\ SpeedTruthful'
    BY <1>14 DEF DeactivePoll, DeactiveSucceeds, Go, Give, PollAgain, Settled
  <2> QED
    BY <2>1, <2>2, <2>3, <2>4
<1>15. ASSUME Confirm PROVE IInv'
  <2>1. TypeOK'
    <3>1. /\ hasPort' \in BOOLEAN /\ connected' \in BOOLEAN /\ looked' \in BOOLEAN
          /\ fresh' \in BOOLEAN /\ result' \in BOOLEAN /\ setFlag' \in BOOLEAN
          /\ connected' => hasPort'
      BY <1>15 DEF Confirm, InRange, Go, Give, PollAgain, Settled
    <3> QED
      BY <1>15, <3>1 DEF Confirm, InRange, Go, Give, PollAgain, Settled
  <2>2. Control' /\ Pending'
    BY <1>15 DEF Confirm, InRange, Go, Give, PollAgain, Settled
  <2>3. Silence' /\ Frames' /\ DeactiveTruthful'
    BY <1>15 DEF Confirm, InRange, Go, Give, PollAgain, Settled
  <2>4. Restart' /\ SpeedTruthful'
    BY <1>15 DEF Confirm, InRange, Go, Give, PollAgain, Settled
  <2> QED
    BY <2>1, <2>2, <2>3, <2>4
<1>16. ASSUME ActivateSend PROVE IInv'
  <2> DEFINE c == [kind |-> "start"]
  <2>1. c \in Commands
    BY <1>16, CommandFacts DEF ActivateSend
  <2>2. \/ inFlight' = Append(inFlight, c) /\ Len(inFlight) < MaxInFlight /\ connected
        \/ inFlight' = inFlight
    BY <1>16 DEF ActivateSend, Write
  <2> HIDE DEF c
  <2>3. /\ inFlight' \in Seq(Commands) /\ Len(inFlight') <= MaxInFlight
        /\ \A i \in 1 .. Len(inFlight') :
             inFlight'[i] = c \/ (i \in 1 .. Len(inFlight) /\ inFlight'[i] = inFlight[i])
    BY <2>1, <2>2, Written
  <2>4. TypeOK'
    <3>1. /\ hasPort' \in BOOLEAN /\ connected' \in BOOLEAN /\ looked' \in BOOLEAN
          /\ fresh' \in BOOLEAN /\ result' \in BOOLEAN /\ setFlag' \in BOOLEAN
          /\ connected' => hasPort'
      BY <1>16 DEF ActivateSend, Write, Go, Give
    <3> QED
      BY <1>16, <3>1, <2>3 DEF ActivateSend, Write, Go, Give
  <2>5. Control' /\ polls' = 0 /\ UNCHANGED <<hasPort, connected, valid, looked, mode>>
    BY <1>16 DEF ActivateSend, Write, Go, Give
  <2>6. Pending'
    BY <1>16, <2>3, <2>5 DEF ActivateSend, Write, Go, Give, c
  <2>7. Silence' /\ Frames' /\ DeactiveTruthful'
    BY <1>16 DEF ActivateSend, Write, Go, Give
  <2>8. Restart' /\ SpeedTruthful'
    BY <1>16 DEF ActivateSend, Write, Go, Give
  <2> QED
    BY <2>4, <2>5, <2>6, <2>7, <2>8
<1>17. ASSUME DeactiveSend PROVE IInv'
  <2> DEFINE c == [kind |-> "stop"]
  <2>1. c \in Commands
    BY <1>17, CommandFacts DEF DeactiveSend
  <2>2. \/ inFlight' = Append(inFlight, c) /\ Len(inFlight) < MaxInFlight /\ connected
        \/ inFlight' = inFlight
    BY <1>17 DEF DeactiveSend, Write
  <2> HIDE DEF c
  <2>3. /\ inFlight' \in Seq(Commands) /\ Len(inFlight') <= MaxInFlight
        /\ \A i \in 1 .. Len(inFlight') :
             inFlight'[i] = c \/ (i \in 1 .. Len(inFlight) /\ inFlight'[i] = inFlight[i])
    BY <2>1, <2>2, Written
  <2>4. TypeOK'
    <3>1. /\ hasPort' \in BOOLEAN /\ connected' \in BOOLEAN /\ looked' \in BOOLEAN
          /\ fresh' \in BOOLEAN /\ result' \in BOOLEAN /\ setFlag' \in BOOLEAN
          /\ connected' => hasPort'
      BY <1>17 DEF DeactiveSend, Write, Go, Give
    <3> QED
      BY <1>17, <3>1, <2>3 DEF DeactiveSend, Write, Go, Give
  <2>5. Control' /\ polls' = 0 /\ UNCHANGED <<hasPort, connected, valid, looked, mode>>
    BY <1>17 DEF DeactiveSend, Write, Go, Give
  <2>6. Pending'
    BY <1>17, <2>3, <2>5 DEF DeactiveSend, Write, Go, Give, c
  <2>7. Silence' /\ Frames' /\ DeactiveTruthful'
    BY <1>17 DEF DeactiveSend, Write, Go, Give
  <2>8. Restart' /\ SpeedTruthful'
    BY <1>17 DEF DeactiveSend, Write, Go, Give
  <2> QED
    BY <2>4, <2>5, <2>6, <2>7, <2>8
<1>18. ASSUME SetSpeedSend PROVE IInv'
  <2> DEFINE c == [kind |-> "speed", to |-> target]
  <2>1. c \in Commands
    BY <1>18, CommandFacts DEF SetSpeedSend
  <2>2. \/ inFlight' = Append(inFlight, c) /\ Len(inFlight) < MaxInFlight /\ connected
        \/ inFlight' = inFlight
    BY <1>18 DEF SetSpeedSend, Write
  <2> HIDE DEF c
  <2>3. /\ inFlight' \in Seq(Commands) /\ Len(inFlight') <= MaxInFlight
        /\ \A i \in 1 .. Len(inFlight') :
             inFlight'[i] = c \/ (i \in 1 .. Len(inFlight) /\ inFlight'[i] = inFlight[i])
    BY <2>1, <2>2, Written
  <2>4. TypeOK'
    <3>1. /\ hasPort' \in BOOLEAN /\ connected' \in BOOLEAN /\ looked' \in BOOLEAN
          /\ fresh' \in BOOLEAN /\ result' \in BOOLEAN /\ setFlag' \in BOOLEAN
          /\ connected' => hasPort'
      BY <1>18 DEF SetSpeedSend, Write, Go, Give
    <3> QED
      BY <1>18, <3>1, <2>3 DEF SetSpeedSend, Write, Go, Give
  <2>5. Control' /\ polls' = 0 /\ UNCHANGED <<hasPort, connected, valid, looked, mode>>
    BY <1>18 DEF SetSpeedSend, Write, Go, Give
  <2>6. Pending'
    BY <1>18, <2>3, <2>5 DEF SetSpeedSend, Write, Go, Give, c
  <2>7. Silence' /\ Frames' /\ DeactiveTruthful'
    BY <1>18 DEF SetSpeedSend, Write, Go, Give
  <2>8. Restart' /\ SpeedTruthful'
    BY <1>18 DEF SetSpeedSend, Write, Go, Give
  <2> QED
    BY <2>4, <2>5, <2>6, <2>7, <2>8
<1>19. CASE UNCHANGED vars
  BY <1>19 DEF vars
<1> QED
  BY <1>1, <1>2, <1>3, <1>4, <1>5, <1>6, <1>7, <1>8, <1>9, <1>10, <1>11, <1>12, <1>13, <1>14, <1>15, <1>16, <1>17, <1>18, <1>19 DEF Next, Call, UserStep, Settle

\* The invariant holds in every reachable state.
LEMMA Invariance == Spec => []IInv
BY Initially, Inductive, PTL DEF Spec

-----------------------------------------------------------------------------
\* Types; the lidar is only ever told speeds from 5 to 15, whatever the
\* application asks for.
THEOREM TypeCorrect == Spec => []TypeOK
<1>1. IInv => TypeOK
  BY DEF IInv
<1> QED
  BY Invariance, <1>1, PTL

\* Deactive's TRUE on an open port means that the lidar is in standby, whichever
\* commands were missed before.
THEOREM DeactiveIsTruthful == Spec => []DeactiveTruthful
<1>1. IInv => DeactiveTruthful
  BY DEF IInv
<1> QED
  BY Invariance, <1>1, PTL

\* SetRotationSpeed's TRUE, where it found the lidar ranging, means that the
\* lidar ranges at a speed within ten percent of the request.
THEOREM SpeedIsTruthful == Spec => []SpeedTruthful
<1>1. IInv => SpeedTruthful
  BY DEF IInv
<1> QED
  BY Invariance, <1>1, PTL

\* Where the receive thread has looked in this session before Activate decides,
\* its TRUE means that the lidar ranges.
THEOREM ActivateIsTruthful == Spec => ActivateTruthful
<1>1. IInv /\ [Next]_vars =>
        [upc # "return" /\ Returning("activate")' /\ connected /\ looked
           => mode = "ranging"]_vars
  <2> SUFFICES ASSUME IInv, Next, upc # "return", Returning("activate")', connected, looked
               PROVE  mode = "ranging"
    OBVIOUS
  <2> USE DEF IInv, Control, Frames, Returning, Activating, Deactiving
  <2>1. CASE ActivateTest
    BY <2>1 DEF ActivateTest, ActivateGives, Go, Give
  <2>2. CASE ActivateSend
    BY <2>2 DEF ActivateSend, Write, Go, Give
  <2>3. CASE ActivatePoll
    BY <2>3 DEF ActivatePoll, ActivateGives, PollAgain, Go, Give, Settled
  <2>4. CASE DeactiveTest \/ DeactiveSend \/ DeactivePoll
    BY <2>4 DEF DeactiveTest, DeactiveSend, DeactivePoll, DeactiveSucceeds, PollAgain, Write,
       Go, Give, call
  <2>5. CASE SetSpeedSend \/ Confirm
    BY <2>5 DEF SetSpeedSend, Confirm, PollAgain, Write, Go, Give, call
  <2>6. CASE Return \/ Call \/ Look \/ Settle \/ OtherProgram
    BY <2>6 DEF Return, Call, Begin, BeginSetSpeed, Connect, Disconnect, Joined, Look, Settle,
       LidarObeys, LidarMisses, OtherProgram, Go
  <2> QED
    BY <2>1, <2>2, <2>3, <2>4, <2>5, <2>6 DEF Next, UserStep
<1> QED
  BY Invariance, <1>1, PTL DEF Spec, ActivateTruthful
=============================================================================
