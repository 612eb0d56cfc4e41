------------------------------- MODULE RunMode -------------------------------
(***************************************************************************)
(* The motor commands of OrdlidarDriver: Activate, Deactive and            *)
(* SetRotationSpeed.  The driver never hears an answer from the lidar.  It *)
(* infers the mode from valid_data_, which the receive thread sets to 1    *)
(* when bytes arrive and to 0 when none arrived for 500 ms.                *)
(*                                                                         *)
(* The lidar carries out a command or misses it; either is settled within  *)
(* the second between two polls.  While the port is closed some other      *)
(* program may have used the lidar.  The one thread of the application     *)
(* makes the calls; a delay of 1 s contains a full round of the receive     *)
(* thread, a shorter one does not.                                         *)
(***************************************************************************)
EXTENDS Integers, Sequences

CONSTANTS
  Requests,   \* speeds asked of SetRotationSpeed
  Rotations,  \* speeds the lidar may be turning at when first connected
  Polls,      \* SET_TIME_OUT, 10
  MaxInFlight \* bound: commands written and not settled

ASSUME RunModeAssumption ==
  /\ Requests \subseteq Int /\ Rotations \subseteq Nat \ {0}
  /\ Polls \in Nat /\ Polls > 1 /\ MaxInFlight \in Nat

VARIABLES
  hasPort,    \* serial_ exists: Connect was called
  connected,  \* the port is open and the receive thread runs
  valid,      \* valid_data_
  looked,     \* the receive thread set valid_data_ since Connect
  fresh,      \* ... and since the delay under way began
  rotation,   \* parsed_data_.speed
  mode, motor,\* the lidar: "ranging" or "standby", and its speed
  inFlight,   \* commands written to it, oldest first
  upc,        \* where the application is
  op,         \* the call it made
  target,     \* SetRotationSpeed: the local speed
  setFlag,    \* SetRotationSpeed: the local set_flag
  polls,      \* the local timeout of the loop under way
  result      \* what the call returns

port   == <<hasPort, connected>>
reader == <<valid, looked, rotation>>
lidar  == <<mode, motor>>
call   == <<op, target, setFlag>>
vars   == <<port, reader, fresh, lidar, inFlight, upc, call, polls, result>>

\* Mutant of Clamp: the request is passed on.
AnySpeed(speed) == speed

\* SetRotationSpeed limits the request to 5 .. 15.
Clamp(speed) == IF speed < 5 THEN 5 ELSE IF speed > 15 THEN 15 ELSE speed

Commands == {[kind |-> "start"], [kind |-> "stop"]}
            \cup [kind : {"speed"}, to : {Clamp(s) : s \in Requests}]

Init ==
  /\ hasPort = FALSE /\ connected = FALSE
  /\ valid = 0 /\ looked = FALSE /\ fresh = FALSE /\ rotation = 0
  /\ mode \in {"ranging", "standby"} /\ motor \in Rotations
  /\ inFlight = <<>>
  /\ upc = "idle" /\ op = "none" /\ target = 0 /\ setFlag = FALSE
  /\ polls = 0 /\ result = FALSE

-----------------------------------------------------------------------------
(* The lidar, the receive thread, and the session. *)

\* The lidar carries out the oldest command, or misses it.
LidarObeys ==
  /\ inFlight # <<>>
  /\ inFlight' = Tail(inFlight)
  /\ CASE Head(inFlight).kind = "start" -> mode' = "ranging" /\ UNCHANGED motor
       [] Head(inFlight).kind = "stop"  -> mode' = "standby" /\ UNCHANGED motor
       [] Head(inFlight).kind = "speed" -> motor' = Head(inFlight).to /\ UNCHANGED mode
  /\ UNCHANGED <<port, reader, fresh, upc, call, polls, result>>

LidarMisses ==
  /\ inFlight # <<>>
  /\ inFlight' = Tail(inFlight)
  /\ UNCHANGED <<port, reader, fresh, lidar, upc, call, polls, result>>

\* One round of mRxThreadProc: a ranging lidar sends frames all the time, and
\* they carry its speed; from a lidar in standby nothing comes for 500 ms.
Look ==
  /\ connected
  /\ valid' = IF mode = "ranging" THEN 1 ELSE 0
  /\ rotation' = IF mode = "ranging" THEN motor ELSE rotation
  /\ looked' = TRUE
  /\ fresh' = TRUE
  /\ UNCHANGED <<port, lidar, inFlight, upc, call, polls, result>>

\* valid_data_ once Disconnect has joined the receive thread: the last round of
\* that thread may have found the port closed, which it takes for silence.
Joined == {valid} \cup (IF connected THEN {0} ELSE {})

\* Connect, which disconnects first, waits 200 ms "to receive data and
\* know some states early": enough to hear a ranging lidar, not to find that
\* nothing comes.
Connect ==
  /\ upc = "idle"
  /\ hasPort' = TRUE
  /\ connected' \in BOOLEAN
  /\ looked' = (connected' /\ mode = "ranging")
  /\ valid' \in IF looked' THEN {1} ELSE Joined
  /\ rotation' = IF looked' THEN motor ELSE rotation
  /\ UNCHANGED <<fresh, lidar, inFlight, upc, call, polls, result>>

\* Neither call resets valid_data_ or parsed_data_.
Disconnect ==
  /\ upc = "idle"
  /\ connected' = FALSE
  /\ valid' \in Joined
  /\ UNCHANGED <<hasPort, looked, rotation, fresh, lidar, inFlight, upc, call, polls,
                 result>>

OtherProgram ==
  /\ ~connected /\ upc = "idle"
  /\ mode' \in {"ranging", "standby"}
  /\ UNCHANGED <<port, reader, fresh, motor, inFlight, upc, call, polls, result>>

-----------------------------------------------------------------------------
(* Pieces of the calls. *)

\* A one-second delay ends with the receive thread's round completed and the
\* commands carried out or missed.
Settled == (connected => fresh) /\ inFlight = <<>>

\* The call goes on at pc: a loop or a delay that begins there begins anew.
Go(pc) == upc' = pc /\ polls' = 0 /\ fresh' = FALSE /\ UNCHANGED result

\* The call returns b to the application.
Give(b) == upc' = "return" /\ result' = b /\ polls' = 0 /\ fresh' = FALSE

\* One more round of a polling loop, or gaveUp after the last.
PollAgain(gaveUp) ==
  IF polls + 1 < Polls
    THEN polls' = polls + 1 /\ fresh' = FALSE /\ UNCHANGED <<upc, result>>
    ELSE gaveUp

\* writeData: -1 is an error; on a closed port it returns 0, which is none.
Write(cmd, then) ==
  \/ /\ connected /\ Len(inFlight) < MaxInFlight
     /\ inFlight' = Append(inFlight, cmd)
     /\ then
  \/ ~connected /\ UNCHANGED inFlight /\ then
  \/ connected /\ UNCHANGED inFlight /\ Give(FALSE)

Begin(name, pc) ==
  /\ upc = "idle" /\ hasPort
  /\ op' = name
  /\ Go(pc)
  /\ UNCHANGED <<port, reader, lidar, inFlight, target, setFlag>>

Return ==
  /\ upc = "return"
  /\ upc' = "idle" /\ op' = "none" /\ target' = 0 /\ setFlag' = FALSE
  /\ result' = FALSE
  /\ UNCHANGED <<port, reader, fresh, lidar, inFlight, polls>>

-----------------------------------------------------------------------------
(* Activate. *)

\* Activate returns b, to the application or into SetRotationSpeed.
ActivateGives(b) == IF op = "speed" /\ b THEN Go("confirm") ELSE Give(b)

ActivateTest ==
  /\ upc = "activate"
  /\ IF valid = 1 THEN ActivateGives(TRUE) ELSE Go("sendStart")
  /\ UNCHANGED <<port, reader, lidar, inFlight, call>>

\* Mutant of ActivateSend: success is reported once the command is written.
ActivateSendOnly ==
  /\ upc = "sendStart"
  /\ Write([kind |-> "start"], ActivateGives(TRUE))
  /\ UNCHANGED <<port, reader, lidar, call>>

ActivateSend ==
  /\ upc = "sendStart"
  /\ Write([kind |-> "start"], Go("awaitData"))
  /\ UNCHANGED <<port, reader, lidar, call>>

ActivatePoll ==
  /\ upc = "awaitData"
  /\ Settled
  /\ IF valid = 1 THEN ActivateGives(TRUE) ELSE PollAgain(Give(FALSE))
  /\ UNCHANGED <<port, reader, lidar, inFlight, call>>

-----------------------------------------------------------------------------
(* Deactive.  Where it succeeds it clears the counts of the scans (which make
   GrabFullScan and GrabOneScan fail) and parsed_data_. *)

\* Deactive returns TRUE, to the application or into SetRotationSpeed.
DeactiveSucceeds ==
  /\ rotation' = 0
  /\ IF op = "speed" THEN Go("setSpeed") ELSE Give(TRUE)

DeactiveTest ==
  /\ upc = "deactive"
  /\ \/ valid = 0 /\ DeactiveSucceeds
     \/ valid = 1 /\ Go("sendStop") /\ UNCHANGED rotation
  /\ UNCHANGED <<port, valid, looked, lidar, inFlight, call>>

DeactiveSend ==
  /\ upc = "sendStop"
  /\ Write([kind |-> "stop"], Go("awaitSilence"))
  /\ UNCHANGED <<port, reader, lidar, call>>

\* Mutants of DeactivePoll: giving up counts as success; the loop never ends.
DeactivePollAssumes ==
  /\ upc = "awaitSilence"
  /\ Settled
  /\ \/ valid = 0 /\ DeactiveSucceeds
     \/ valid = 1 /\ PollAgain(Give(TRUE)) /\ UNCHANGED rotation
  /\ UNCHANGED <<port, valid, looked, lidar, inFlight, call>>
DeactivePollForever ==
  /\ upc = "awaitSilence"
  /\ Settled
  /\ \/ valid = 0 /\ DeactiveSucceeds
     \/ valid = 1 /\ Go(upc) /\ UNCHANGED rotation
  /\ UNCHANGED <<port, valid, looked, lidar, inFlight, call>>

DeactivePoll ==
  /\ upc = "awaitSilence"
  /\ Settled
  /\ \/ valid = 0 /\ DeactiveSucceeds
     \/ valid = 1 /\ PollAgain(Give(FALSE)) /\ UNCHANGED rotation
  /\ UNCHANGED <<port, valid, looked, lidar, inFlight, call>>

-----------------------------------------------------------------------------
(* SetRotationSpeed: a ranging lidar is stopped, told its speed, and started;
   for one in standby the call returns once the command is written. *)

BeginSetSpeed(speed) ==
  /\ upc = "idle" /\ hasPort
  /\ op' = "speed"
  /\ target' = Clamp(speed)
  /\ setFlag' = (valid = 1)
  /\ Go(IF valid = 1 THEN "deactive" ELSE "setSpeed")
  /\ UNCHANGED <<port, reader, lidar, inFlight>>

SetSpeedSend ==
  /\ upc = "setSpeed"
  /\ Write([kind |-> "speed", to |-> target],
           IF setFlag THEN Go("activate") ELSE Give(TRUE))
  /\ UNCHANGED <<port, reader, lidar, call>>

\* Mutant of InRange: any speed the frames report will do.
Turning == rotation > 0

\* Within ten percent of the speed asked for.
InRange == 10 * rotation > 9 * target /\ 10 * rotation < 11 * target

\* The loop after Activate.
Confirm ==
  /\ upc = "confirm"
  /\ Settled
  /\ IF valid = 0 THEN Give(FALSE)
     ELSE IF InRange THEN Give(TRUE) ELSE PollAgain(Give(FALSE))
  /\ UNCHANGED <<port, reader, lidar, inFlight, call>>

-----------------------------------------------------------------------------
UserStep == \/ ActivateTest \/ ActivateSend \/ ActivatePoll
            \/ DeactiveTest \/ DeactiveSend \/ DeactivePoll
            \/ SetSpeedSend \/ Confirm \/ Return

Call == \/ Begin("activate", "activate") \/ Begin("deactive", "deactive")
        \/ \E speed \in Requests : BeginSetSpeed(speed)
        \/ Connect \/ Disconnect

Settle == LidarObeys \/ LidarMisses

Next == Call \/ UserStep \/ Look \/ Settle \/ OtherProgram

Spec == Init /\ [][Next]_vars

\* A call that began goes on, the receive thread runs, and the lidar settles
\* every command.  Nothing makes the application call.
FairSpec == Spec /\ WF_vars(UserStep) /\ WF_vars(Look) /\ WF_vars(Settle)

-----------------------------------------------------------------------------
(* Properties. *)

\* Types; the lidar is only ever told speeds from 5 to 15.
TypeOK ==
  /\ hasPort \in BOOLEAN /\ connected \in BOOLEAN
  /\ connected => hasPort
  /\ valid \in {0, 1} /\ looked \in BOOLEAN /\ fresh \in BOOLEAN
  /\ mode \in {"ranging", "standby"}
  /\ motor \in Rotations \cup 5 .. 15
  /\ rotation \in Rotations \cup 5 .. 15 \cup {0}
  /\ inFlight \in Seq(Commands) /\ Len(inFlight) <= MaxInFlight
  /\ op \in {"none", "activate", "deactive", "speed"}
  /\ polls \in 0 .. Polls - 1 /\ result \in BOOLEAN /\ setFlag \in BOOLEAN

Returning(name) == upc = "return" /\ op = name /\ result

\* Where the receive thread has looked in this session before Activate decides,
\* TRUE means that the lidar ranges, whichever commands it missed before.
ActivateTruthful ==
  [][upc # "return" /\ Returning("activate")' /\ connected /\ looked
       => mode = "ranging"]_vars

\* Deactive's TRUE on an open port means that the lidar is in standby.
DeactiveTruthful ==
  Returning("deactive") /\ connected => mode = "standby"

\* SetRotationSpeed's TRUE, where it found the lidar ranging, means that the
\* lidar ranges at a speed within ten percent of the request.
SpeedTruthful ==
  Returning("speed") /\ setFlag =>
    mode = "ranging" /\ 10 * motor > 9 * target /\ 10 * motor < 11 * target

\* Every call returns, whatever the lidar misses: each loop is bounded.
CommandReturns == upc # "idle" ~> upc = "idle"

\* The header says of Activate that the lidar goes from standby to ranging:
\* when it returns TRUE on an open port, the lidar ranges.
ActivatedIsRanging == Returning("activate") /\ connected => mode = "ranging"
=============================================================================
