----------------------------- MODULE LidarDriver -----------------------------
(***************************************************************************)
(* The session of one OrdlidarDriver: the application's thread calls       *)
(* Connect, Disconnect, Deactive and the four Grab calls, and the thread   *)
(* that Connect starts (mRxThreadProc) fills the two scan buffers.  The    *)
(* threads share the exit flag, the port, the buffers, the ready flags and *)
(* two Events; the lock that would guard them is commented out in the      *)
(* class, so every access below is a step of its own.                      *)
(*                                                                         *)
(* A scan is the number of the frame that completed it.  A buffer has two  *)
(* parts that memcpy and struct assignment move one after the other: the   *)
(* leading points, and the remaining points with their count and speed.    *)
(* Part value 0 is the zeroed struct, whose count is 0.                    *)
(*                                                                         *)
(* The byte parser is module FrameParser, the assembly of circles module   *)
(* ScanAssembler, valid_data_ and the motor commands module RunMode.       *)
(***************************************************************************)
EXTENDS Naturals

CONSTANT MaxFrame   \* bound on the frames the receive thread decodes

ASSUME MaxFrameAssumption == MaxFrame \in Nat

Channels == {"full", "one"}
Parts    == {"head", "tail"}
Scans    == 0 .. MaxFrame

UserPC == {"idle", "closing", "joining", "resetting", "opening", "spawning",
           "waiting", "count", "flag", "copyHead", "copyTail", "taken",
           "clearFull", "clearOne"}
RxPC   == {"none", "test", "wait", "read", "parse", "head", "tail",
           "announce", "signal", "circle", "done"}

VARIABLES
  connected,  \* is_connected_
  portOpen,   \* SerialImpl::is_open_
  exitFlag,   \* rx_thread_exit_flag_
  ready,      \* full_scan_ready_, one_scan_ready_
  buf,        \* full_scan_data_, one_scan_data_
  upc, uch, reopen, copy,   \* application thread: where, channel, Disconnect
                            \* called by Connect, the caller's scan_data
  rpc, rch, item, frame     \* receive thread: where, channel it writes, scan
                            \* it writes, frames decoded so far

shared == <<connected, portOpen, exitFlag, ready, buf>>
user   == <<upc, uch, reopen, copy>>
rx     == <<rpc, rch, item, frame>>
vars   == <<shared, user, rx>>

NoScan == [p \in Parts |-> 0]

\* The constructor leaves both ready flags and the exit flag uninitialised.
Init ==
  /\ connected = FALSE
  /\ portOpen = FALSE
  /\ exitFlag \in BOOLEAN
  /\ ready \in [Channels -> BOOLEAN]
  /\ buf = [c \in Channels |-> NoScan]
  /\ upc = "idle" /\ uch = "full" /\ reopen = FALSE /\ copy = NoScan
  /\ rpc = "none" /\ rch = "full" /\ item = 0 /\ frame = 0

-----------------------------------------------------------------------------
(* Connect and Disconnect.  Disconnect is also what Connect does first when
   it finds the driver connected, and all that the destructor does. *)

BeginDisconnect(fromConnect) ==
  /\ upc = "idle"
  /\ fromConnect => connected
  /\ exitFlag' = TRUE
  /\ reopen' = fromConnect
  /\ upc' = "closing"
  /\ UNCHANGED <<connected, portOpen, ready, buf, uch, copy, rx>>

ClosePort ==
  /\ upc = "closing"
  /\ portOpen' = FALSE
  /\ upc' = "joining"
  /\ UNCHANGED <<connected, exitFlag, ready, buf, uch, reopen, copy, rx>>

\* Mutant of JoinReader: the thread is detached, Disconnect goes on without it.
DetachReader ==
  /\ upc = "joining"
  /\ upc' = "resetting"
  /\ UNCHANGED <<shared, uch, reopen, copy, rx>>

\* join() returns once the thread has ended; without a thread there is no join.
JoinReader ==
  /\ upc = "joining"
  /\ rpc \in {"none", "done"}
  /\ rpc' = "none"
  /\ upc' = "resetting"
  /\ UNCHANGED <<shared, uch, reopen, copy, rch, item, frame>>

EndDisconnect ==
  /\ upc = "resetting"
  /\ ready' = [c \in Channels |-> FALSE]
  /\ connected' = FALSE
  /\ upc' = IF reopen THEN "opening" ELSE "idle"
  /\ reopen' = FALSE
  /\ UNCHANGED <<portOpen, exitFlag, buf, uch, copy, rx>>

BeginConnect ==
  /\ upc = "idle"
  /\ ~connected
  /\ upc' = "opening"
  /\ UNCHANGED <<shared, uch, reopen, copy, rx>>

OpenFails ==
  /\ upc = "opening"
  /\ upc' = "idle"
  /\ UNCHANGED <<shared, uch, reopen, copy, rx>>

\* Mutant of OpenPort: the exit flag of the last Disconnect stays up.
OpenPortOnly ==
  /\ upc = "opening"
  /\ portOpen' = TRUE
  /\ connected' = TRUE
  /\ upc' = "spawning"
  /\ UNCHANGED <<exitFlag, ready, buf, uch, reopen, copy, rx>>

OpenPort ==
  /\ upc = "opening"
  /\ portOpen' = TRUE
  /\ connected' = TRUE
  /\ exitFlag' = FALSE
  /\ upc' = "spawning"
  /\ UNCHANGED <<ready, buf, uch, reopen, copy, rx>>

SpawnReader ==
  /\ upc = "spawning"
  /\ rpc' = "test"
  /\ upc' = "idle"
  /\ UNCHANGED <<shared, uch, reopen, copy, rch, item, frame>>

-----------------------------------------------------------------------------
(* The four Grab calls.  The blocking ones wait for the Event of their
   channel and do not test the count; the others start with the count. *)

BeginGrab(c) ==
  /\ upc = "idle"
  /\ uch' = c
  /\ upc' = "count"
  /\ UNCHANGED <<shared, reopen, copy, rx>>

BeginGrabBlocking(c) ==
  /\ upc = "idle"
  /\ uch' = c
  /\ upc' = "waiting"
  /\ UNCHANGED <<shared, reopen, copy, rx>>

\* pthread_cond_timedwait times out or fails: the call returns false.
WaitTimesOut ==
  /\ upc = "waiting"
  /\ upc' = "idle"
  /\ UNCHANGED <<shared, uch, reopen, copy, rx>>

\* Event::wait has no predicate to test: a spurious return counts as EVENT_OK.
WaitWakesSpuriously ==
  /\ upc = "waiting"
  /\ upc' = "flag"
  /\ UNCHANGED <<shared, uch, reopen, copy, rx>>

TestCount ==
  /\ upc = "count"
  /\ upc' = IF buf[uch]["tail"] = 0 THEN "idle" ELSE "flag"
  /\ UNCHANGED <<shared, uch, reopen, copy, rx>>

TestFlag ==
  /\ upc = "flag"
  /\ upc' = IF ready[uch] THEN "copyHead" ELSE "idle"
  /\ UNCHANGED <<shared, uch, reopen, copy, rx>>

CopyHead ==
  /\ upc = "copyHead"
  /\ copy' = [copy EXCEPT !["head"] = buf[uch]["head"]]
  /\ upc' = "copyTail"
  /\ UNCHANGED <<shared, uch, reopen, rx>>

CopyTail ==
  /\ upc = "copyTail"
  /\ copy' = [copy EXCEPT !["tail"] = buf[uch]["tail"]]
  /\ upc' = "taken"
  /\ UNCHANGED <<shared, uch, reopen, rx>>

\* Mutant of EndGrab: the flag is not lowered.
EndGrabFlagUp ==
  /\ upc = "taken"
  /\ copy' = NoScan
  /\ upc' = "idle"
  /\ UNCHANGED <<shared, uch, reopen, rx>>

\* ResetFullScanReady / ResetOneScanReady, then the call returns true.
EndGrab ==
  /\ upc = "taken"
  /\ ready' = [ready EXCEPT ![uch] = FALSE]
  /\ copy' = NoScan
  /\ upc' = "idle"
  /\ UNCHANGED <<connected, portOpen, exitFlag, buf, uch, reopen, rx>>

-----------------------------------------------------------------------------
(* Deactive, also as the first part of SetRotationSpeed, where it finds the
   lidar silent: it sets both counts to 0 and leaves the flags.  When that is
   so is the matter of module RunMode. *)

BeginClear ==
  /\ upc = "idle"
  /\ upc' = "clearFull"
  /\ UNCHANGED <<shared, uch, reopen, copy, rx>>

ClearFullCount ==
  /\ upc = "clearFull"
  /\ buf' = [buf EXCEPT !["full"]["tail"] = 0]
  /\ upc' = "clearOne"
  /\ UNCHANGED <<connected, portOpen, exitFlag, ready, uch, reopen, copy, rx>>

ClearOneCount ==
  /\ upc = "clearOne"
  /\ buf' = [buf EXCEPT !["one"]["tail"] = 0]
  /\ upc' = "idle"
  /\ UNCHANGED <<connected, portOpen, exitFlag, ready, uch, reopen, copy, rx>>

-----------------------------------------------------------------------------
(* The receive thread. *)

\* Mutant of RxTestExit: the loop never looks at the exit flag.
RxIgnoreExit ==
  /\ rpc = "test"
  /\ rpc' = "wait"
  /\ UNCHANGED <<shared, user, rch, item, frame>>

RxTestExit ==
  /\ rpc = "test"
  /\ rpc' = IF exitFlag THEN "done" ELSE "wait"
  /\ UNCHANGED <<shared, user, rch, item, frame>>

\* waitfordata: bytes arrived on an open port (they may have arrived just
\* before the port was closed), or 500 ms passed, or the port is closed.
RxWait ==
  /\ rpc = "wait"
  /\ rpc' \in {"read", "test"}
  /\ UNCHANGED <<shared, user, rch, item, frame>>

\* readData returns 0, or a number that is treated as positive (also -1).
RxRead ==
  /\ rpc = "read"
  /\ rpc' \in {"parse", "test"}
  /\ UNCHANGED <<shared, user, rch, item, frame>>

\* uart_data_handle finds no complete frame, or room for no more points.
RxParseEnds ==
  /\ rpc = "parse"
  /\ rpc' = "test"
  /\ UNCHANGED <<shared, user, rch, item, frame>>

\* A frame is decoded: its points go to one_scan_data_, which is announced
\* whatever its flag was.
RxFrame ==
  /\ rpc = "parse"
  /\ frame < MaxFrame
  /\ frame' = frame + 1
  /\ item' = frame + 1
  /\ rch' = "one"
  /\ rpc' = "head"
  /\ UNCHANGED <<shared, user>>

\* Mutant of RxWriteHead: the points are not copied, only their count is.
RxWriteNoPoints ==
  /\ rpc = "head"
  /\ rpc' = "tail"
  /\ UNCHANGED <<shared, user, rch, item, frame>>

RxWriteHead ==
  /\ rpc = "head"
  /\ buf' = IF item = 0 THEN buf ELSE [buf EXCEPT ![rch]["head"] = item]
  /\ rpc' = "tail"
  /\ UNCHANGED <<connected, portOpen, exitFlag, ready, user, rch, item, frame>>

RxWriteTail ==
  /\ rpc = "tail"
  /\ buf' = [buf EXCEPT ![rch]["tail"] = item]
  /\ rpc' = "announce"
  /\ UNCHANGED <<connected, portOpen, exitFlag, ready, user, rch, item, frame>>

RxAnnounce ==
  /\ rpc = "announce"
  /\ ready' = [ready EXCEPT ![rch] = TRUE]
  /\ rpc' = "signal"
  /\ UNCHANGED <<connected, portOpen, exitFlag, buf, user, rch, item, frame>>

\* The circle starts above 10 degrees: "not a full scan", not announced.
RxNotFull ==
  /\ rpc = "announce"
  /\ rch = "full"
  /\ rpc' = "parse"
  /\ UNCHANGED <<shared, user, rch, item, frame>>

\* Event::set wakes the application if it waits on this Event and is lost if
\* it does not.
RxSignal ==
  /\ rpc = "signal"
  /\ upc' = IF upc = "waiting" /\ uch = rch THEN "flag" ELSE upc
  /\ rpc' = IF rch = "one" THEN "circle" ELSE "parse"
  /\ UNCHANGED <<shared, uch, reopen, copy, rch, item, frame>>

\* No angle of the frame wraps.
RxSameCircle ==
  /\ rpc = "circle"
  /\ rpc' = "parse"
  /\ UNCHANGED <<shared, user, rch, item, frame>>

\* Mutant of RxCircle: the flag stays up while the buffer is overwritten.
RxCircleFlagUp ==
  /\ rpc = "circle"
  /\ item' \in {0, frame}
  /\ rch' = "full"
  /\ rpc' = "head"
  /\ UNCHANGED <<shared, user, frame>>

\* An angle wraps: full_scan_ready_ is lowered, then the circle is copied.
\* Item 0 is a circle of no points: nothing is copied, the count becomes 0.
RxCircle ==
  /\ rpc = "circle"
  /\ ready' = [ready EXCEPT !["full"] = FALSE]
  /\ item' \in {0, frame}
  /\ rch' = "full"
  /\ rpc' = "head"
  /\ UNCHANGED <<connected, portOpen, exitFlag, buf, user, frame>>

-----------------------------------------------------------------------------
Call == \/ \E b \in BOOLEAN : BeginDisconnect(b)
        \/ BeginConnect \/ BeginClear
        \/ \E c \in Channels : BeginGrab(c) \/ BeginGrabBlocking(c)

UserStep == \/ ClosePort \/ JoinReader \/ EndDisconnect
            \/ OpenFails \/ OpenPort \/ SpawnReader
            \/ WaitTimesOut \/ WaitWakesSpuriously
            \/ TestCount \/ TestFlag \/ CopyHead \/ CopyTail \/ EndGrab
            \/ ClearFullCount \/ ClearOneCount

RxStep == \/ RxTestExit \/ RxWait \/ RxRead \/ RxParseEnds \/ RxFrame
          \/ RxWriteHead \/ RxWriteTail \/ RxAnnounce \/ RxNotFull
          \/ RxSignal \/ RxSameCircle \/ RxCircle

Next == Call \/ UserStep \/ RxStep

Spec == Init /\ [][Next]_vars

\* Both threads are scheduled: a call that has begun goes on (its wait has a
\* timeout), and so does the receive loop (its wait is bounded by 500 ms).
\* Nothing makes the application call.
FairSpec == Spec /\ WF_vars(UserStep) /\ WF_vars(RxStep)

-----------------------------------------------------------------------------
(* Properties. *)

Types ==
  /\ connected \in BOOLEAN /\ portOpen \in BOOLEAN /\ exitFlag \in BOOLEAN
  /\ ready \in [Channels -> BOOLEAN]
  /\ buf \in [Channels -> [Parts -> Scans]]
  /\ upc \in UserPC /\ uch \in Channels /\ reopen \in BOOLEAN
  /\ copy \in [Parts -> Scans]
  /\ rpc \in RxPC /\ rch \in Channels /\ item \in Scans /\ frame \in Scans

\* Every variable keeps its type, and a scan buffer whose count is not 0 has
\* had points copied into it, whatever Deactive's unlocked resets of the counts
\* come between: before the first Disconnect the ready flags are uninitialised,
\* and the count is all that keeps GrabFullScan and GrabOneScan from returning
\* the zeroed struct.
TypeOK ==
  /\ Types
  /\ \A c \in Channels : buf[c]["tail"] # 0 => buf[c]["head"] # 0

\* Between two calls, is_connected_, the open port and a running receive
\* thread go together, and a thread that runs has not been told to end: the
\* thread of a Connect is not stopped by the Disconnect before it, and no
\* thread outlives its Disconnect.
SessionOwnsReader ==
  upc = "idle" => /\ (connected <=> portOpen)
                  /\ (connected <=> rpc # "none")
                  /\ connected => ~exitFlag /\ rpc # "done"

\* Once a scan was received, a driver that is not connected announces none:
\* a Grab after Disconnect returns false, also if frames were being decoded
\* when Disconnect was called.  (Before the first Disconnect the flags are
\* whatever the memory held; the count of 0 is what guards GrabFullScan then.)
NoScanAfterDisconnect ==
  upc = "idle" /\ ~connected =>
    \A c \in Channels : ready[c] => buf[c] = NoScan

\* A circle that is announced and has points is in full_scan_data_ whole: its
\* points and its count come from the same wrap, and no write is under way.
AnnouncedCircleIsWhole ==
  ready["full"] /\ buf["full"]["tail"] # 0 =>
    /\ buf["full"]["head"] = buf["full"]["tail"]
    /\ ~(rch = "full" /\ rpc \in {"head", "tail"})

\* The header says of all four Grab calls that the scan has all its points:
\* what the caller's copy holds was one scan.
GrabbedScanIsWhole ==
  upc = "taken" => copy["head"] = copy["tail"]

\* A Grab call has passed the test of the flag and will return true.
Granted == upc \in {"copyHead", "copyTail", "taken"}

\* The scans still to be had: from the test of the flag on, what the flag says
\* is the scan being grabbed, and a scan announced meanwhile is lost.
Offered == {c \in Channels : ready[c] /\ ~(Granted /\ uch = c)}

Abstract == INSTANCE ScanSession WITH
  open <- connected,
  offered <- Offered,
  grabbing <- IF Granted THEN {uch} ELSE {}

\* The driver keeps the promise of module ScanSession: no scan is announced
\* without a connection, no announcement is grabbed twice although the flag is
\* lowered only after the copy, and Disconnect withdraws every announcement.
ImplementsSession == Abstract!Spec

\* Every call returns: Disconnect's join ends because the receive thread sees
\* the exit flag, and the blocking Grab calls because their wait is bounded.
CallReturns == upc # "idle" ~> upc = "idle"
=============================================================================
