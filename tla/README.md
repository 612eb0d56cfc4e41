# Verification of CQUT-LGV in TLA+

CQUT-LGV is the software of a laser-guided vehicle: ROS packages for the
chassis, an IMU and an Oradar MS200 lidar, and configuration for simulation,
SLAM and navigation.  Most of its own logic is the lidar driver (`oradar_ros`):
a C++ SDK with a receive thread, a serial port and sockets, and the ROS node
that publishes its scans.  This directory models that driver from the port and
its lock files up to the published message, and the chassis and IMU nodes; it
checks the models with TLC, and proves with TLAPS, for every size and number of
things, each safety property that the passing runs check on small instances.

Paths below are relative to `src/`; `sdk/` stands for `oradar_ros/sdk/`, and
`driver.cpp` for `sdk/src/ord_lidar_driver.cpp`, `unix/` for
`sdk/core/serial/impl/unix/`.

## 1. Inventory

| Part | Source | State it keeps | Operations | Modelled in |
|---|---|---|---|---|
| Driver session | `driver.cpp:37-98, 492-514, 714-787` | `is_connected_`, exit flag, thread, two ready flags, two scan buffers, two Events | Connect, Disconnect, GrabFullScan, GrabOneScan and their blocking forms | `LidarDriver` |
| Receive thread | `driver.cpp:366-402` | the thread's position | wait 500 ms for data, read, parse, announce | `LidarDriver` |
| Event | `sdk/core/base/locker.h:189-330` | condition variable without predicate | set, wait | `LidarDriver` |
| Frame parser | `driver.cpp:205-274, 339-364` | `bin_buf_`, `head_flag` | uart_data_handle: find, check and consume frames | `FrameParser` |
| Scan assembler | `driver.cpp:275-337, 404-434` | `temp_data`, `last_angle`, `full_scan_data_` | append points, cut circles at wraps, announce | `ScanAssembler` |
| Run mode | `driver.cpp:526-597, 626-712` | `valid_data_`, `parsed_data_.speed` | Activate, Deactive, SetRotationSpeed | `RunMode` |
| Start-up information | `driver.cpp:105-203, 599-624` | `cmd_buf_`, static `head_flag`, versions, serial number | find_init_info, GetFirmwareVersion, GetDeviceSN | `InitInfo` |
| Serial port | `sdk/core/serial/serial.cpp`, `unix/unix_serial.cpp` | descriptor, `is_open_`, settings, read and write mutex | open, close, setPort, setters, waitfordata, read, readline, write, flush, modem lines | `SerialPort` |
| Lock files | `unix/lock.c` | files in the lock directory, `pid` | lock, unlock, staleness test | `LockFile` |
| Sockets | `sdk/core/network/` | descriptor, `m_open`, options, last error | open, read, write, wait, close, listen, accept, options | `SimpleSocket`; the driver never constructs one |
| Scan node | `oradar_ros/src/oradar_scan_node.cpp` | the grabbed scan, the LaserScan | connect loop, grab loop, publish_msg | `ScanNode` |
| Chassis node | `lgv_controller/src/lgv_controller_node.cpp` | read buffer, odometry | velocity out, odometry in | `LgvController` |
| IMU node | `wit_ros_imu/scripts/wit_normal_ros.py` | 11-byte window, last readings | handleSerialData, main | `WitImu` |
| Filters | `sdk/src/filters/FullScanFilter.cpp` | none | smooth, bilateral, tail, intensity | not modelled |
| C API, samples, Windows port, timers | `sdk/src/ord_lidar_c_api_driver.cpp` ... | none of interest | wrappers, clients, another platform | not modelled |
| Launch, URDF, maps, parameters | `lgv_*` | none | configuration | not modelled |

**How the parts interact.**  The application (the scan node, or a sample) calls
the driver from one thread.  `Connect` opens the port and starts the receive
thread; the two then share plain members of the object.  A lock was meant to
guard them and is commented out (`ord_lidar_driver.h:109`, `driver.cpp:84, 724,
745`).  The receive thread passes each read to the parser, the parser hands
each frame to the assembler, the assembler writes the buffers, raises the flags
and sets the Events.  `Disconnect` raises an atomic exit flag, closes the port
under the thread, joins it, and lowers the flags.  The motor commands go out
through the port; the lidar answers nothing the driver reads, so the driver
infers the lidar's mode from whether bytes arrive (`valid_data_`).  The port is
one `Serial` object that both threads use: it has a read and a write mutex, which
`close` does not take.  A port built with `USE_LOCK_FILE` meets the ports of
other programs in the lock directory.  The scan node calls the driver in a loop
and turns a scan into a message.  The chassis and IMU nodes each read a serial
line of their own and share nothing with the lidar.

**What is hard.**  Two threads without a lock; a condition variable that
forgets signals; a byte stream cut anywhere, with headers inside payloads;
circles cut where an angle falls, with frames missing; commands that get lost;
members and statics that outlive a session; a port closed under its reader; lock
files tested, removed and made in separate system calls by processes that die;
an `errno` read after calls that do not set it.  `PROJECT.json` lists each hazard
with its line, and the properties that cover it or the reason none does: where a
property exempts what happens there, the hazard names no property and says so.

**What makes each part correct.**

* Session: after each call, connection, open port and one running thread go
  together; nothing is announced after Disconnect; an announced scan is one
  scan, whole; every call returns.
* Parser: an intact frame is delivered exactly once, and the buffer is bounded.
* Assembler: points are neither lost nor repeated; an announced circle is one
  turn of the device, from near 0 degrees, with points in it.
* Run mode: a call that reports success reports the truth about the lidar, and
  every call returns.
* Start-up parser: what the device said is learnt, and no packet is lost.
* Serial port: descriptors match the system's, reported settings what the line
  does; `setPort` does not close a port under a transfer; no deadlock of the locks;
  calls return.
* Lock files: one live holder per device; what is left behind gets removed.
* Sockets: descriptors are accounted for; data is neither lost, repeated nor
  written outside the buffer; calls return.
* Scan node: each cell of the message shows the nearest reading of its direction
  (which the code keeps only while the angles do not fall, see section 3).
* Chassis and IMU nodes: a whole packet is published as it was sent; a lost byte
  costs a bounded number of packets.

## 2. Modules

### LidarDriver

Two processes, each a program counter (`upc` for the application, `rpc` for the
receive thread).  Each action is one access to shared memory, in the code's
order.

| Code | Actions |
|---|---|
| `Disconnect`: exit flag, `closePort`, `join`, resets | BeginDisconnect, ClosePort, JoinReader, EndDisconnect |
| `Connect`: Disconnect if connected, open, flags, thread | BeginDisconnect(TRUE), BeginConnect, OpenFails, OpenPort, SpawnReader |
| `Grab...`: Event or count, flag, copy, reset | BeginGrab, BeginGrabBlocking, WaitTimesOut, WaitWakesSpuriously, TestCount, TestFlag, CopyHead, CopyTail, EndGrab |
| `Deactive`, where it finds silence: both counts | BeginClear, ClearFullCount, ClearOneCount |
| `mRxThreadProc` | RxTestExit, RxWait, RxRead |
| `uart_data_handle` | RxParseEnds, RxFrame, RxSameCircle, RxCircle, RxWriteHead, RxWriteTail, RxAnnounce, RxNotFull |
| `Event::set`, `Event::wait` | RxSignal, WaitTimesOut, WaitWakesSpuriously |

A scan is the number of the frame that completed it.  A buffer has two parts, a
head (the leading points) and a tail (the remaining points, count and speed):
two is the least number of parts in which a copy can differ from every scan.
The flags start with any value, as the constructor leaves them uninitialised.
An empty circle (scan 0) leaves the points and zeroes the count, as a `memcpy`
of 0 bytes does.  `Connect` and `Disconnect` each store `is_connected_` and
other members in one step where only the application's thread reads them.

### ScanSession

The promise behind the session, with no threads and no buffers: which channels
have a scan on offer, and which Grab call has taken one.  `LidarDriver`
implements it (`ImplementsSession`): a scan counts as taken when the flag has
been tested, so an announcement made while a Grab copies is lost, as in the
code, and never taken twice.

### FrameParser

Bytes are positions in a stream that is fixed at the start: a set of positions
where the two header bytes stand, and a set of those where an intact frame
begins.  `bin_buf_` is an interval of positions.  `Receive(n)` is the push and
the two early returns; `Search` is the header search and the removal of what it
skipped, including the outer loop's test on the previous round's `pos`;
`SearchEnds` is that test failing; `Accept` and `Reject` are the two branches of
the CRC test.  `head` is `parsed_data_.head_flag`, kept over calls.

Abstractions: the CRC is perfect (8 bits in the code: a damaged frame is taken
for an intact one in 1 of 256 cases); a read returns at most `MaxRead` bytes
(the 1024 of `readbuf`).

### ScanAssembler

A point is its angle in whole units of which a circle has `Circle`; distances
do not affect control.  `Angle` is `point_data_parse_frame_ms200` with its
truncating division and its test against 360.  A decoded frame is one step with
three outcomes, `SameCircle`, `CloseCircle`, `Overflow`; `Taken` is the
application lowering the flag.  `got` and `done` are history variables.  The
device's end angle is below 36000, and a frame spans less than a circle less
the 11 degrees of the two thresholds (a real frame spans about 10 degrees).
The `memcpy` that moves the rest of a frame to the front of `temp_data`
(`driver.cpp:317`) may have overlapping ranges, which C++ leaves undefined; `Rest`
gives it the outcome of `memmove`, as in the usual C libraries.

### RunMode

The application's position in `Activate`, `Deactive` or `SetRotationSpeed`
(the latter calls the other two), `valid_data_`, the commands on the wire, and
the lidar, which is external: it carries out each command or misses it.  `Look`
is one round of the receive thread.  A polling delay of 1 s spans a full round
(at most 500 ms) and is time enough for the lidar to settle a command
(`Settled`); the 200 ms of Connect and the 400 ms before a command are not.
`Disconnect` closes the port under the thread, whose last wait may then end as
data or as silence (`Joined`), so that `valid_data_` keeps its value or is lowered.
While the port is closed another program may change the lidar's mode.  `Write`
keeps the code's treatment of a closed port: 0 bytes written is no error.

### SerialPort

The owner (it opens, closes, moves and configures the port) and threads that only
transfer.  A call passes its scoped locks (`Path`), the test of `is_open_`, and
the system call, each a step; `close` takes no lock and runs in between.

| Code | Actions |
|---|---|
| `Serial::open`, `SerialImpl::open`, `reconfigurePort` | OpenStart, OpenDescriptor, OpenConfigure, OpenDone |
| `SerialImpl::close`, destructor | CloseFlag, CloseDescriptor, CloseForget |
| `Serial::setPort` | AcquireRead, AcquireWrite, MovePort, then close and open, ReleaseRead |
| `read`, `readline`, `readlines`, `write` | CheckOpen, ReadSys, ReadByte, WriteSys |
| `waitfordata`, `waitReadable` | WaitStart, WaitSet, WaitLoop, WaitSelect, WaitReady, WaitReadable |
| `flush`, `flushInput`, `flushOutput` | FlushBody, and for `tcdrain` Drained, DrainInterrupted |
| setters, modem lines | SetBaudrate, SetLine, SetModemLine, GetModemLine, WaitForChange |
| the line | Arrive, Transmit, Hold, LetGo, ModemChange |

`tty` is what the line does, `cfg` what the getters return; the two are compared as
they are, and the code lets them differ.  `set_parity` never clears `CMSPAR`; for a
rate without a constant, `setCustomBaudRate` on a line whose driver has no `termios2`
(`tty.termios2`, either at the start), or after a failed `TCSETS2`, ends in
`setStandardBaudRate(B38400)`, which undoes the divisor it set, and still returns
true (`SpeedSet`); `set_stopbits` makes one stop bit of one and a half; a setter
stores its value before the call that may fail (`unapplied`).

`flush` waits in `tcdrain` with the read and the write lock held (place "drain") until
the output queue is sent, for as long as the peer's flow control holds the line
(`output.held`); a close meanwhile does not end it, a signal does.  After a close,
`waitfordata` gives `fd_` = -1 to `FD_SET`, `pselect` and `FD_ISSET`, which is
undefined: `WaitSelect` and `WaitReady` allow an error, a timeout and data.  (A
build with `_FORTIFY_SOURCE` ends the program instead, which is not modelled.)
The values of `setTimeout` are not used by `read` and `write` and are left out.
`waitForChange` does not test `is_open_`.

### LockFile

A client is a port object built with `USE_LOCK_FILE`; several processes, one a
child of another.  Each system call on the lock file is a step: CheckStatus
(`check_lock_status`, `check_group_uucp`), StatLock, ReadPid, KillTest, UnlinkStale
(`is_device_locked`), CreateLock or, in `uucp_lock`, its extra `stat` and
CreateProbed, WritePid, OpenDevice; and on the way back Close, CheckPid
(`check_lock_pid`) and RemoveLock.  `Crash` ends a process with all its clients.
A file has its creator and the pid in it, or `Empty` between creation and write;
what `sscanf` leaves of an empty file is uninitialised, so `FoundDead` and `Ours`
allow any outcome there.  `robbed` is a history variable.  Another program's lock
file in some other directory comes and goes as it likes (`ForeignComesOrGoes`).

The model follows the code where it surprises: `is_device_locked` answers 0 for
the lock of a living process, so that only `O_EXCL` stops the client; `open` sets
`pid` before `LOCK`, so the destructor of an object whose `LOCK` failed calls
`UNLOCK`, which removes the lock of another object of the same process, or of its
parent.  The descriptor of the trial file that `check_group_uucp` never closes is
left out.

### SimpleSocket

One object, active or passive, TCP or UDP, used by one thread; a datagram is one
byte.  `BindPort`, `OpenPort` with Connect and Select, `Read` with Receive and
ReceiveLate, `Write` with Send and SendLate, `WaitForData` with Wait, `StartAccept`
with Accept, and the setters.  `TimePasses`, `Peer` and interruptions act between
the steps.  `errno` is a variable of its own, because the loops read it after
calls that succeed; `harm` is a history variable of what that did: a short
`recv` after one that timed out is discarded, an interrupted one moves the
write position to the byte before the buffer, an interrupted `send` is
repeated (of UDP for ever), an interrupted `select` in `open` counts as connected.

Other things the code does and the model with it: `open` on an open TCP socket
closes it; options set by `bindport` reach no socket, so Nagle's algorithm is never
disabled; `readSize` sends instead of reading; `Shutdown` ignores its argument; a
failed `Listen` leaves `m_open` true, and so does `Close`.  `SendFile`, the
vector `Send`, the internal receive buffer and the addresses are left out.

### InitInfo, ScanNode, LgvController, WitImu, composed in Nodes

Each handles one stream.  `Nodes` takes the four together and runs one of them,
chosen at the start (`part`), since they share no state; the others stay in an
initial state.

* `InitInfo`: `uart_data_find_init_info` byte by byte, with the static `head_flag`
  (`head`); `GetFirmwareVersion` and `GetDeviceSN` raise the flag that sends the
  receive thread's bytes there (`asked`, lowered at the start).  `Searched` is the header search over `cmd_buf_`, `Parsed` the nested packets.  The command
  0x03 leaves the flag up, so the next search does not look for a header
  ("blind"): scan data may be taken for a packet, and a wrong serial number is
  reachable.  Data that holds AA 55 clears the buffer ("misled").
* `ScanNode`: `publish_msg` (`AddPoint`, `Ranges`, `PublishMsg`) and `main`'s loops
  (Connect, SetRotationSpeed, Grab, Publish, NextTurn).  A turn has `Turn` units.
  A point out of the limits counts as 0; a point at the end of the circle falls
  outside the last cell; the index of a direction below `angle_min` is a negative
  float cast to an unsigned integer, whose value depends on the processor
  (`saturates`); gaps are filled from a neighbour, and the cell that is filled is
  overwritten whatever it holds (`PaintedOver`); a circle whose last point is at the
  angle of its first, or that has none, has no increment (`Undefined`).  `Circles` are
  those the assembler announces (`AnnouncedCircleIsOneTurn`): they start near 0 and
  may fall by up to the margin from point to point, so that even the increment may
  be negative; torn copies (finding 1) are left out.  The result of `SetRotationSpeed` is ignored.
* `LgvController`: `serial_callback` and `main`.  Velocities wrap at `Half`
  (`Int16`).  A read of what is available overwrites the buffer from its start, so
  that a cut packet is parsed with the bytes of an earlier read (or, at first,
  uninitialised ones), and what follows the first packet of a read is dropped.
  More than `BufLen` bytes overrun `r_buffer`, which ends the model's run.
* `WitImu`: `handleSerialData` with the checksum computed modulo `Mod`.  A window of
  11 bytes whose sum is wrong is dropped whole.  Bytes may get lost, and the node
  may join in the middle.

## 3. Runs

| Run | Bounds | Shows |
|---|---|---|
| `driver` | 3 frames | the session's properties, safety, refinement and liveness |
| `driver_torn` | 2 frames | *violated*: a grabbed scan may mix two |
| `parser` | frames of 4 bytes, reads up to 5, limit 10, streams of 12 | every stream and every cut: nothing lost, buffer bounded, calls end |
| `assembler` | 8 units, 3 points per frame, room for 7 points, 5 frames | conservation, one turn, cuts at wraps |
| `assembler_empty` | the same, 4 frames | *violated*: a circle of no points is announced |
| `run_mode` | 2 polls, 2 commands on the wire, requests 3, 10, 20 | what calls report is true, calls return |
| `run_mode_stale` | the same | *violated*: Activate trusts the session before |
| `serial_port` | 2 threads, 1 descriptor, 1 byte pending, requests of 1 and 2 bytes, 1 failing call, with and without `termios2` and flow control | descriptors, settings, locks, calls return |
| `serial_read_error` | 2 threads, 2 descriptors, 2 bytes pending, no failing call, no flow control | *violated*: a read returns (size_t)-1 |
| `lock_file` | 3 clients in 3 processes, 1 crash, 1 failing call, both styles | exclusion, the ways to lose a lock, stale files go |
| `sockets` | 2 descriptors, 2 bytes, 1 interruption, 1 failure, all 4 kinds | descriptors, what a stale `errno` does, calls return |
| `nodes` | see below | the four stream handlers |

**Why the bounds are enough.**  Three frames let the receive thread overwrite
each buffer twice within one Grab and over a reconnection; reconnections are
not bounded.  Twelve bytes hold three adjacent frames of four, or two with
noise, a false header inside a frame, and a cut frame; the limit of two
reads is reached exactly where the assumption `2 * MaxRead <= MaxBuf` says.
Room for two frames of three points makes overflows frequent; spans up to half
a circle put wraps between, inside, and twice at one frame.  Five frames fill a
circle, overflow, and start again.  Two polls distinguish a success at the
first, at the last, and none.

`serial_port`: one thread that closes and one that transfers are the driver's two;
one descriptor is what the object ever holds: the kernel gives the least free one,
so a reopened port gets the number that a waiting thread still holds, and that
thread cannot notice (that other files of the process took the number in between
is not exercised); one pending byte and a request of two bytes can be met in part.  The rate is
one without a constant, so that both its outcomes happen, the stop bits one and one
and a half, the flow control none and hardware, switched while a flush waits.  Parity
stays none in the run; what `CMSPAR` does is in the proof.  `lock_file`: three clients let two race
for the file of a third, and the child of the first is taken for the first by
`check_lock_pid`; one crash makes one stale file, which two can find.  `sockets`:
two bytes make partial transfers, one interruption is enough for each `harm`, and
since `errno` stays set it acts on every later call.

`nodes`: the start-up parser gets three messages, at most four unread bytes of
noise or packets, cut anywhere.  The lidar's node gets circles of up to five
points in a turn of six units, which may fall by one unit from point to point, at a
distance within and one out of the limits: two points share a cell, cells stay empty,
points fall at both ends and outside a half circle, the increment is negative,
and a gap fill overwrites a nearer range, for which five points is the least number.  The chassis node gets two packets of four
bytes and has a buffer of six, so that a read holds less than a packet, one, or
more than the buffer; velocities of -9 and 3 are beyond and within the width.  The
IMU sends two turns of packets, whose payloads hold the header byte, followed by a
known type or not, or do not hold it, and two bytes may get lost.

**Deadlock** is checked in all runs but the assembler's, which really stops
when its frames are used up, and `nodes`, where the stream of a node may end and
its program with it (an exception nobody catches, a lost connection).

**Fairness.**  `LidarDriver`: weak fairness of each thread's own steps; the
operating system schedules both, the blocking wait of a Grab has a timeout
(`WaitTimesOut`) and so has the wait of the receive thread.  Nothing forces the
application to make a call.  The bound on frames does not stop the loop: the
thread can always find no frame.  `FrameParser`: the thread runs a call of
`uart_data_handle` to its end.  `RunMode`: the call goes on, the receive thread
runs, and a command on the wire is settled one way or the other.  `SerialPort`:
a thread in a call is scheduled; no byte has to arrive, no modem line has to
change, no signal has to come, so `waitForChange` may block, and the promise is for
calls that have their locks.  A line that is not held sends; no peer has to let it
go, so a `flush` may wait for ever, with every call that needs one of its locks: the
promise ends where a flush waits for a peer.  `LockFile`: living clients go on with their
call and try again, as the scan node's loop does; no client has to close, and no
other program's lock has to go: `StaleLockCleared` says what happens if there comes
a time from which there is none.  `SimpleSocket`: the thread runs
and time passes; the peer does nothing it does not want to.

**Divergences the passing runs state as exceptions**: the property names the case and
the run shows that it happens and that nothing else does.

* *Getters* (`ReportedSettingsInForce`).  `serial.h:518-526` calls what `getBaudrate`
  returns the rate of the port; `unix/unix_serial.cpp:1331` may have left the line at
  38400.  `serial.h:563-578` offers one and a half stop bits, `unix_serial.cpp:370-372`
  sets one.
* *Flush* (`CallReturns`).  `unix_serial.cpp:1435` waits for the peer with both locks
  held, so that a read, a write or `setPort` waits with it.
* *Foreign locks* (`StaleLockCleared`).  `unix/lock.c:647-648` says that a stale lock file
  is removed; `:707-728` returns "locked" for a file in another directory without a test
  for a living owner.  The empty file that a crash leaves between `:232` and `:243`
  is not what the property calls stale: whether it goes depends on uninitialised bytes.
* *Gap fill* (`CellsShowNearest`).  The comment at `oradar_scan_node.cpp:92-94` says that a
  range is assigned again only if it is nearer; `:84-87` overwrite the cell before
  without looking.  Where the angles fall (up to a degree, `driver.cpp:299`), with
  points at cells 100.1, 99.95 and 101.05, the last one's range replaces the first's.

**Findings** (the four violation runs):

1. *Torn scans.*  `driver.cpp:727, 749, 769, 784` copy a buffer that
   `driver.cpp:289-291, 302-304` may be writing.  The header promises a scan
   with all its points.  Lowering the flag first (`:301`) keeps the scan whole
   in the driver (`AnnouncedCircleIsWhole`, proved) but not in the copy.
2. *A circle of no points.*  `driver.cpp:296-313` announces what a wrap at the
   first point of a frame cuts off, also if that is nothing.
3. *Stale `valid_data_`.*  After a reconnection `Activate` (`driver.cpp:632`)
   may return true without a command to a lidar in standby.
4. *A read of 2^64-1 bytes.*  `unix/unix_serial.cpp:985` returns the -1 of `read`
   as a `size_t`.  The receive thread gets it when `Disconnect` closes the port
   between the test of `is_open_` and the system call, and gives it to the parser
   as a length.

## 4. Proofs

`LidarDriverProofs` proves, for every `MaxFrame`: `TypeCorrect`,
`SessionSafety` (`SessionOwnsReader`), `QuietAfterDisconnect`
(`NoScanAfterDisconnect`), `AnnouncedWhole` (`AnnouncedCircleIsWhole`) and
`Refinement` (`ImplementsSession`: each step of the two threads is a step of
`ScanSession` or leaves its variables alone).  None of the invariants is
inductive.  `IInv` adds what the calls rely on between
their steps: `Session` says for each point of Connect and Disconnect which of
port, flag and thread are up (after the join there is no thread, so nobody
raises what `EndDisconnect` lowers); `Quiet` carries the lowered flags to the
next successful Connect; `CircleWrite` says that from the wrap to the
announcement the flag is down, and what has been written.  Each part is
preserved by a lemma of its own with one step per action.  `TypeCorrect` says besides
the types that a buffer with a count of points has the scan's leading points too;
`Backed` follows the two writes for it.

`FrameParserProofs` proves `TypeCorrect`, `NoFrameLost` (`NoIntactFrameLost`)
and `BufferBounded` (`BacklogBounded`) for every frame length above 3, every
limit of at least two reads, every stream and every cut.  The strengthening
says that a remembered header stands at the front of the buffer, that every
position searched lies after the last frame delivered, that a call that ends
early leaves less than a frame behind the front, and how `pos` bounds what the
outer loop's stale test can leave.

`LockFileProofs` proves, for any number of clients and processes, crashes and
failing calls: `TypeCorrect`, `Exclusive` (`ExclusiveUntilRobbed`), `Leftover`
(`LeftoverReleasable`) and `LostOnlyInWindow` (`LockLostOnlyInWindow`).  Exclusion
alone is not inductive: `CreatorHasLock` says that from the creation of its file
on a living client has the name, and `O_EXCL` does the rest.  `SeenFiles` says that
what a client has read was written by its creator, and is still dead or still its
own when it is about to be removed; the window theorem follows from it in every
state.  `Registered` says that `pid` is set during every call, so that a `LOCK` that
fails leaves it set.  Each part is preserved by a lemma with one step per action.

`ScanAssemblerProofs` proves `TypeCorrect`, `Conserved` (`PointsConserved`),
`OneTurnAnnounced` (`AnnouncedCircleIsOneTurn`) and `CutAtWraps` (`CirclesEndAtWraps`)
for every size of circle, frame and buffer.  The heart is arithmetic about one frame:
its angles fall at most once, and only if it starts late in the circle
(`FrameShape`, from the truncating division of `Angle`).  The invariant `Turns` then
says of the points collected so far what the announced circle promises, and how
`lastAngle` relates to their last one; a frame is split at its wrap
(`FrameParts`) and the parts are joined to what was there (`JoinTurn`).

`RunModeProofs` proves `TypeCorrect`, `ActivateIsTruthful` (`ActivateTruthful`),
`DeactiveIsTruthful` (`DeactiveTruthful`) and `SpeedIsTruthful` (`SpeedTruthful`) for
every set of requests and every number of polls above one.  A reported success
rests on `valid_data_`, so the invariant says when that is out of date: `Silence`
and `Frames`, only in the loop that waits for the change, and there only until the
receive thread has looked at a lidar with no command in flight.  `Pending` says
that no command is in flight after the first poll.  With one
poll a loop can end before that, which is why the number is assumed to be above
one; the code's is 10.
`Restart` carries the lidar's mode and speed through the calls inside
`SetRotationSpeed`.

`SerialPortProofs` proves, for any threads, calls and settings: `TypeCorrect`,
`DescriptorsAccounted` (`DescriptorAccounted`), `NoLockDeadlock` (`NoLockCycle`),
`SettingsInForce` (`ReportedSettingsInForce`, with its exceptions) and `SetPortWaits`
(`SetPortSparesTransfers`).  `Places` says which call may be where, `Held` which
locks it has there, in both directions: the two lock theorems follow from it
in every state.  `Descriptors` follows the owner through open, close and `setPort`,
where the object and the system disagree for a step or two; `Settings` says that
the line is as the configured values make it from the end of `reconfigurePort` on, and
which values make it something else.

`SimpleSocketProofs` proves, for any queue, request, signals and failures:
`TypeCorrect`, `DescriptorsAccounted` (`DescriptorAccounted`), `HarmNeedsStale`
(`HarmNeedsStaleErrno`) and `PromisedReadsComplete` (`PromisedReadComplete`).
`Rounds` says why little can go wrong: a loop of Receive or Send comes
round again only after `EINTR`, and nothing else sets `errno` while it runs.
`Promises` says that the bytes `waitfordata` found stay until they are read; `Apart`
that the object's descriptor is none of the accepted ones.

`NodeProofs` proves of `Nodes`, for every size of packet, buffer and circle and
any number of messages, turns and lost bytes: `NodesTyped` (`NodesTypeOK`),
`Learnt` (`LearntUnlessBlind`), `CellsNearest` (`CellsShowNearest`), `RisingCirclesNearest`,
`FirstWholePacket` (`PublishesFirstWholePacket`) and `LossIsBounded`
(`LossCostsTwoPackets`).  Each part has an invariant of its own.

* Start-up parser: types are all the invariant it needs; the argument is about one
  step.  No packet begins within the bytes that the header search drops
  (`SearchedFacts`), nor within a packet that is handled, since AA stands only at
  a packet's front (`Shape`, `HandledFacts`); and a packet that begins in what is
  left is kept, whole or in part (`KeptFacts`).
* Lidar's node: over the points of a circle, `Nearest` and `Measured` are what the
  property says of the ranges so far, and `LastSeen` says whose cell `last_index` is.
  The hard case is the gap: a point in the cell that is filled is painted over
  (`FillPaintsOver`).  `RisingCirclesNearest` adds that no point of a circle whose
  angles never fall is (`RisingNotPainted`), because offsets then rise or fall with the
  angles, so that the exception needs a fall.
* Chassis node: `Stream` says that what is on the line, and any read of it, are bytes
  in the order sent, so that the first FF FF is a header or one of the false ones the
  property names.
* IMU node: an accounting.  `Budget` bounds the packets missed and the `Debt` of a
  window that is open but behind, by two for each loss; `Sending` says that a
  clean packet looks like a header only at its front.

The library's induction theorems are out of the provers' reach, but two lemmas of
this module take their place where the range is bounded: `Induction`, which speaks
of the set of right numbers instead of a predicate, from the well-foundedness of
`<`; and `Recursion`, that a function defined by its previous value exists, which
is what `Passes` and `SumOf` need in order to mean something.

**Assumptions**: those named in the modules (`MaxFrameAssumption`;
`FrameLenAssumption`, `ReadAssumption`, `StreamLenAssumption`; `CircleAssumption`;
`RunModeAssumption`; `SerialAssumption`, `SizesAssumption`; `SocketAssumption`; `LockAssumption`;
`InfoAssumption`, `ScanAssumption`, `LgvAssumption` and `ImuAssumption`), which TLC
evaluates in the runs.  The code's values (frames of 47 bytes, reads of 1024, a backlog of 4700
bytes, 10 polls, packets of 20 bytes into 32) satisfy them.  Most only fix types.  Those that say more: a circle
is longer than a frame's span and the two thresholds (`CircleAssumption`); the
settings are those `serial.h` names, and only the owner opens and closes
(`SerialAssumption`); no caller asks for as many as 2^64-1 bytes (`SizesAssumption`).

**What the proofs found in the models**: that of the socket cut off what
a damaged `Receive` has taken at a bound from which `HarmNeedsStaleErrno` is false when
the queue is longer than the largest request, a case the run does not have; the bound
is now the request itself.  A conjunct of RunMode's `TypeOK` said less than it seemed to,
for lack of parentheses.

**Only model-checked**: the liveness properties, since fairness and ENABLED are out
of the prover's reach: `CallReturns` of the driver, the port and the sockets, `CallEnds`
of the parser, `CommandReturns` of the run mode and `StaleLockCleared` of the lock
files.  The four violations are TLC's counterexamples.

## 5. Plan

What is left: reconnection in `FrameParser` and `ScanAssembler`, that is which session
a leftover point belongs to.

## 6. Not modelled, and why

* Wording, logging, the ROS message plumbing, the times and intensities of a
  message, the units of the IMU's readings, and floating-point detail (angles are
  whole units).
* `FullScanFilter`: pure functions of one scan that the driver does not call.
  Smoothing, tail and bilateral filter are floating-point geometry, which a model
  in whole numbers would not follow.
* The C API, whose functions forward to the driver, and the samples, which call it.
* The Windows port, and of `lock.c` `lfs_lock`, `lockdev` and the empty lock functions:
  alternatives to what is modelled.
* Launch files, maps, URDF and parameters, which hold no behaviour.
* A cell's intensity, which is that of the last point in it, whether or not that point's
  range was kept (`oradar_scan_node.cpp:99`).
* The scan node's view of a torn copy (finding 1), whose angles may fall anywhere.
* A `memcpy` with overlapping ranges (`driver.cpp:317`) as anything but a `memmove`, and
  the abort of a build with `_FORTIFY_SOURCE` at `FD_SET(-1)`.
* A read of more than the 1024 bytes of `readbuf` (`driver.cpp:379`) is undefined
  behaviour; `FrameParser`'s assumption leaves it out, and it is listed as a hazard.
* Data races are interleavings of the accesses in program order; what a compiler
  may do beyond that to plain flags is not modelled.
* The driver is composed with an abstract port (a test, a wait, a read), not with
  `SerialPort`; the two modules agree on when a wait or read ends.

## 7. Running

    tlc -workers 2 -config MCLidarDriver.cfg MCLidarDriver.tla
    tlapm LidarDriverProofs.tla

and in the same way for the other `MC*.cfg` and `*Proofs.tla` files.
