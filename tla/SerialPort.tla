------------------------------ MODULE SerialPort ------------------------------
(***************************************************************************)
(* core::serial::Serial on a POSIX system: one port object shared by the   *)
(* thread that owns it (it opens, closes, moves and configures the port)   *)
(* and by threads that only transfer (the driver's receive thread).        *)
(*                                                                         *)
(* A call is a sequence of steps of its thread: the two scoped locks, the  *)
(* test of is_open_, the system call.  close() takes no lock, so it runs   *)
(* between any two steps of the others.  This is the build without         *)
(* USE_LOCK_FILE (the default); module LockFile has the lock files.        *)
(***************************************************************************)
EXTENDS Integers, Sequences, FiniteSets, FiniteSetsExt

CONSTANTS
  Threads, Owner,      \* the callers, and the one that opens and closes
  Calls,               \* the operations each thread uses
  Ports, NoPort,       \* port names, and the empty one
  Baudrates, Bytesizes, Parities, Stopbits, Flows,   \* values given to setters
  MaxFd,               \* descriptors the process may have open
  MaxPending,          \* bytes the tty's input queue holds
  Sizes,               \* the sizes each transfer and waitfordata is asked for
  SizeMax,             \* stands for (size_t)-1
  WaitTime,            \* passes of waitfordata's loop before its timeout
  MaxFaults            \* system calls that fail or are interrupted

OnePointFive == 3   \* the value of stopbits_one_point_five
Reads == {"read", "readline", "readlines"}
Transfers == Reads \union {"write"}
Sized == Transfers \union {"waitfordata"}

ASSUME SerialAssumption ==
  /\ Owner \in Threads /\ "none" \notin Threads
  /\ NoPort \in Ports
  /\ 8 \in Bytesizes /\ Bytesizes \subseteq 5..8 /\ "none" \in Flows
  /\ 1 \in Stopbits /\ Stopbits \subseteq {1, 2, OnePointFive}
  /\ "none" \in Parities /\ Parities \subseteq {"none", "odd", "even", "mark", "space"}
  /\ \A t \in Threads \ {Owner} : Calls[t] \cap {"open", "close", "setPort"} = {}
  /\ {MaxFd, MaxPending, WaitTime} \subseteq Nat \ {0}
  /\ MaxFaults \in Nat /\ SizeMax \in Nat \ {0}

ASSUME SizesAssumption == \A op \in Sized : Sizes[op] \subseteq 1..SizeMax - 1

VARIABLES
  impl,      \* the fields port_, is_open_, fd_ of SerialImpl
  cfg,       \* its fields baudrate_, bytesize_, parity_, stopbits_, flowcontrol_
  tty,       \* the settings in force on the line; termios2: its driver answers TCGETS2
  fds,       \* descriptors of the tty the object has opened and not closed
  pending,   \* bytes in the tty's input queue
  output,    \* unsent: the output queue is not empty; held: the peer's flow
             \* control holds the line
  rmutex, wmutex,   \* holders of read_mutex and write_mutex
  pc, call,  \* per thread: where it is, and its arguments and result
  faults,    \* failed system calls so far
  unapplied  \* a setter has failed after it stored its value

vars == <<impl, cfg, tty, fds, pending, output, rmutex, wmutex, pc, call, faults,
          unapplied>>

NoFd == -1
NoThread == "none"
Setters == {"setBytesize", "setParity", "setStopbits", "setFlowcontrol"}

\* Mutants of Path: flush takes the write lock first; setPort takes no read lock.
PathFlushWriteFirst(op) ==
  CASE op \in Reads \union {"flushInput"} -> <<"rlock", "body">>
    [] op \in {"write", "flushOutput"}    -> <<"wlock", "body">>
    [] op = "setPort"                     -> <<"rlock", "wlock", "body">>
    [] op = "flush"                       -> <<"wlock", "rlock", "body">>
    [] OTHER                              -> <<"body">>
PathSetPortUnlocked(op) ==
  CASE op \in Reads \union {"flushInput"}         -> <<"rlock", "body">>
    [] op \in {"write", "flushOutput", "setPort"} -> <<"wlock", "body">>
    [] op = "flush"                               -> <<"rlock", "wlock", "body">>
    [] OTHER                                      -> <<"body">>

\* The scoped locks an operation of serial.cpp takes before its body, in order.
Path(op) ==
  CASE op \in Reads \union {"flushInput"}     -> <<"rlock", "body">>
    [] op \in {"write", "flushOutput"}        -> <<"wlock", "body">>
    [] op \in {"setPort", "flush"}            -> <<"rlock", "wlock", "body">>
    [] OTHER                                  -> <<"body">>
After(op, l) == Path(op)[CHOOSE i \in 2..Len(Path(op)) : Path(op)[i - 1] = l]

\* The file descriptors of the process that are free; the kernel gives the least.
FreeFds == 1..MaxFd \ fds

\* is_standardbaudrate: the rates with a B constant, up to B115200 and above.
PosixRates == {0, 50, 75, 110, 134, 150, 200, 300, 600, 1200, 1800, 2400, 4800,
               9600, 19200, 38400, 57600, 115200}
LinuxRates == {230400, 460800, 576000, 921600, 1000000, 1152000, 1500000,
               2000000, 2500000, 3000000, 3500000, 4000000}
IsStandardBaudrate(b) == b \in PosixRates \union LinuxRates

\* setBaudrate(b) succeeds and leaves the line at v.  A custom rate needs
\* termios2; without it, or when TCSETS2 fails, setCustomBaudRate sets a divisor
\* in serial_struct and ends in setStandardBaudRate(B38400), which clears that
\* divisor again.
Fault == faults < MaxFaults /\ faults' = faults + 1
SpeedSet(b, v) ==
  \/ (IsStandardBaudrate(b) \/ tty.termios2) /\ v = b /\ UNCHANGED faults
  \/ /\ ~IsStandardBaudrate(b) /\ v = 38400
     /\ IF tty.termios2 THEN Fault ELSE UNCHANGED faults

\* set_parity on the parity flags of a termios: only none, even and odd clear a
\* flag, and none of them clears CMSPAR.
ParityFlags(flags, p) ==
  CASE p = "none"  -> flags \ {"PARENB"}
    [] p = "even"  -> (flags \ {"PARODD"}) \union {"PARENB"}
    [] p = "odd"   -> flags \union {"PARENB", "PARODD"}
    [] p = "mark"  -> flags \union {"PARENB", "CMSPAR", "PARODD"}
    [] p = "space" -> (flags \ {"PARODD"}) \union {"PARENB", "CMSPAR"}

\* The parity a line with these flags uses.
ParityOf(flags) ==
  IF "PARENB" \notin flags THEN "none"
  ELSE IF "CMSPAR" \in flags THEN (IF "PARODD" \in flags THEN "mark" ELSE "space")
  ELSE IF "PARODD" \in flags THEN "odd" ELSE "even"

\* set_databits and set_stopbits: one and a half stop bits become one.
DataBits(b) == IF b \in 5..8 THEN b ELSE 8
StopBits(s) == IF s = 2 THEN 2 ELSE 1

\* Mutant of LineFor: open() forgets set_flowcontrol.
LineForNoFlow(c, v) ==
  [speed |-> v, data |-> DataBits(c.bytesize),
   parity |-> ParityFlags(tty.parity \ {"PARENB"}, c.parity),
   stop |-> StopBits(c.stopbits), flow |-> tty.flow, termios2 |-> tty.termios2]

\* What open() writes to the line: cfmakeraw (which clears PARENB) and the four
\* set_* functions on the termios it read, then the speed v.
LineFor(c, v) ==
  [speed |-> v, data |-> DataBits(c.bytesize),
   parity |-> ParityFlags(tty.parity \ {"PARENB"}, c.parity),
   stop |-> StopBits(c.stopbits), flow |-> c.flowcontrol, termios2 |-> tty.termios2]

Idle(t) == pc[t] = "idle"
At(t, l, ops) == pc[t] = l /\ call[t].op \in ops
Goto(t, l) == pc' = [pc EXCEPT ![t] = l]
Locks == <<rmutex, wmutex>>
Device == <<impl, cfg, tty, fds, unapplied>>
Port == <<Device, output>>

NoCall == [op |-> "none", n |-> 0, got |-> 0, fd |-> NoFd, left |-> 0, port |-> NoPort,
           wasOpen |-> FALSE]

\* The scoped locks are released and the thread is outside Serial again.
Leave(t) ==
  /\ Goto(t, "idle")
  /\ call' = [call EXCEPT ![t] = NoCall]
  /\ rmutex' = IF rmutex = t THEN NoThread ELSE rmutex
  /\ wmutex' = IF wmutex = t THEN NoThread ELSE wmutex

\* The end of a call: a read still holds its lock when its result is known, the
\* others have released theirs.
Return(t, got) ==
  IF call[t].op \in Reads
  THEN Goto(t, "unlock") /\ call' = [call EXCEPT ![t].got = got] /\ UNCHANGED Locks
  ELSE Leave(t)

\* A line whose flow control is switched off is not held any more.
LetFlow(line) == output' = [output EXCEPT !.held = @ /\ line.flow # "none"]

\* The last close of the tty sends or drops what is unsent; a thread in
\* tcdrain still has the tty open.
LastClose == output' = [output EXCEPT !.unsent = @ /\ \E t \in Threads : pc[t] = "drain"]

Init ==
  /\ impl \in [port : Ports \ {NoPort}, isOpen : {FALSE}, fd : {NoFd}]
  /\ cfg \in [baudrate : Baudrates, bytesize : {8}, parity : {"none"}, stopbits : {1},
              flowcontrol : {"none"}]
  /\ \E b \in BOOLEAN : tty = [speed |-> 9600, data |-> 8, parity |-> {}, stop |-> 1,
                             flow |-> "none", termios2 |-> b]
  /\ fds = {} /\ pending = 0 /\ output = [unsent |-> FALSE, held |-> FALSE]
  /\ rmutex = NoThread /\ wmutex = NoThread
  /\ pc = [t \in Threads |-> "idle"]
  /\ call = [t \in Threads |-> NoCall]
  /\ faults = 0 /\ unapplied = FALSE

---------------------------------------------------------------------------
\* Calls and locks

\* A thread calls an operation of Serial.
Begin(t, op, n, p) ==
  /\ Idle(t)
  /\ call' = [call EXCEPT ![t] = [NoCall EXCEPT !.op = op, !.n = n, !.port = p,
                                     !.left = IF op = "waitfordata" THEN WaitTime ELSE 0]]
  /\ Goto(t, Path(op)[1])
  /\ UNCHANGED <<Port, pending, Locks, faults>>

\* ScopedReadLock and ScopedWriteLock.
AcquireRead(t) ==
  /\ pc[t] = "rlock" /\ rmutex = NoThread
  /\ rmutex' = t
  /\ Goto(t, After(call[t].op, "rlock"))
  /\ UNCHANGED <<Port, pending, wmutex, call, faults>>

AcquireWrite(t) ==
  /\ pc[t] = "wlock" /\ wmutex = NoThread
  /\ wmutex' = t
  /\ Goto(t, After(call[t].op, "wlock"))
  /\ UNCHANGED <<Port, pending, rmutex, call, faults>>

ReleaseRead(t) ==
  /\ pc[t] = "unlock"
  /\ Leave(t)
  /\ UNCHANGED <<Port, pending, faults>>

---------------------------------------------------------------------------
\* open(), close(), setPort()

\* open(): the tests before the system call.  setPort() enters at "reopen".
OpenStart(t) ==
  /\ At(t, "body", {"open"}) \/ At(t, "reopen", {"setPort"})
  /\ IF impl.isOpen \/ impl.port = NoPort
     THEN Return(t, 0)
     ELSE Goto(t, "openfd") /\ UNCHANGED <<Locks, call>>
  /\ UNCHANGED <<Port, pending, faults>>

\* ::open().  EINTR calls open() again; every other error closes and returns.
OpenDescriptor(t) ==
  /\ pc[t] = "openfd"
  /\ \/ /\ FreeFds # {}
        /\ impl' = [impl EXCEPT !.fd = Min(FreeFds)]
        /\ fds' = fds \union {Min(FreeFds)}
        /\ Goto(t, "configure")
        /\ UNCHANGED <<Locks, call, faults>>
     \/ Fault /\ UNCHANGED <<impl, fds, pc, call, Locks>>
     \/ Fault /\ Return(t, 0) /\ UNCHANGED <<impl, fds>>
     \/ FreeFds = {} /\ Return(t, 0) /\ UNCHANGED <<impl, fds, faults>>
  /\ UNCHANGED <<cfg, tty, pending, output, unapplied>>

\* Mutant of OpenConfigure: a line that cannot be configured is left open.
OpenConfigureLeaks(t) ==
  /\ pc[t] = "configure"
  /\ pending' = 0
  /\ \/ /\ \E v \in {cfg.baudrate, 38400} :
            SpeedSet(cfg.baudrate, v) /\ tty' = LineFor(cfg, v)
        /\ LetFlow(tty')
        /\ Goto(t, "opened")
        /\ UNCHANGED <<Locks, call>>
     \/ Fault /\ Return(t, 0) /\ UNCHANGED <<tty, output>>
  /\ UNCHANGED <<impl, fds, cfg, unapplied>>

\* getTermios, the set_* functions, setTermios (it flushes the input first) and
\* setBaudrate; each of them failing closes the descriptor and returns.
OpenConfigure(t) ==
  /\ pc[t] = "configure"
  /\ \/ /\ \E v \in {cfg.baudrate, 38400} :
            SpeedSet(cfg.baudrate, v) /\ tty' = LineFor(cfg, v)
        /\ LetFlow(tty')
        /\ Goto(t, "opened")
        /\ pending' = 0
        /\ UNCHANGED <<impl, fds, Locks, call>>
     \/ /\ Fault /\ Return(t, 0)
        /\ \/ UNCHANGED <<pending, tty>>                          \* getTermios
           \/ pending' = 0 /\ UNCHANGED tty                       \* setTermios
           \/ pending' = 0 /\ tty' = LineFor(cfg, tty.speed)      \* setBaudrate
        /\ fds' = fds \ {impl.fd} /\ LastClose
        /\ impl' = [impl EXCEPT !.fd = NoFd]
  /\ UNCHANGED <<cfg, unapplied>>

OpenDone(t) ==
  /\ pc[t] = "opened"
  /\ impl' = [impl EXCEPT !.isOpen = TRUE]
  /\ unapplied' = FALSE
  /\ Return(t, 0)
  /\ UNCHANGED <<cfg, tty, fds, pending, output, faults>>

\* close(): is_open_, then the descriptor, then fd_.  setPort() closes the same
\* way when the port was open, and goes on.
CloseFlag(t) ==
  /\ At(t, "body", {"close", "setPort"})
  /\ call' = [call EXCEPT ![t].wasOpen = impl.isOpen]
  /\ IF call[t].op = "close" \/ impl.isOpen
     THEN impl' = [impl EXCEPT !.isOpen = FALSE] /\ Goto(t, "closefd")
     ELSE UNCHANGED impl /\ Goto(t, "moved")
  /\ UNCHANGED <<cfg, tty, fds, pending, output, Locks, faults, unapplied>>

CloseDescriptor(t) ==
  /\ pc[t] = "closefd"
  /\ fds' = fds \ {impl.fd} /\ LastClose
  /\ Goto(t, "forget")
  /\ UNCHANGED <<impl, cfg, tty, pending, Locks, call, faults, unapplied>>

CloseForget(t) ==
  /\ pc[t] = "forget"
  /\ impl' = [impl EXCEPT !.fd = NoFd]
  /\ IF call[t].op = "close" THEN Return(t, 0)
     ELSE Goto(t, "moved") /\ UNCHANGED <<Locks, call>>
  /\ UNCHANGED <<cfg, tty, fds, pending, output, faults, unapplied>>

\* setPort(): the new name, and open() again when the port was open.
MovePort(t) ==
  /\ pc[t] = "moved"
  /\ impl' = [impl EXCEPT !.port = call[t].port]
  /\ IF call[t].wasOpen THEN Goto(t, "reopen") /\ UNCHANGED <<Locks, call>>
     ELSE Return(t, 0)
  /\ UNCHANGED <<cfg, tty, fds, pending, output, faults, unapplied>>

---------------------------------------------------------------------------
\* Setters: their fields and the line belong to the owner, so each is one step

Field(s) == CASE s = "setBytesize" -> "bytesize" [] s = "setParity" -> "parity"
              [] s = "setStopbits" -> "stopbits" [] s = "setFlowcontrol" -> "flowcontrol"
Values(s) == CASE s = "setBytesize" -> Bytesizes [] s = "setParity" -> Parities
              [] s = "setStopbits" -> Stopbits [] s = "setFlowcontrol" -> Flows

\* The termios a setter writes: the one in force with one set_* applied.
LineWith(line, s, v) ==
  CASE s = "setBytesize"    -> [line EXCEPT !.data = DataBits(v)]
    [] s = "setParity"      -> [line EXCEPT !.parity = ParityFlags(line.parity, v)]
    [] s = "setStopbits"    -> [line EXCEPT !.stop = StopBits(v)]
    [] s = "setFlowcontrol" -> [line EXCEPT !.flow = v]

\* getTermios fails on a closed port and nothing changes; otherwise the field
\* is stored before setTermios, which flushes the input and may then fail.
SetLine(s, v) ==
  /\ Idle(Owner) /\ impl.fd \in fds
  /\ cfg' = [cfg EXCEPT ![Field(s)] = v]
  /\ pending' = 0
  /\ \/ tty' = LineWith(tty, s, v) /\ LetFlow(tty') /\ UNCHANGED <<faults, unapplied>>
     \/ Fault /\ unapplied' = TRUE /\ UNCHANGED <<tty, output>>
  /\ UNCHANGED <<impl, fds, Locks, pc, call>>

\* setBaudrate: a closed port keeps the old rate; the flush of setTermios and
\* of the custom path comes before the call that may fail.
SetBaudrate(b) ==
  /\ Idle(Owner) /\ impl.fd # NoFd
  /\ cfg' = [cfg EXCEPT !.baudrate = b]
  /\ pending' = 0
  /\ \/ /\ \E v \in {b, 38400} : SpeedSet(b, v) /\ tty' = [tty EXCEPT !.speed = v]
        /\ UNCHANGED unapplied
     \/ Fault /\ unapplied' = TRUE /\ UNCHANGED tty
  /\ UNCHANGED <<impl, fds, output, Locks, pc, call>>

---------------------------------------------------------------------------
\* Transfers

\* The test of is_open_ in read(), write(), and in each read_() of readline()
\* and readlines(); readlines() first tests that there is room left.
CheckOpen(t) ==
  /\ At(t, "body", Transfers)
  /\ IF impl.isOpen /\ (call[t].op = "readlines" => call[t].got < call[t].n)
     THEN Goto(t, "sys") /\ UNCHANGED <<Locks, call>>
     ELSE Return(t, call[t].got)
  /\ UNCHANGED <<Port, pending, faults>>

\* A system call on fd_ fails when the descriptor is gone, or by a fault.
SysFails == IF impl.fd \in fds THEN Fault ELSE UNCHANGED faults

\* ::read() of a raw non-blocking tty: what is there, up to n, or -1, which
\* the size_t result turns into SizeMax.
ReadSys(t) ==
  /\ At(t, "sys", {"read"})
  /\ \/ /\ impl.fd \in fds
        /\ LET k == Min({call[t].n, pending}) IN
             pending' = pending - k /\ Return(t, k)
        /\ UNCHANGED faults
     \/ SysFails /\ Return(t, SizeMax) /\ UNCHANGED pending
  /\ UNCHANGED Port

\* Mutant of Count: the sum as a signed number.
CountSigned(got, r) == IF r = SizeMax THEN got - 1 ELSE got + r

\* read_so_far += bytes_read, a sum of size_t.
Count(got, r) == (got + r) % (SizeMax + 1)

\* One pass of readline() or readlines(): none left ends the call; a byte is
\* counted, and an end of line (readline only) or a full buffer ends it; -1 is
\* added to the count like a number of bytes, and what is then compared with
\* the end of line lies outside the bytes read.
ReadByte(t) ==
  /\ At(t, "sys", {"readline", "readlines"})
  /\ LET counted(r) ==
           LET got == Count(call[t].got, r) IN
           \/ /\ got = call[t].n \/ call[t].op = "readline"
              /\ Return(t, got)
           \/ /\ got # call[t].n
              /\ Goto(t, "body") /\ call' = [call EXCEPT ![t].got = got] /\ UNCHANGED Locks
     IN \/ /\ impl.fd \in fds /\ pending = 0
           /\ Return(t, call[t].got) /\ UNCHANGED <<pending, faults>>
        \/ /\ impl.fd \in fds /\ pending > 0
           /\ pending' = pending - 1 /\ counted(1) /\ UNCHANGED faults
        \/ SysFails /\ counted(SizeMax) /\ UNCHANGED pending
  /\ UNCHANGED Port

\* ::write() of a non-blocking tty: some of the bytes, or -1, also when the
\* output queue is full.
WriteSys(t) ==
  /\ At(t, "sys", {"write"})
  /\ \/ /\ impl.fd \in fds /\ UNCHANGED faults
        /\ \E k \in 0..call[t].n :
             Return(t, k) /\ output' = [output EXCEPT !.unsent = @ \/ k > 0]
     \/ impl.fd \in fds /\ output.unsent /\ Return(t, SizeMax) /\ UNCHANGED <<output, faults>>
     \/ SysFails /\ Return(t, SizeMax) /\ UNCHANGED output
  /\ UNCHANGED <<Device, pending>>

\* flushInput() and flushOutput() drop what is queued; flush() leaves the input
\* alone and waits in tcdrain, with the read and the write lock held.
FlushBody(t) ==
  /\ At(t, "body", {"flush", "flushInput", "flushOutput"})
  /\ LET op == call[t].op
         works == impl.isOpen /\ impl.fd \in fds
     IN /\ pending' = IF works /\ op = "flushInput" THEN 0 ELSE pending
        /\ output' = [output EXCEPT !.unsent = @ /\ ~(works /\ op = "flushOutput")]
        /\ IF works /\ op = "flush" THEN Goto(t, "drain") /\ UNCHANGED <<Locks, call>>
           ELSE Return(t, 0)
  /\ UNCHANGED <<Device, faults>>

\* tcdrain() returns when everything is sent; the call works on the tty, not on
\* the descriptor, so a close() meanwhile does not end it.
Drained(t) ==
  /\ pc[t] = "drain" /\ ~output.unsent
  /\ Return(t, 0)
  /\ UNCHANGED <<Port, pending, faults>>

\* A signal ends tcdrain().
DrainInterrupted(t) ==
  /\ pc[t] = "drain" /\ Fault
  /\ Return(t, 0)
  /\ UNCHANGED <<Port, pending>>

\* setBreak, setRTS, setDTR and sendBreak: is_open_, then one ioctl.
SetModemLine(t) ==
  /\ At(t, "body", {"setModemLine"})
  /\ Return(t, IF impl.isOpen /\ impl.fd \in fds THEN 1 ELSE 0)
  /\ UNCHANGED <<Port, pending, faults>>

\* getCTS, getDSR, getRI and getCD: is_open_, then the line's level by TIOCMGET.
GetModemLine(t) ==
  /\ At(t, "body", {"getModemLine"})
  /\ \E level \in {0, 1} : Return(t, IF impl.isOpen /\ impl.fd \in fds THEN level ELSE 0)
  /\ UNCHANGED <<Port, pending, faults>>

\* waitForChange(): TIOCMIWAIT blocks until a modem line changes; on Linux it
\* does not test is_open_, and a bad descriptor ends it at once.
WaitForChange(t) ==
  /\ \/ At(t, "body", {"waitForChange"}) /\ impl.fd \in fds
        /\ Goto(t, "miwait") /\ UNCHANGED <<Locks, call>>
     \/ At(t, "body", {"waitForChange"}) /\ impl.fd \notin fds /\ Return(t, 0)
  /\ UNCHANGED <<Port, pending, faults>>

ModemChange(t) ==
  /\ pc[t] = "miwait"
  /\ Return(t, 1)
  /\ UNCHANGED <<Port, pending, faults>>

---------------------------------------------------------------------------
\* waitfordata() and waitReadable(); the result is 0, -1 (timeout), -2 (error)

\* The first test of is_open_ and the FIONREAD before the loop.
WaitStart(t) ==
  /\ At(t, "body", {"waitfordata"})
  /\ IF ~impl.isOpen \/ impl.fd \notin fds THEN Return(t, -2)
     ELSE IF pending >= call[t].n THEN Return(t, 0)
     ELSE Goto(t, "fdset") /\ UNCHANGED <<Locks, call>>
  /\ UNCHANGED <<Port, pending, faults>>

\* FD_SET of fd_, which a close() may have made -1 (undefined; see WaitSelect).
WaitSet(t) ==
  /\ pc[t] = "fdset"
  /\ call' = [call EXCEPT ![t].fd = impl.fd]
  /\ Goto(t, "loop")
  /\ UNCHANGED <<Port, pending, Locks, faults>>

\* Mutant of WaitLoop: the timer starts again in every pass.
WaitLoopRestarts(t) ==
  /\ pc[t] = "loop"
  /\ IF ~impl.isOpen THEN Return(t, -2)
     ELSE Goto(t, "select") /\ UNCHANGED <<Locks, call>>
  /\ UNCHANGED <<Port, pending, faults>>

\* The head of the loop: is_open_ and the remaining time.
WaitLoop(t) ==
  /\ pc[t] = "loop"
  /\ IF ~impl.isOpen THEN Return(t, -2)
     ELSE IF call[t].left = 0 THEN Return(t, -1)
     ELSE /\ call' = [call EXCEPT ![t].left = @ - 1]
          /\ Goto(t, "select") /\ UNCHANGED Locks
  /\ UNCHANGED <<Port, pending, faults>>

\* pselect() watches the descriptor of the set as far as fd_ + 1 reaches.  One
\* that was closed before or during the call ends it as an error, at its
\* timeout or as ready, and so does the set that FD_SET(-1) leaves.
WaitSelect(t) ==
  /\ pc[t] = "select"
  /\ LET watched == call[t].fd \in fds /\ call[t].fd <= impl.fd IN
     \/ (pending > 0 \/ ~watched) /\ Goto(t, "ready") /\ UNCHANGED <<Locks, call, faults>>
     \/ (pending = 0 \/ ~watched) /\ Return(t, -1) /\ UNCHANGED faults
     \/ ~watched /\ Return(t, -2) /\ UNCHANGED faults
     \/ Fault /\ Return(t, -1)
  /\ UNCHANGED <<Port, pending>>

\* select reported data: FD_ISSET of the present fd_ (of -1 it may say either),
\* FIONREAD, and a nap when there is less than asked for.
WaitReady(t) ==
  /\ pc[t] = "ready"
  /\ \/ impl.fd \in {call[t].fd, NoFd} /\ impl.fd \notin fds /\ Return(t, -2)
     \/ impl.fd = call[t].fd /\ impl.fd \in fds /\ pending >= call[t].n /\ Return(t, 0)
     \/ /\ impl.fd # call[t].fd \/ impl.fd = NoFd \/ (impl.fd \in fds /\ pending < call[t].n)
        /\ Goto(t, "loop") /\ UNCHANGED <<Locks, call>>
  /\ UNCHANGED <<Port, pending, faults>>

\* waitReadable(): one pselect, 1 when there is something to read.
WaitReadable(t) ==
  /\ At(t, "body", {"waitReadable"})
  /\ \/ impl.fd \in fds /\ pending > 0 /\ Return(t, 1) /\ UNCHANGED faults
     \/ (impl.fd \notin fds \/ pending = 0) /\ Return(t, 0) /\ UNCHANGED faults
     \/ Fault /\ Return(t, 0)
  /\ UNCHANGED <<Port, pending>>

\* A byte arrives at the open tty.
Arrive ==
  /\ fds # {} /\ pending < MaxPending
  /\ pending' = pending + 1
  /\ UNCHANGED <<Port, Locks, pc, call, faults>>

\* The line sends what is queued, unless the peer holds it.
Transmit ==
  /\ output.unsent /\ ~output.held
  /\ output' = [output EXCEPT !.unsent = FALSE]
  /\ UNCHANGED <<Device, pending, Locks, pc, call, faults>>

\* The peer holds the line (CTS or XOFF) as long as it likes.
Hold ==
  /\ fds # {} /\ tty.flow # "none" /\ ~output.held
  /\ output' = [output EXCEPT !.held = TRUE]
  /\ UNCHANGED <<Device, pending, Locks, pc, call, faults>>
LetGo ==
  /\ output.held
  /\ output' = [output EXCEPT !.held = FALSE]
  /\ UNCHANGED <<Device, pending, Locks, pc, call, faults>>

---------------------------------------------------------------------------
\* The steps a thread takes once it is in a call.
Step(t) ==
  \/ AcquireRead(t) \/ AcquireWrite(t) \/ ReleaseRead(t)
  \/ OpenStart(t) \/ OpenDescriptor(t) \/ OpenConfigure(t) \/ OpenDone(t)
  \/ CloseFlag(t) \/ CloseDescriptor(t) \/ CloseForget(t) \/ MovePort(t)
  \/ CheckOpen(t) \/ ReadSys(t) \/ ReadByte(t) \/ WriteSys(t)
  \/ FlushBody(t) \/ Drained(t) \/ SetModemLine(t) \/ GetModemLine(t) \/ WaitForChange(t)
  \/ WaitStart(t) \/ WaitSet(t) \/ WaitLoop(t) \/ WaitSelect(t) \/ WaitReady(t) \/ WaitReadable(t)

Next ==
  \/ \E t \in Threads : Step(t) \/ ModemChange(t) \/ DrainInterrupted(t)
  \/ \E t \in Threads : \E op \in Calls[t] :
       \E n \in IF op \in Sized THEN Sizes[op] ELSE {0},
          p \in IF op = "setPort" THEN Ports ELSE {NoPort} : Begin(t, op, n, p)
  \/ \E s \in Setters : \E v \in Values(s) : SetLine(s, v)
  \/ \E b \in Baudrates : SetBaudrate(b)
  \/ Arrive \/ Transmit \/ Hold \/ LetGo

\* A thread in a call is scheduled and a line that is not held sends; nobody
\* has to call, no byte has to arrive, no modem line has to change, no signal
\* has to come and no peer has to let the line go.
Fairness == WF_vars(Transmit) /\ \A t \in Threads : WF_vars(Step(t))

Spec == Init /\ [][Next]_vars /\ Fairness

---------------------------------------------------------------------------
Labels == {"idle", "rlock", "wlock", "body", "openfd", "configure", "opened", "closefd",
           "forget", "moved", "reopen", "sys", "drain", "fdset", "loop", "select",
           "ready", "miwait", "unlock"}

\* Types of the port's fields, the line, the locks and the threads' calls.
TypeOK ==
  /\ impl \in [port : Ports, isOpen : BOOLEAN, fd : 1..MaxFd \union {NoFd}]
  /\ cfg \in [baudrate : Baudrates, bytesize : Bytesizes, parity : Parities,
              stopbits : Stopbits, flowcontrol : Flows]
  /\ tty.parity \subseteq {"PARENB", "PARODD", "CMSPAR"} /\ tty.termios2 \in BOOLEAN
  /\ output \in [unsent : BOOLEAN, held : BOOLEAN]
  /\ fds \subseteq 1..MaxFd /\ pending \in 0..MaxPending
  /\ {rmutex, wmutex} \subseteq Threads \union {NoThread}
  /\ pc \in [Threads -> Labels]
  /\ \A t \in Threads : call[t].got \in 0..SizeMax /\ call[t].left \in 0..WaitTime
  /\ faults \in 0..MaxFaults /\ unapplied \in BOOLEAN

\* open, close and setPort account for every descriptor: between the owner's
\* calls an open port holds exactly the descriptor fd_, a closed one none,
\* whichever system call of open() failed or was interrupted.
DescriptorAccounted ==
  Idle(Owner) => IF impl.isOpen THEN fds = {impl.fd} ELSE fds = {} /\ impl.fd = NoFd

\* No two threads ever wait for each other's scoped lock (flush and setPort
\* take both).
NoLockCycle ==
  ~ \E t, u \in Threads : /\ pc[t] = "rlock" /\ rmutex = u
                          /\ pc[u] = "wlock" /\ wmutex = t

\* What the getters return (the fields of cfg) is what the line does, when no
\* setter failed half way since the last open(), with these exceptions and no
\* other: a custom rate is reported while the line runs at 38400 when its driver
\* has no termios2 or TCSETS2 failed once; one and a half stop bits are reported
\* while the line has one; mark or space parity has left its CMSPAR flag, which
\* changes what even and odd mean.
ReportedSettingsInForce ==
  (impl.isOpen /\ ~unapplied) =>
    /\ \/ tty.speed = cfg.baudrate
       \/ /\ ~IsStandardBaudrate(cfg.baudrate) /\ tty.speed = 38400
          /\ tty.termios2 => faults > 0
    /\ tty.data = cfg.bytesize
    /\ tty.stop = cfg.stopbits \/ (cfg.stopbits = OnePointFive /\ tty.stop = 1)
    /\ tty.flow = cfg.flowcontrol
    /\ \/ ParityOf(tty.parity) = cfg.parity
       \/ cfg.parity \in {"even", "odd"} /\ "CMSPAR" \in tty.parity

\* setPort never closes the descriptor under a thread that has passed the test
\* of is_open_ and is about to read or write it, nor under one that drains it:
\* that is what its locks are for.
SetPortSparesTransfers ==
  [][\A t \in Threads :
       (pc[Owner] = "closefd" /\ call[Owner].op = "setPort" /\ fds' # fds)
         => pc[t] \notin {"sys", "drain"}]_vars

\* A call that has its locks returns, whatever close() does meanwhile, unless it
\* is a flush and the peer holds the line: tcdrain then waits as long as the peer
\* does, and with it every call that needs the read or the write lock.  Only
\* waitForChange may block for ever, and readline and readlines go on as long as
\* the port is closed and opened again between their reads.
CallReturns ==
  \A t \in Threads :
    (/\ pc[t] \notin {"idle", "rlock", "wlock"}
     /\ call[t].op \notin {"waitForChange", "readline", "readlines"})
      ~> (Idle(t) \/ (pc[t] = "drain" /\ output.held))

\* serial.h: the result of read is the number of bytes read, and size is the
\* maximum length of a line.  -1 from ::read() breaks it.
ReadWithinRequest ==
  \A t \in Threads : pc[t] = "unlock" => call[t].got <= call[t].n

==================================================
