---------------------------- MODULE SimpleSocket ----------------------------
(***************************************************************************)
(* A socket of the SDK (core/network): CActiveSocket or CPassiveSocket     *)
(* behind the ChannelDevice interface, used by one thread.  Time, signals  *)
(* and the peer act between the system calls of its loops.                 *)
(*                                                                         *)
(* errno is a variable of its own: a system call that succeeds leaves it   *)
(* alone, and TranslateSocketError() reads it after calls of either kind.  *)
(* TCP carries bytes; a datagram of UDP is one byte, so that it can be     *)
(* shorter than the buffer given for it.                                   *)
(***************************************************************************)
EXTENDS Integers, FiniteSets

CONSTANTS
  MaxFds,       \* descriptors a process may have
  MaxQueue,     \* bytes that wait to be received
  MaxRequest,   \* bytes of a read or write
  MaxSignals,   \* system calls that are interrupted
  MaxFaults     \* failures of bind and listen, and of the name lookup

ASSUME SocketAssumption ==
  /\ MaxFds \in Nat \ {0} /\ MaxRequest \in Nat \ {0} /\ MaxQueue \in Nat \ {0}
  /\ MaxSignals \in Nat /\ MaxFaults \in Nat

VARIABLES
  kind,       \* role: "active" or "passive"; type: "tcp" or "udp"
  sock,       \* m_socket, 0 for INVALID_SOCKET
  mopen,      \* m_open
  blocking,   \* m_bIsBlocking
  multicast,  \* m_bIsMulticast
  err,        \* m_socketErrno
  fds,        \* the descriptors the kernel has open for these objects
  opts,       \* the timeouts in force on the descriptor m_socket
  link,       \* the connection behind it
  inq,        \* bytes received by the kernel and not read yet; clients not yet accepted
  accepted,   \* descriptors of the objects Accept() returned
  errno, signals, faults,
  at, call,   \* where the user's thread is; the current or the last call
  late,       \* the timeout of the call has passed
  ret,        \* what the last call returned
  harm        \* history of the call: bytes lost, written astray or sent twice, a
              \* connection that is none, each with the errno it happened under

object == <<kind, sock, mopen, blocking, multicast>>
kernel == <<fds, opts, link, inq, accepted>>
thread == <<at, call, late, ret, harm>>
vars == <<object, kernel, thread, err, errno, signals, faults>>

NoSocket == 0
tcp == kind.type = "tcp"
active == kind.role = "active"
IsSocketValid == sock # NoSocket
isOpen == mopen \/ IsSocketValid
Least(a, b) == IF a < b THEN a ELSE b

NoCall == [op |-> "none", n |-> 0, got |-> 0, taken |-> 0, copies |-> 0, size |-> 0, promise |-> 0,
           again |-> FALSE]

\* TranslateSocketError() for the errors that occur here.
Translated ==
  [e \in {"0", "EINTR", "EAGAIN", "EINPROGRESS", "EBADF", "EMFILE", "EPIPE", "ENOTCONN",
          "ECONNREFUSED", "EINVAL", "EISCONN", "EADDRINUSE"} |->
     CASE e = "0" -> "Success"
       [] e = "EINTR" -> "Interrupted"
       [] e = "EAGAIN" -> "Ewouldblock"
       [] e = "EINPROGRESS" -> "Einprogress"
       [] e \in {"EBADF", "EMFILE", "EPIPE"} -> "InvalidSocket"
       [] e = "ENOTCONN" -> "Notconnected"
       [] e = "ECONNREFUSED" -> "ConnectionRefused"
       [] e = "EINVAL" -> "ProtocolError"
       [] OTHER -> "Eunknown"]

Errno(e) == errno' = e /\ err' = Translated[e]

Init ==
  /\ kind \in [role : {"active", "passive"}, type : {"tcp", "udp"}]
  /\ sock = NoSocket /\ mopen = FALSE /\ blocking = TRUE /\ multicast = FALSE
  /\ err = "InvalidSocket" /\ errno = "0"
  /\ fds = {} /\ opts = {} /\ link = "none" /\ inq = 0 /\ accepted = {}
  /\ signals = 0 /\ faults = 0
  /\ at = "idle" /\ call = NoCall /\ late = FALSE /\ ret = 0 /\ harm = {}

---------------------------------------------------------------------------
\* The thread's calls begin and end.

Idle == at = "idle"

\* A read remembers what the waitfordata() just before it has promised.
Promised == IF call.op = "wait" /\ ret = 0 THEN call.size ELSE 0
Start(op, n, l) ==
  /\ Idle
  /\ at' = l /\ call' = [NoCall EXCEPT !.op = op, !.n = n, !.promise = Promised]
  /\ late' = FALSE /\ harm' = {} /\ ret' = 0

Finish(r) == at' = "idle" /\ ret' = r /\ late' = FALSE

\* A call without a loop or a wait.
AtOnce(op, r) ==
  Idle /\ call' = [NoCall EXCEPT !.op = op] /\ ret' = r /\ harm' = {} /\ UNCHANGED <<at, late>>

Signal == signals < MaxSignals /\ signals' = signals + 1
Fault == faults < MaxFaults /\ faults' = faults + 1

---------------------------------------------------------------------------
\* Creating and closing the descriptor

\* socket() and accept() take the least number that is free.
Free == (1..MaxFds) \ fds
Fresh == CHOOSE f \in Free : \A g \in Free : f <= g

\* Initialize(): errno is reset; a new socket has no options yet.
Initialize ==
  IF Free = {} THEN Errno("EMFILE") /\ sock' = NoSocket /\ UNCHANGED <<fds, opts, link, inq>>
  ELSE /\ Errno("0") /\ sock' = Fresh /\ fds' = fds \union {Fresh}
       /\ opts' = {} /\ link' = "none" /\ inq' = 0

\* Close(): the member is invalidated, m_open is left to closePort().
Close(e) ==
  /\ sock' = NoSocket /\ fds' = fds \ {sock}
  /\ opts' = {} /\ link' = "none" /\ inq' = 0
  /\ Errno(e)

\* closePort(), and the destructors.
ClosePort ==
  /\ AtOnce("close", 0) /\ Close(errno) /\ mopen' = FALSE
  /\ UNCHANGED <<kind, blocking, multicast, accepted, signals, faults>>

\* bindport() closes an open port; so its options are set on no socket at all.
BindPort ==
  /\ AtOnce("bindport", 1)
  /\ Close("EBADF") /\ mopen' = FALSE
  /\ UNCHANGED <<kind, blocking, multicast, accepted, signals, faults>>

---------------------------------------------------------------------------
\* open()

\* Mutant of NeedsSocket: a socket is made whenever open() is called.
AlwaysNeeds == TRUE

NeedsSocket == ~IsSocketValid

\* A socket is made unless there is one, and made non-blocking to connect.
OpenPort ==
  /\ Start("open", 0, "connect")
  /\ IF NeedsSocket THEN Initialize ELSE UNCHANGED <<sock, fds, opts, link, inq, err, errno>>
  /\ blocking' = (blocking /\ sock' = NoSocket)
  /\ UNCHANGED <<kind, mopen, multicast, accepted, signals, faults>>

\* Mutant of Timeouts: open() sets the send timeout only.
TimeoutsForgotten == {"sndtimeo"}

\* The timeouts open() sets when the connection is made.
Timeouts == {"rcvtimeo", "sndtimeo"}

\* Open() was successful: the addresses are asked for, which fails without a peer.
Opened(why) ==
  /\ mopen' = TRUE /\ blocking' = TRUE /\ opts' = opts \union Timeouts
  /\ errno' = (IF active /\ tcp /\ link' = "pending" THEN "ENOTCONN" ELSE why)
  /\ err' = "Success" /\ Finish(1)
  /\ UNCHANGED <<sock, fds, inq>>

\* Whatever fails, the socket is closed: the connection of an earlier open() too.
NotOpened(e) ==
  Close(e) /\ mopen' = FALSE /\ Finish(0) /\ UNCHANGED <<blocking, harm>>

\* connect() of a TCP socket that is connected, or still connecting, fails.
ConnectTCP ==
  \/ link # "none" /\ NotOpened("EISCONN")
  \/ /\ link = "none"
     /\ Errno("EINPROGRESS") /\ link' = "pending" /\ at' = "select"
     /\ UNCHANGED <<sock, mopen, blocking, fds, opts, inq, late, ret, harm>>

\* connect() of a UDP socket sets its peer, at once; CSimpleSocket::Open does nothing.
ConnectUDP == UNCHANGED <<link, harm>> /\ Opened(errno)

\* Open() of the sub-class; the address may be unknown.
Connect ==
  /\ at = "connect"
  /\ UNCHANGED <<kind, multicast, accepted, call, signals>>
  /\ \/ ~IsSocketValid /\ NotOpened(errno) /\ UNCHANGED faults
     \/ IsSocketValid /\ active /\ Fault /\ NotOpened(errno)
     \/ IsSocketValid /\ (active /\ tcp) /\ ConnectTCP /\ UNCHANGED faults
     \/ IsSocketValid /\ ~(active /\ tcp) /\ ConnectUDP /\ UNCHANGED faults

\* Select() until the connection is made or the connect timeout has passed. An
\* interrupted select() leaves the sets as they were and SO_ERROR is 0: as good
\* as connected.
Select ==
  /\ at = "select"
  /\ UNCHANGED <<kind, multicast, accepted, call, faults>>
  /\ \/ link \in {"up", "closed"} /\ UNCHANGED <<link, signals, harm>> /\ Opened("0")
     \/ link = "refused" /\ NotOpened("ECONNREFUSED") /\ UNCHANGED signals
     \/ late /\ link = "pending" /\ NotOpened(errno) /\ UNCHANGED signals
     \/ /\ Signal /\ link = "pending" /\ UNCHANGED link /\ Opened("0")
        /\ harm' = harm \union {<<"phantom", "EINTR">>}

---------------------------------------------------------------------------
\* Receive()

\* What RECV may return and errno may be after it.
Received ==
  IF inq > 0 /\ link # "listening" THEN {<<IF tcp THEN Least(call.n, inq) ELSE 1, errno>>}
  ELSE IF tcp /\ link \in {"none", "listening"} THEN {<<-1, "ENOTCONN">>}
  ELSE IF tcp /\ link = "refused" THEN {<<-1, "ECONNREFUSED">>}
  ELSE IF tcp /\ link = "closed" THEN {<<0, errno>>}
  ELSE (IF "rcvtimeo" \in opts \/ ~blocking THEN {<<-1, "EAGAIN">>} ELSE {})
       \union (IF signals < MaxSignals /\ blocking THEN {<<-1, "EINTR">>} ELSE {})

\* Mutant of ReceiveAgain: short reads are continued.
ReceiveRest(k, e) == k < call.n /\ k > 0 /\ tcp

\* A plain UDP socket receives once; the others again after an interruption.
ReceiveAgain(k, e) ==
  /\ k < call.n /\ Translated[e] = "Interrupted"
  /\ tcp \/ multicast

\* Mutant of ReceiveResult: EWOULDBLOCK is looked at before the number of bytes.
ResultOfErrno(k, e) == IF tcp /\ Translated[e] = "Ewouldblock" THEN -2 ELSE k

\* All that was asked for; or -2 for EWOULDBLOCK, be it of this call or an older one.
ReceiveResult(k, e) ==
  IF tcp /\ k < call.n /\ Translated[e] = "Ewouldblock" THEN -2 ELSE k

\* Mutant of AsSize: readData() and writeData() return the number they got.
AsIs(k) == k

\* readData() and writeData() report errors as 0.
AsSize(k) == IF k < 0 THEN 0 ELSE k

\* The bytes go to pWorkBuffer + m_nBytesReceived.
Stray(k) == tcp /\ k > 0 /\ (call.got < 0 \/ call.got + k > call.n)

Read(n) ==
  /\ IsSocketValid /\ Start("read", n, "recv")
  /\ err' = "Success" /\ UNCHANGED <<object, kernel, errno, signals, faults>>

Receive ==
  /\ at = "recv" /\ ~late
  /\ \E o \in Received :
       LET k == o[1]
           e == o[2]
           taken == Least(call.taken + AsSize(k), call.n + 1)  \* more than any result
           done == ~ReceiveAgain(k, e)
           result == AsSize(ReceiveResult(k, e))
       IN  /\ Errno(e) /\ inq' = inq - AsSize(k)
           /\ signals' = IF e = "EINTR" /\ k = -1 THEN signals + 1 ELSE signals
           /\ call' = [call EXCEPT !.got = k, !.taken = taken, !.again = TRUE]
           /\ harm' = harm \union (IF Stray(k) THEN {<<"stray", errno>>} ELSE {})
                           \union (IF done /\ taken # result THEN {<<"lost", errno>>} ELSE {})
           /\ IF done THEN Finish(result) ELSE UNCHANGED <<at, ret, late>>
  /\ UNCHANGED <<object, fds, opts, link, accepted, faults>>

\* Two seconds have passed when the loop comes round.
ReceiveLate ==
  /\ at = "recv" /\ late
  /\ Finish(AsSize(call.got)) /\ err' = Translated[errno]
  /\ harm' = harm \union (IF call.taken # AsSize(call.got) THEN {<<"lost", errno>>} ELSE {})
  /\ UNCHANGED <<object, kernel, call, errno, signals, faults>>

---------------------------------------------------------------------------
\* Send()

\* What SEND or SENDTO may return and errno may be after it.
Sent ==
  IF tcp /\ link \in {"none", "listening", "half", "closed"} THEN {<<-1, "EPIPE">>}
  ELSE IF link = "refused" THEN {<<-1, "ECONNREFUSED">>}
  ELSE (IF link = "pending" THEN {} ELSE {<<k, errno>> : k \in (IF tcp THEN 1..call.n ELSE {call.n})})
       \union (IF tcp /\ ("sndtimeo" \in opts \/ ~blocking) THEN {<<-1, "EAGAIN">>} ELSE {})
       \union (IF signals < MaxSignals THEN {<<-1, "EINTR">>} ELSE {})

\* The call is made again if errno says EINTR, whichever call set it.
SendAgain(e) == Translated[e] = "Interrupted"

\* CPassiveSocket sends a datagram once and looks at errno only after an error.
Loops == tcp \/ active

\* readSize() passes its empty buffer to writeData(): it sends what it should read.
Write(op, n) ==
  /\ op \in {"write", "readSize"}
  /\ IsSocketValid /\ Start(op, n, "send")
  /\ err' = "Success" /\ UNCHANGED <<object, kernel, errno, signals, faults>>

Send ==
  /\ at = "send" /\ ~(late /\ tcp)
  /\ \E o \in Sent :
       LET k == o[1]
           e == o[2]
       IN  /\ IF Loops \/ k = -1 THEN Errno(e) ELSE UNCHANGED <<errno, err>>
           /\ signals' = IF e = "EINTR" /\ k = -1 THEN signals + 1 ELSE signals
           /\ call' = [call EXCEPT !.got = k, !.copies = IF k > 0 THEN 1 ELSE @, !.again = TRUE]
           /\ harm' = harm \union (IF k > 0 /\ call.copies > 0 THEN {<<"resent", errno>>} ELSE {})
           /\ IF Loops /\ SendAgain(e) THEN UNCHANGED <<at, ret, late>> ELSE Finish(AsSize(k))
  /\ UNCHANGED <<object, kernel, faults>>

\* The loop of TCP ends after two seconds, the one of UDP does not look at the time.
SendLate ==
  /\ at = "send" /\ late /\ tcp
  /\ err' = "Timedout" /\ Finish(AsSize(call.got))
  /\ UNCHANGED <<object, kernel, call, errno, signals, faults, harm>>

---------------------------------------------------------------------------
\* waitfordata(), available() and flush()

\* available() and what FIONREAD says: all bytes of TCP, the first datagram of UDP.
Waiting == IF link = "listening" THEN 0 ELSE IF tcp THEN inq ELSE Least(inq, 1)
Available == AtOnce("available", Waiting) /\ UNCHANGED <<object, kernel, err, errno, signals, faults>>

\* flush() waits for 1024 bytes: for more than there will be.
WaitForData(op, n) ==
  /\ op = "wait" \/ (op = "flush" /\ isOpen /\ n = MaxQueue + 1)
  /\ IsSocketValid /\ link # "listening"
  /\ Start(op, n, "wait")
  /\ UNCHANGED <<object, kernel, err, errno, signals, faults>>

\* flush() then reads what it was told of, whatever the result.
WaitDone(r, size) ==
  IF call.op = "flush" /\ size > 0
  THEN /\ at' = "recv" /\ late' = FALSE /\ UNCHANGED ret
       /\ call' = [call EXCEPT !.n = size]
  ELSE Finish(r) /\ call' = [call EXCEPT !.size = size]

\* After select() says "readable": UDP reports the number it was asked for.
WaitSize == IF tcp THEN inq ELSE call.n

Readable == inq > 0 \/ (tcp /\ link \in {"none", "refused", "closed"})

\* One round of the loop: enough, timed out, interrupted, or round again.
Wait ==
  /\ at = "wait"
  /\ \/ Waiting >= call.n /\ WaitDone(0, Waiting) /\ UNCHANGED <<err, errno, signals>>
     \/ late /\ Waiting < call.n /\ WaitDone(-1, Waiting) /\ err' = "Timedout" /\ UNCHANGED <<errno, signals>>
     \/ Signal /\ ~Readable /\ WaitDone(-1, Waiting) /\ Errno("0")
     \/ /\ Readable /\ Waiting < call.n /\ WaitSize >= call.n
        /\ WaitDone(0, WaitSize) /\ UNCHANGED <<err, errno, signals>>
  /\ UNCHANGED <<object, kernel, faults, harm>>

---------------------------------------------------------------------------
\* Options and modes. On no socket they fail with EBADF.

OptionErrno == IF IsSocketValid THEN errno ELSE "EBADF"
SetOption(set) ==
  /\ AtOnce("option", 0) /\ Errno(OptionErrno)
  /\ opts' = IF IsSocketValid THEN opts \union set ELSE opts
  /\ UNCHANGED <<object, fds, link, inq, accepted, signals, faults>>

SetReceiveTimeout == SetOption({"rcvtimeo"})
SetSendTimeout == SetOption({"sndtimeo"})

\* The Nagle algorithm, lingering, address reuse, type of service: only the
\* errors are followed.
OtherOption == SetOption({})
TypeOfService == IsSocketValid /\ SetOption({})

\* The window sizes look for a socket themselves and leave errno alone.
WindowSize ==
  /\ AtOnce("option", 0)
  /\ err' = IF IsSocketValid THEN Translated[errno] ELSE "InvalidSocket"
  /\ UNCHANGED <<object, kernel, errno, signals, faults>>

\* The interface of multicast; a failure is not translated.
BindInterface ==
  /\ AtOnce("option", 0)
  /\ IF multicast THEN err' = err /\ errno' = OptionErrno
     ELSE err' = "ProtocolError" /\ UNCHANGED errno
  /\ UNCHANGED <<object, kernel, signals, faults>>

\* The member is set first, whether the socket takes the option or not.
SetMulticast(enable) ==
  /\ AtOnce("multicast", 0)
  /\ IF tcp THEN err' = "ProtocolError" /\ UNCHANGED <<errno, multicast>>
     ELSE multicast' = enable /\ Errno(OptionErrno)
  /\ UNCHANGED <<kind, sock, mopen, blocking, kernel, signals, faults>>

\* SetBlocking() and SetNonblocking(): the member follows fcntl().
SetMode(block) ==
  /\ AtOnce("mode", 0)
  /\ IF IsSocketValid THEN blocking' = block /\ UNCHANGED <<err, errno>>
     ELSE Errno("EBADF") /\ UNCHANGED blocking
  /\ UNCHANGED <<kind, sock, mopen, multicast, kernel, signals, faults>>

\* Only the sending side is shut down, whatever is asked for.
Shutdown ==
  /\ AtOnce("shutdown", 0)
  /\ IF IsSocketValid /\ link = "up" THEN link' = "half" /\ UNCHANGED <<err, errno>>
     ELSE link' = link /\ Errno(IF IsSocketValid THEN "ENOTCONN" ELSE "EBADF")
  /\ UNCHANGED <<object, fds, opts, inq, accepted, signals, faults>>

---------------------------------------------------------------------------
\* CPassiveSocket

\* Its user makes the descriptor himself.
PassiveInitialize ==
  /\ ~active /\ ~IsSocketValid
  /\ AtOnce("initialize", 0) /\ Initialize
  /\ UNCHANGED <<kind, mopen, blocking, multicast, accepted, signals, faults>>

\* A failing bind, listen or join closes the socket; m_open is left as it is.
BindOr(success) ==
  /\ ~active /\ IsSocketValid /\ link = "none"
  /\ AtOnce("bind", 0)
  /\ \/ Errno(errno) /\ link' = success /\ UNCHANGED <<sock, fds, opts, inq, faults>>
     \/ Fault /\ Close("EADDRINUSE")
  /\ UNCHANGED <<kind, mopen, blocking, multicast, accepted, signals>>

Listen == BindOr(IF tcp THEN "listening" ELSE "none")

\* It joins the group, but does not set m_bIsMulticast.
BindMulticast == ~tcp /\ BindOr("none")

StartAccept ==
  /\ ~active /\ tcp /\ link = "listening"
  /\ Start("accept", 0, "accept")
  /\ UNCHANGED <<object, kernel, err, errno, signals, faults>>

\* errno is reset before accept(), which is called again when interrupted; any
\* other error gives no object.
Accept ==
  /\ at = "accept"
  /\ \/ /\ inq > 0 /\ Free # {} /\ inq' = inq - 1
        /\ fds' = fds \union {Fresh} /\ accepted' = accepted \union {Fresh}
        /\ errno' = "0" /\ Finish(1) /\ UNCHANGED <<err, signals>>
     \/ Free = {} /\ Errno("EMFILE") /\ Finish(0) /\ UNCHANGED <<fds, inq, accepted, signals>>
     \/ /\ inq = 0 /\ ("rcvtimeo" \in opts \/ ~blocking)
        /\ Errno("EAGAIN") /\ Finish(0) /\ UNCHANGED <<fds, inq, accepted, signals>>
     \/ inq = 0 /\ blocking /\ Signal /\ Errno("EINTR") /\ UNCHANGED <<fds, inq, accepted, at, ret, late>>
  /\ UNCHANGED <<object, opts, link, call, faults, harm>>

\* The destructor of an accepted CActiveSocket.
DropAccepted ==
  /\ accepted # {}
  /\ AtOnce("drop", 0)
  /\ \E f \in accepted : fds' = fds \ {f} /\ accepted' = accepted \ {f}
  /\ UNCHANGED <<object, opts, link, inq, err, errno, signals, faults>>

---------------------------------------------------------------------------
\* Time, the network and the peer

\* The first system call of a loop is made before its timeout passes.
TimePasses ==
  /\ ~late
  /\ at \in {"select", "wait"} \/ (at \in {"recv", "send"} /\ call.again)
  /\ late' = TRUE
  /\ UNCHANGED <<object, kernel, at, call, ret, harm, err, errno, signals, faults>>

Peer ==
  /\ \/ link = "pending" /\ link' \in {"up", "refused"} /\ UNCHANGED inq
     \/ link \in {"up", "half"} /\ link' = "closed" /\ UNCHANGED inq
     \/ /\ inq < MaxQueue /\ IsSocketValid
        /\ tcp => link \in {"up", "half", "listening"}
        /\ inq' = inq + 1 /\ UNCHANGED link
  /\ UNCHANGED <<object, fds, opts, accepted, thread, err, errno, signals, faults>>

\* What the program does of its own accord.
User ==
  \/ BindPort \/ OpenPort \/ ClosePort \/ Available
  \/ \E n \in 1..MaxRequest : Read(n) \/ Write("write", n) \/ Write("readSize", n) \/ WaitForData("wait", n)
  \/ WaitForData("flush", MaxQueue + 1)
  \/ SetReceiveTimeout \/ SetSendTimeout \/ OtherOption
  \/ TypeOfService \/ WindowSize \/ BindInterface
  \/ \E b \in BOOLEAN : SetMulticast(b) \/ SetMode(b)
  \/ Shutdown \/ PassiveInitialize \/ Listen \/ BindMulticast
  \/ StartAccept \/ DropAccepted

\* The steps of a call that was begun.
Step == Connect \/ Select \/ Receive \/ ReceiveLate \/ Send \/ SendLate \/ Wait \/ Accept

Next == User \/ Step \/ TimePasses \/ Peer

\* The thread runs and time passes; neither the peer nor the user has to act.
Fairness == WF_vars(Step) /\ WF_vars(TimePasses)
Spec == Init /\ [][Next]_vars /\ Fairness

---------------------------------------------------------------------------
Ends == {"none", "pending", "up", "refused", "half", "closed", "listening"}
Harms == {"lost", "stray", "resent", "phantom"} \X DOMAIN Translated

\* Types; readData() and writeData() return a size_t, never an error code.
TypeOK ==
  /\ sock \in 0..MaxFds /\ mopen \in BOOLEAN /\ blocking \in BOOLEAN
  /\ multicast \in BOOLEAN /\ late \in BOOLEAN
  /\ err \in {Translated[e] : e \in DOMAIN Translated} \union {"Timedout"}
  /\ errno \in DOMAIN Translated /\ fds \subseteq 1..MaxFds /\ accepted \subseteq fds
  /\ opts \subseteq {"rcvtimeo", "sndtimeo"} /\ link \in Ends /\ inq \in 0..MaxQueue
  /\ signals \in 0..MaxSignals /\ faults \in 0..MaxFaults /\ harm \subseteq Harms
  /\ at \in {"idle", "connect", "select", "recv", "send", "wait", "accept"}
  /\ call.op \in {"read", "write", "readSize"} => ret >= 0

\* Each descriptor the kernel has open belongs to the object or to one that
\* Accept() returned, and the object's own one is open: none leaks over failing
\* opens, failing listens and interrupted accepts, and none is used when closed.
DescriptorAccounted == fds = accepted \union ({sock} \ {NoSocket})

\* Bytes are lost, written outside the buffer or sent twice, and an open() that
\* made no connection returns true, only after a call was interrupted; or, of
\* TCP, bytes are lost after a call that timed out: the loops trust an errno
\* that a successful call has not set.
HarmNeedsStaleErrno ==
  \A h \in harm : h[2] = "EINTR" \/ (h = <<"lost", "EAGAIN">> /\ tcp)

\* When waitfordata() has found n bytes, a readData() of n or fewer returns all
\* it was asked for, whatever older calls left in errno.
PromisedReadComplete ==
  (Idle /\ call.op = "read" /\ tcp /\ call.n <= call.promise) => ret = call.n

\* A CActiveSocket that is open, and its open() itself, keeps nobody waiting for
\* ever, a silent peer notwithstanding; but a datagram whose sending finds EINTR
\* in errno is sent again and again.
Floods == at = "send" /\ ~tcp /\ errno = "EINTR"
CallReturns == (~Idle /\ active /\ (mopen \/ call.op = "open")) ~> (Idle \/ Floods)
=============================================================================
