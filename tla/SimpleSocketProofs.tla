-------------------------- MODULE SimpleSocketProofs --------------------------
(***************************************************************************)
(* Theorems about SimpleSocket, for every number of descriptors, every     *)
(* size of queue and request, and every number of signals and faults.      *)
(*                                                                         *)
(* Why only EINTR does harm in the loops of Receive and Send: a loop comes *)
(* round again only after an errno of EINTR, and nothing but the loop sets *)
(* errno while it runs (Rounds).  Why a promised read is complete: nothing *)
(* takes bytes between waitfordata() and the read that follows (Promises). *)
(***************************************************************************)
EXTENDS SimpleSocket, WellFoundedInduction, TLAPS

Errors == {"0", "EINTR", "EAGAIN", "EINPROGRESS", "EBADF", "EMFILE", "EPIPE", "ENOTCONN",
           "ECONNREFUSED", "EINVAL", "EISCONN", "EADDRINUSE"}
Codes == {Translated[e] : e \in Errors} \union {"Timedout"}

AtOnceOps == {"close", "bindport", "available", "option", "multicast", "mode", "shutdown",
              "initialize", "bind", "drop"}
LoopOps == {"open", "read", "write", "readSize", "wait", "flush", "accept"}
Ops == {"none"} \union AtOnceOps \union LoopOps

CallRecords == [op : Ops, n : Nat, got : Int, taken : Nat, copies : {0, 1}, size : Nat,
                promise : Nat, again : BOOLEAN]

\* The call under way, and the operations that may be where the thread is.
Calls ==
  /\ call \in CallRecords
  /\ ret \in Int
  /\ at \in {"connect", "select"} => call.op = "open"
  /\ at = "accept" => call.op = "accept"
  /\ at = "send" => call.op \in {"write", "readSize"}
  /\ at = "recv" => call.op \in {"read", "flush"} /\ call.n > 0
  /\ at = "wait" => call.op \in {"wait", "flush"}

\* A loop that came round again did so because of EINTR, which errno still is;
\* before the first round nothing has been received or sent.
Rounds ==
  /\ at \in {"recv", "send"} /\ call.again => errno = "EINTR"
  /\ at \in {"recv", "wait"} /\ ~call.again => call.got = 0 /\ call.taken = 0
  /\ at = "recv" /\ ~call.again => ~late
  /\ at = "wait" => ~call.again
  /\ at = "send" /\ ~call.again => call.copies = 0

\* The bytes that waitfordata() found are there until they are read.
Promises ==
  /\ at = "wait" => link # "listening"
  /\ Idle /\ call.op = "wait" /\ ret = 0 /\ tcp => inq >= call.size /\ link # "listening"
  /\ at = "recv" /\ call.op = "read" /\ tcp /\ call.n <= call.promise =>
       ~call.again /\ inq >= call.n /\ link # "listening"

\* An accepted connection is another one.
Apart == sock \notin accepted

IInv == /\ TypeOK /\ Calls /\ Rounds /\ Promises /\ Apart
        /\ DescriptorAccounted /\ HarmNeedsStaleErrno /\ PromisedReadComplete

\* What the steps preserve each in its own way: the object and the kernel; the
\* descriptors; the thread and its call.
KernelTypes ==
  /\ sock \in 0..MaxFds /\ mopen \in BOOLEAN /\ blocking \in BOOLEAN /\ multicast \in BOOLEAN
  /\ err \in Codes /\ errno \in Errors
  /\ fds \subseteq 1..MaxFds /\ accepted \subseteq fds
  /\ opts \subseteq {"rcvtimeo", "sndtimeo"} /\ link \in Ends /\ inq \in 0..MaxQueue
  /\ signals \in 0..MaxSignals /\ faults \in 0..MaxFaults

Owned == Apart /\ DescriptorAccounted

ThreadOK ==
  /\ late \in BOOLEAN /\ harm \subseteq Harms
  /\ at \in {"idle", "connect", "select", "recv", "send", "wait", "accept"}
  /\ call.op \in {"read", "write", "readSize"} => ret >= 0
  /\ Calls /\ Rounds /\ Promises /\ HarmNeedsStaleErrno /\ PromisedReadComplete

-----------------------------------------------------------------------------
\* What TranslateSocketError() makes of an errno.
LEMMA TranslatedFacts ==
  /\ DOMAIN Translated = Errors
  /\ \A e \in Errors : /\ Translated[e] = "Interrupted" <=> e = "EINTR"
                       /\ Translated[e] = "Ewouldblock" <=> e = "EAGAIN"
                       /\ Translated[e] \in Codes
  /\ Translated["0"] = "Success" /\ Translated["EBADF"] = "InvalidSocket"
  /\ Translated["EINVAL"] = "ProtocolError"
  /\ {"Success", "InvalidSocket", "ProtocolError", "Timedout"} \subseteq Codes
<1>1. DOMAIN Translated = Errors
  BY DEF Translated, Errors
<1>2. /\ \A e \in Errors : /\ Translated[e] = "Interrupted" <=> e = "EINTR"
                           /\ Translated[e] = "Ewouldblock" <=> e = "EAGAIN"
      /\ Translated["0"] = "Success" /\ Translated["EBADF"] = "InvalidSocket"
      /\ Translated["EINVAL"] = "ProtocolError"
  BY DEF Translated, Errors
<1>3. \A e \in Errors : Translated[e] \in Codes
  BY DEF Codes
<1>4. "0" \in Errors /\ "EBADF" \in Errors /\ "EINVAL" \in Errors /\ "Timedout" \in Codes
  BY DEF Errors, Codes
<1>5. {"Success", "InvalidSocket", "ProtocolError", "Timedout"} \subseteq Codes
  BY <1>2, <1>3, <1>4
<1> QED
  BY <1>1, <1>2, <1>3, <1>5

\* The invariant by its parts, in a state and in the next.
LEMMA Parts ==
  /\ IInv => KernelTypes /\ Owned /\ ThreadOK
  /\ KernelTypes' /\ Owned' /\ ThreadOK' => IInv'
<1>1. {Translated[e] : e \in DOMAIN Translated} \union {"Timedout"} = Codes
  BY TranslatedFacts DEF Codes
<1>2. DOMAIN Translated = Errors
  BY TranslatedFacts
<1>3. IInv => KernelTypes /\ Owned /\ ThreadOK
  BY <1>1, <1>2 DEF IInv, TypeOK, KernelTypes, Owned, ThreadOK
<1>4. KernelTypes' /\ ThreadOK' => TypeOK'
  BY <1>1, <1>2 DEF TypeOK, KernelTypes, ThreadOK
<1> QED
  BY <1>3, <1>4 DEF IInv, Owned, ThreadOK

-----------------------------------------------------------------------------
\* The descriptor.

\* socket() and accept() find the least free one.
LEMMA FreshFacts ==
  ASSUME Free # {}
  PROVE  Fresh \in Free
<1> DEFINE R == OpToRel(<, Nat)
<1>1. IsWellFoundedOn(R, Nat)
  BY NatLessThanWellFounded
<1>2. \A a, b \in Nat : a < b => <<a, b>> \in R
  BY DEF OpToRel
<1>3. Free \in SUBSET Nat
  BY SocketAssumption DEF Free
<1> HIDE DEF R
<1>4. PICK x \in Free : \A y \in Free : ~(<<y, x>> \in R)
  BY <1>1, <1>3, WFMin, Zenon
<1>5. \A m \in Free : m \in Nat /\ x \in Nat /\ ~(m < x)
  BY <1>2, <1>3, <1>4, Zenon
<1>6. \E n \in Free : \A m \in Free : n <= m
  BY <1>5
<1> QED
  BY <1>6, Zenon DEF Fresh

\* errno, and the error of the object that follows it.
LEMMA ErrnoFacts ==
  ASSUME NEW e \in Errors, Errno(e)
  PROVE  errno' = e /\ errno' \in Errors /\ err' \in Codes
BY TranslatedFacts DEF Errno

\* Initialize() on an object without a socket.
LEMMA InitializeFacts ==
  ASSUME KernelTypes, Owned, ~IsSocketValid, Initialize, UNCHANGED accepted
  PROVE  /\ sock' \in 0..MaxFds /\ err' \in Codes /\ errno' \in Errors
         /\ fds' \subseteq 1..MaxFds /\ accepted' \subseteq fds'
         /\ opts' \subseteq {"rcvtimeo", "sndtimeo"} /\ link' \in Ends /\ inq' \in 0..MaxQueue
         /\ Owned'
<1> USE SocketAssumption DEF KernelTypes, Owned, Apart, DescriptorAccounted, IsSocketValid, NoSocket
<1>1. "EMFILE" \in Errors /\ "0" \in Errors /\ "none" \in Ends
  BY DEF Errors, Ends
<1>2. CASE Free = {}
  BY <1>1, <1>2, ErrnoFacts DEF Initialize
<1>3. CASE Free # {}
  <2>1. Fresh \in 1..MaxFds /\ Fresh \notin fds
    BY <1>3, FreshFacts DEF Free
  <2>2. /\ sock' = Fresh /\ fds' = fds \union {Fresh} /\ opts' = {} /\ link' = "none"
        /\ inq' = 0 /\ Errno("0")
    BY <1>3 DEF Initialize
  <2>3. err' \in Codes /\ errno' \in Errors
    BY <1>1, <2>2, ErrnoFacts
  <2> QED
    BY <1>1, <2>1, <2>2, <2>3
<1> QED
  BY <1>2, <1>3

\* Close() closes the object's own descriptor and no other.
LEMMA CloseFacts ==
  ASSUME KernelTypes, Owned, NEW e \in Errors, Close(e), UNCHANGED accepted
  PROVE  /\ sock' \in 0..MaxFds /\ err' \in Codes /\ errno' \in Errors
         /\ fds' \subseteq 1..MaxFds /\ accepted' \subseteq fds'
         /\ opts' \subseteq {"rcvtimeo", "sndtimeo"} /\ link' \in Ends /\ inq' \in 0..MaxQueue
         /\ Owned'
<1>1. /\ sock' = NoSocket /\ fds' = fds \ {sock} /\ opts' = {} /\ link' = "none" /\ inq' = 0
      /\ err' \in Codes /\ errno' \in Errors
  BY ErrnoFacts DEF Close
<1>2. "none" \in Ends /\ 0 \notin accepted
  BY DEF Ends, KernelTypes
<1> QED
  BY <1>1, <1>2, SocketAssumption
     DEF KernelTypes, Owned, Apart, DescriptorAccounted, NoSocket

-----------------------------------------------------------------------------
\* The thread outside a call: what its last call left.
LEMMA ThreadIdle ==
  ASSUME at' = "idle", late' \in BOOLEAN, call' \in CallRecords, ret' \in Int,
         call'.op \in {"read", "write", "readSize"} => ret' >= 0,
         harm' \subseteq Harms, HarmNeedsStaleErrno',
         call'.op = "wait" /\ ret' = 0 /\ tcp' => inq' >= call'.size /\ link' # "listening",
         call'.op = "read" /\ tcp' /\ call'.n <= call'.promise => ret' = call'.n
  PROVE  ThreadOK'
BY DEF ThreadOK, Calls, Rounds, Promises, PromisedReadComplete, Idle

\* A call has received and sent nothing when it begins.
LEMMA NoCallFacts ==
  /\ NoCall \in CallRecords
  /\ NoCall.got = 0 /\ NoCall.taken = 0 /\ NoCall.copies = 0 /\ ~NoCall.again
BY DEF NoCall, CallRecords, Ops

\* A call without a loop or a wait, of an operation with no result of its own.
LEMMA AtOnceFacts ==
  ASSUME ThreadOK, NEW op \in AtOnceOps, NEW r \in Int, AtOnce(op, r)
  PROVE  ThreadOK'
<1>1. /\ at' = "idle" /\ late' = late /\ ret' = r /\ harm' = {}
      /\ call' = [NoCall EXCEPT !.op = op]
  BY DEF AtOnce, Idle
<1>0. NoCall \in CallRecords
  BY NoCallFacts
<1>2. call' \in CallRecords /\ call'.op = op
  BY ONLY <1>0, <1>1, op \in AtOnceOps DEF CallRecords, Ops
<1>3. late' \in BOOLEAN
  BY <1>1 DEF ThreadOK
<1>4. HarmNeedsStaleErrno' /\ harm' \subseteq Harms
  BY <1>1 DEF HarmNeedsStaleErrno
<1> QED
  BY <1>1, <1>2, <1>3, <1>4, ThreadIdle DEF AtOnceOps

-----------------------------------------------------------------------------
\* The calls without a loop or a wait.

\* What leaves the descriptors alone leaves them accounted for.
LEMMA SameDescriptors ==
  ASSUME Owned, UNCHANGED <<sock, fds, accepted>>
  PROVE  Owned'
BY DEF Owned, Apart, DescriptorAccounted

\* closePort() and bindport() close the socket.
LEMMA ClosingSteps ==
  ASSUME KernelTypes, Owned, ThreadOK, ClosePort \/ BindPort
  PROVE  KernelTypes' /\ Owned' /\ ThreadOK'
<1>1. "EBADF" \in Errors
  BY DEF Errors
<1>2. CASE ClosePort
  <2>1. ThreadOK'
    <3>1. AtOnce("close", 0) /\ "close" \in AtOnceOps /\ 0 \in Int
      BY <1>2 DEF ClosePort, AtOnceOps
    <3> QED
      BY <3>1, AtOnceFacts, Zenon
  <2>2. errno \in Errors /\ Close(errno) /\ UNCHANGED accepted
    BY <1>2 DEF KernelTypes, ClosePort
  <2>3. /\ mopen' = FALSE /\ UNCHANGED <<blocking, multicast, signals, faults>>
    BY <1>2 DEF ClosePort
  <2> QED
    BY <2>1, <2>2, <2>3, CloseFacts DEF KernelTypes
<1>3. CASE BindPort
  <2>1. ThreadOK'
    <3>1. AtOnce("bindport", 1) /\ "bindport" \in AtOnceOps /\ 1 \in Int
      BY <1>3 DEF BindPort, AtOnceOps
    <3> QED
      BY <3>1, AtOnceFacts, Zenon
  <2>2. Close("EBADF") /\ UNCHANGED accepted
    BY <1>3 DEF BindPort
  <2>3. /\ mopen' = FALSE /\ UNCHANGED <<blocking, multicast, signals, faults>>
    BY <1>3 DEF BindPort
  <2> QED
    BY <1>1, <2>1, <2>2, <2>3, CloseFacts DEF KernelTypes
<1> QED
  BY <1>2, <1>3

\* available(), and the options: errno is that of the call, or EBADF.
LEMMA OptionSteps ==
  ASSUME KernelTypes, Owned, ThreadOK,
         \/ Available \/ WindowSize \/ BindInterface
         \/ SetReceiveTimeout \/ SetSendTimeout \/ OtherOption \/ TypeOfService
  PROVE  KernelTypes' /\ Owned' /\ ThreadOK'
<1>1. OptionErrno \in Errors /\ errno \in Errors
  BY DEF OptionErrno, KernelTypes, Errors
<1>2. CASE Available
  <2>1. Waiting \in Int
    BY DEF Waiting, Least, KernelTypes
  <2>2. ThreadOK'
    <3>1. AtOnce("available", Waiting) /\ "available" \in AtOnceOps /\ Waiting \in Int
      BY <1>2, <2>1 DEF Available, AtOnceOps
    <3> QED
      BY <3>1, AtOnceFacts, Zenon
  <2>3. UNCHANGED <<object, kernel, err, errno, signals, faults>>
    BY <1>2 DEF Available
  <2> QED
    BY <2>2, <2>3, SameDescriptors DEF KernelTypes, object, kernel
<1>3. CASE WindowSize
  <2>1. ThreadOK'
    <3>1. AtOnce("option", 0) /\ "option" \in AtOnceOps /\ 0 \in Int
      BY <1>3 DEF WindowSize, AtOnceOps
    <3> QED
      BY <3>1, AtOnceFacts, Zenon
  <2>2. err' \in Codes
    BY <1>1, <1>3, TranslatedFacts DEF WindowSize
  <2>3. UNCHANGED <<object, kernel, errno, signals, faults>>
    BY <1>3 DEF WindowSize
  <2> QED
    BY <2>1, <2>2, <2>3, SameDescriptors DEF KernelTypes, object, kernel
<1>4. CASE BindInterface
  <2>1. ThreadOK'
    <3>1. AtOnce("option", 0) /\ "option" \in AtOnceOps /\ 0 \in Int
      BY <1>4 DEF BindInterface, AtOnceOps
    <3> QED
      BY <3>1, AtOnceFacts, Zenon
  <2>2. err' \in Codes /\ errno' \in Errors
    BY <1>1, <1>4, TranslatedFacts DEF BindInterface, KernelTypes
  <2>3. UNCHANGED <<object, kernel, signals, faults>>
    BY <1>4 DEF BindInterface
  <2> QED
    BY <2>1, <2>2, <2>3, SameDescriptors DEF KernelTypes, object, kernel
<1>5. ASSUME NEW set \in SUBSET {"rcvtimeo", "sndtimeo"}, SetOption(set)
      PROVE  KernelTypes' /\ Owned' /\ ThreadOK'
  <2>1. ThreadOK'
    <3>1. AtOnce("option", 0) /\ "option" \in AtOnceOps /\ 0 \in Int
      BY <1>5 DEF SetOption, AtOnceOps
    <3> QED
      BY <3>1, AtOnceFacts, Zenon
  <2>2. err' \in Codes /\ errno' \in Errors
    BY <1>1, <1>5, ErrnoFacts DEF SetOption
  <2>3. /\ opts' \subseteq {"rcvtimeo", "sndtimeo"}
        /\ UNCHANGED <<object, fds, link, inq, accepted, signals, faults>>
    BY <1>5 DEF SetOption, KernelTypes
  <2> QED
    BY <2>1, <2>2, <2>3, SameDescriptors DEF KernelTypes, object
<1> QED
  BY <1>2, <1>3, <1>4, <1>5
     DEF SetReceiveTimeout, SetSendTimeout, OtherOption, TypeOfService

\* The modes, shutdown() and the descriptors Accept() returned.
LEMMA ModeSteps ==
  ASSUME KernelTypes, Owned, ThreadOK,
         \/ \E b \in BOOLEAN : SetMulticast(b) \/ SetMode(b)
         \/ Shutdown \/ DropAccepted
  PROVE  KernelTypes' /\ Owned' /\ ThreadOK'
<1>1. OptionErrno \in Errors /\ {"EBADF", "ENOTCONN"} \subseteq Errors
  BY DEF OptionErrno, KernelTypes, Errors
<1>2. ASSUME NEW b \in BOOLEAN, SetMulticast(b)
      PROVE  KernelTypes' /\ Owned' /\ ThreadOK'
  <2>1. ThreadOK'
    <3>1. AtOnce("multicast", 0) /\ "multicast" \in AtOnceOps /\ 0 \in Int
      BY <1>2 DEF SetMulticast, AtOnceOps
    <3> QED
      BY <3>1, AtOnceFacts, Zenon
  <2>2. err' \in Codes /\ errno' \in Errors /\ multicast' \in BOOLEAN
    BY <1>1, <1>2, ErrnoFacts, TranslatedFacts DEF SetMulticast, KernelTypes
  <2>3. UNCHANGED <<sock, mopen, blocking, kernel, signals, faults>>
    BY <1>2 DEF SetMulticast
  <2> QED
    BY <2>1, <2>2, <2>3, SameDescriptors DEF KernelTypes, kernel
<1>3. ASSUME NEW b \in BOOLEAN, SetMode(b)
      PROVE  KernelTypes' /\ Owned' /\ ThreadOK'
  <2>1. ThreadOK'
    <3>1. AtOnce("mode", 0) /\ "mode" \in AtOnceOps /\ 0 \in Int
      BY <1>3 DEF SetMode, AtOnceOps
    <3> QED
      BY <3>1, AtOnceFacts, Zenon
  <2>2. err' \in Codes /\ errno' \in Errors /\ blocking' \in BOOLEAN
    BY <1>1, <1>3, ErrnoFacts DEF SetMode, KernelTypes
  <2>3. UNCHANGED <<sock, mopen, multicast, kernel, signals, faults>>
    BY <1>3 DEF SetMode
  <2> QED
    BY <2>1, <2>2, <2>3, SameDescriptors DEF KernelTypes, kernel
<1>4. CASE Shutdown
  <2>1. ThreadOK'
    <3>1. AtOnce("shutdown", 0) /\ "shutdown" \in AtOnceOps /\ 0 \in Int
      BY <1>4 DEF Shutdown, AtOnceOps
    <3> QED
      BY <3>1, AtOnceFacts, Zenon
  <2>2. err' \in Codes /\ errno' \in Errors /\ link' \in Ends
    BY <1>1, <1>4, ErrnoFacts DEF Shutdown, KernelTypes, Ends
  <2>3. UNCHANGED <<object, fds, opts, inq, accepted, signals, faults>>
    BY <1>4 DEF Shutdown
  <2> QED
    BY <2>1, <2>2, <2>3, SameDescriptors DEF KernelTypes, object
<1>5. CASE DropAccepted
  <2>1. ThreadOK'
    <3>1. AtOnce("drop", 0) /\ "drop" \in AtOnceOps /\ 0 \in Int
      BY <1>5 DEF DropAccepted, AtOnceOps
    <3> QED
      BY <3>1, AtOnceFacts, Zenon
  <2>2. PICK f \in accepted : fds' = fds \ {f} /\ accepted' = accepted \ {f}
    BY <1>5 DEF DropAccepted
  <2>3. UNCHANGED <<object, opts, link, inq, err, errno, signals, faults>>
    BY <1>5 DEF DropAccepted
  <2>4. Owned'
    BY <2>2, <2>3 DEF Owned, Apart, DescriptorAccounted, object
  <2> QED
    BY <2>1, <2>2, <2>3, <2>4 DEF KernelTypes, object
<1> QED
  BY <1>2, <1>3, <1>4, <1>5

\* CPassiveSocket makes its descriptor, and loses it when bind or listen fails.
LEMMA PassiveSteps ==
  ASSUME KernelTypes, Owned, ThreadOK, PassiveInitialize \/ Listen \/ BindMulticast
  PROVE  KernelTypes' /\ Owned' /\ ThreadOK'
<1>1. "EADDRINUSE" \in Errors /\ errno \in Errors
  BY DEF KernelTypes, Errors
<1>2. CASE PassiveInitialize
  <2>1. ThreadOK'
    <3>1. AtOnce("initialize", 0) /\ "initialize" \in AtOnceOps /\ 0 \in Int
      BY <1>2 DEF PassiveInitialize, AtOnceOps
    <3> QED
      BY <3>1, AtOnceFacts, Zenon
  <2>2. /\ ~IsSocketValid /\ Initialize
        /\ UNCHANGED <<mopen, blocking, multicast, accepted, signals, faults>>
    BY <1>2 DEF PassiveInitialize
  <2> QED
    BY <2>1, <2>2, InitializeFacts DEF KernelTypes
<1>3. ASSUME NEW success \in Ends, BindOr(success)
      PROVE  KernelTypes' /\ Owned' /\ ThreadOK'
  <2>1. ThreadOK'
    <3>1. AtOnce("bind", 0) /\ "bind" \in AtOnceOps /\ 0 \in Int
      BY <1>3 DEF BindOr, AtOnceOps
    <3> QED
      BY <3>1, AtOnceFacts, Zenon
  <2>2. UNCHANGED <<mopen, blocking, multicast, accepted, signals>>
    BY <1>3 DEF BindOr
  <2>3. CASE Errno(errno) /\ link' = success /\ UNCHANGED <<sock, fds, opts, inq, faults>>
    <3>1. err' \in Codes /\ errno' \in Errors
      BY <1>1, <2>3, ErrnoFacts
    <3> QED
      BY <2>1, <2>2, <2>3, <3>1, SameDescriptors DEF KernelTypes
  <2>4. CASE Fault /\ Close("EADDRINUSE")
    <3>1. faults' \in 0..MaxFaults
      BY <2>4, SocketAssumption DEF Fault, KernelTypes
    <3> QED
      BY <1>1, <2>1, <2>2, <2>4, <3>1, CloseFacts DEF KernelTypes
  <2> QED
    BY <1>3, <2>3, <2>4 DEF BindOr
<1>4. "listening" \in Ends /\ "none" \in Ends
  BY DEF Ends
<1> QED
  BY <1>2, <1>3, <1>4 DEF Listen, BindMulticast
-----------------------------------------------------------------------------
\* The calls that begin here and go on in steps of their own.

\* A call begins with nothing received, sent or harmed, and knows the promise.
LEMMA StartFacts ==
  ASSUME ThreadOK, NEW op \in LoopOps, NEW n \in Nat, NEW l, Start(op, n, l)
  PROVE  /\ Idle /\ at' = l /\ late' = FALSE /\ harm' = {} /\ ret' = 0
         /\ call' \in CallRecords /\ call'.op = op /\ call'.n = n /\ call'.promise = Promised
         /\ call'.got = 0 /\ call'.taken = 0 /\ call'.copies = 0 /\ ~call'.again
<1>1. Promised \in Nat
  BY DEF Promised, ThreadOK, Calls, CallRecords
<1>2. call' = [NoCall EXCEPT !.op = op, !.n = n, !.promise = Promised]
  BY DEF Start
<1> HIDE DEF Promised
<1>3. /\ call' \in CallRecords /\ call'.op = op /\ call'.n = n /\ call'.promise = Promised
      /\ call'.got = 0 /\ call'.taken = 0 /\ call'.copies = 0 /\ ~call'.again
  BY ONLY <1>1, <1>2, NoCallFacts, op \in LoopOps, n \in Nat DEF CallRecords, Ops
<1> QED
  BY <1>3 DEF Start

\* Opening, accepting and sending start without a promise to keep.
LEMMA ThreadStarts ==
  ASSUME ThreadOK, NEW op \in LoopOps, NEW n \in Nat, NEW l, Start(op, n, l),
         \/ l = "connect" /\ op = "open"
         \/ l = "accept" /\ op = "accept"
         \/ l = "send" /\ op \in {"write", "readSize"}
         \/ l = "wait" /\ op \in {"wait", "flush"} /\ link' # "listening"
  PROVE  ThreadOK'
<1>1. /\ at' = l /\ late' = FALSE /\ harm' = {} /\ ret' = 0
      /\ call' \in CallRecords /\ call'.op = op
      /\ call'.got = 0 /\ call'.taken = 0 /\ call'.copies = 0 /\ ~call'.again
  BY StartFacts
<1>2. HarmNeedsStaleErrno' /\ harm' \subseteq Harms
  BY <1>1 DEF HarmNeedsStaleErrno
<1>3. Calls' /\ Rounds' /\ Promises' /\ PromisedReadComplete'
  BY <1>1 DEF Calls, Rounds, Promises, PromisedReadComplete, Idle
<1>4. late' \in BOOLEAN
  BY <1>1, Zenon
<1>5. at' \in {"connect", "send", "wait", "accept"} /\ ret' >= 0
  BY ONLY <1>1, l \in {"connect", "send", "wait", "accept"}
<1> QED
  BY <1>2, <1>3, <1>4, <1>5 DEF ThreadOK

\* A read starts with the bytes that the wait before it has promised.
LEMMA ReadStarts ==
  ASSUME KernelTypes, Owned, ThreadOK, NEW n \in 1..MaxRequest, Read(n)
  PROVE  KernelTypes' /\ Owned' /\ ThreadOK'
<1>1. Start("read", n, "recv") /\ "read" \in LoopOps /\ n \in Nat /\ n > 0
  BY SocketAssumption DEF Read, LoopOps
<1>2. /\ Idle /\ at' = "recv" /\ late' = FALSE /\ harm' = {} /\ ret' = 0
      /\ call' \in CallRecords /\ call'.op = "read" /\ call'.n = n /\ call'.promise = Promised
      /\ call'.got = 0 /\ call'.taken = 0 /\ call'.copies = 0 /\ ~call'.again
  BY <1>1, StartFacts
<1>3. err' = "Success" /\ UNCHANGED <<object, kernel, errno, signals, faults>>
  BY DEF Read
<1>4. tcp' <=> tcp
  BY <1>3 DEF tcp, object
<1>5. Promised > 0 => Promised = call.size /\ call.op = "wait" /\ ret = 0
  BY DEF Promised
<1>6. Promised \in Nat /\ inq \in Nat
  BY DEF Promised, ThreadOK, Calls, CallRecords, KernelTypes
<1>7. tcp /\ n <= Promised => inq >= n /\ link # "listening"
  BY <1>1, <1>2, <1>5, <1>6 DEF ThreadOK, Promises
<1>8. HarmNeedsStaleErrno' /\ harm' \subseteq Harms
  BY <1>2 DEF HarmNeedsStaleErrno
<1>9. Calls' /\ Rounds' /\ PromisedReadComplete'
  BY <1>1, <1>2 DEF Calls, Rounds, PromisedReadComplete, Idle
<1>10. Promises'
  BY <1>2, <1>3, <1>4, <1>7 DEF Promises, Idle, kernel
<1>11. ThreadOK'
  <2>1. late' \in BOOLEAN
    BY <1>2, Zenon
  <2>2. ret' >= 0 /\ at' = "recv"
    BY ONLY <1>2
  <2> QED
    BY <2>1, <2>2, <1>8, <1>9, <1>10 DEF ThreadOK
<1>12. KernelTypes'
  BY <1>3, TranslatedFacts DEF KernelTypes, object, kernel
<1>13. Owned'
  BY <1>3, SameDescriptors DEF object, kernel
<1> QED
  BY <1>11, <1>12, <1>13

\* write() and readSize(), waitfordata() and flush(), and Accept().
LEMMA OtherStarts ==
  ASSUME KernelTypes, Owned, ThreadOK,
         \/ \E n \in 1..MaxRequest : \/ Write("write", n) \/ Write("readSize", n)
                                    \/ WaitForData("wait", n)
         \/ WaitForData("flush", MaxQueue + 1) \/ StartAccept
  PROVE  KernelTypes' /\ Owned' /\ ThreadOK'
<1>1. \A n \in 1..MaxRequest : n \in Nat
  BY SocketAssumption
<1>2. ASSUME NEW op \in {"write", "readSize"}, NEW n \in 1..MaxRequest, Write(op, n)
      PROVE  KernelTypes' /\ Owned' /\ ThreadOK'
  <2>1. Start(op, n, "send") /\ op \in LoopOps /\ n \in Nat
    BY <1>1, <1>2 DEF Write, LoopOps
  <2>2. ThreadOK'
    BY <2>1, ThreadStarts
  <2>3. err' = "Success" /\ UNCHANGED <<object, kernel, errno, signals, faults>>
    BY <1>2 DEF Write
  <2> QED
    BY <2>2, <2>3, SameDescriptors, TranslatedFacts DEF KernelTypes, object, kernel
<1>3. ASSUME NEW op \in {"wait", "flush"}, NEW n \in Nat, WaitForData(op, n)
      PROVE  KernelTypes' /\ Owned' /\ ThreadOK'
  <2>1. /\ Start(op, n, "wait") /\ op \in LoopOps /\ link # "listening"
        /\ UNCHANGED <<object, kernel, err, errno, signals, faults>>
    BY <1>3 DEF WaitForData, LoopOps
  <2>2. link' # "listening"
    BY <2>1 DEF kernel
  <2>3. ThreadOK'
    BY <2>1, <2>2, ThreadStarts
  <2> QED
    BY <2>1, <2>3, SameDescriptors DEF KernelTypes, object, kernel
<1>4. CASE StartAccept
  <2>1. /\ Start("accept", 0, "accept") /\ "accept" \in LoopOps
        /\ UNCHANGED <<object, kernel, err, errno, signals, faults>>
    BY <1>4 DEF StartAccept, LoopOps
  <2>2. ThreadOK'
    BY <2>1, ThreadStarts
  <2> QED
    BY <2>1, <2>2, SameDescriptors DEF KernelTypes, object, kernel
<1>5. MaxQueue + 1 \in Nat
  BY SocketAssumption
<1> QED
  BY <1>1, <1>2, <1>3, <1>4, <1>5

\* open() makes a socket first, unless there is one.
LEMMA OpenStarts ==
  ASSUME KernelTypes, Owned, ThreadOK, OpenPort
  PROVE  KernelTypes' /\ Owned' /\ ThreadOK'
<1>1. Start("open", 0, "connect") /\ "open" \in LoopOps
  BY DEF OpenPort, LoopOps
<1>2. ThreadOK'
  BY <1>1, ThreadStarts
<1>3. /\ blocking' = (blocking /\ sock' = NoSocket)
      /\ UNCHANGED <<mopen, multicast, accepted, signals, faults>>
  BY DEF OpenPort
<1>4. blocking' \in BOOLEAN
  BY <1>3
<1>5. CASE ~IsSocketValid /\ Initialize
  BY <1>2, <1>3, <1>4, <1>5, InitializeFacts DEF KernelTypes
<1>6. CASE UNCHANGED <<sock, fds, opts, link, inq, err, errno>>
  BY <1>2, <1>3, <1>4, <1>6, SameDescriptors DEF KernelTypes
<1> QED
  BY <1>5, <1>6 DEF OpenPort, NeedsSocket
-----------------------------------------------------------------------------
\* The steps of open().

\* The harm of a call stays what it is when a step adds none.
LEMMA HarmKept ==
  ASSUME ThreadOK, UNCHANGED <<harm, kind>>
  PROVE  harm' \subseteq Harms /\ HarmNeedsStaleErrno'
BY DEF ThreadOK, HarmNeedsStaleErrno, tcp

\* Open() has succeeded.
LEMMA OpenedFacts ==
  ASSUME KernelTypes, Owned, ThreadOK, call.op = "open", NEW e \in Errors, Opened(e),
         UNCHANGED <<kind, multicast, accepted, call>>, link' \in Ends,
         signals' \in 0..MaxSignals, faults' \in 0..MaxFaults,
         harm' \subseteq Harms, HarmNeedsStaleErrno'
  PROVE  KernelTypes' /\ Owned' /\ ThreadOK'
<1>1. /\ mopen' = TRUE /\ blocking' = TRUE /\ opts' = opts \union {"rcvtimeo", "sndtimeo"}
      /\ err' = "Success" /\ UNCHANGED <<sock, fds, inq>>
      /\ errno' \in {"ENOTCONN", e} /\ at' = "idle" /\ ret' = 1 /\ late' = FALSE
  BY DEF Opened, Finish, Timeouts
<1>2. KernelTypes'
  BY <1>1, TranslatedFacts DEF KernelTypes, Errors
<1>3. Owned'
  BY <1>1, SameDescriptors
<1>4. late' \in BOOLEAN /\ call' \in CallRecords
  BY <1>1, Zenon DEF ThreadOK, Calls
<1>5. ThreadOK'
  BY <1>1, <1>4, ThreadIdle
<1> QED
  BY <1>2, <1>3, <1>5

\* Open() has failed, and closed the socket.
LEMMA NotOpenedFacts ==
  ASSUME KernelTypes, Owned, ThreadOK, call.op = "open", NEW e \in Errors, NotOpened(e),
         UNCHANGED <<kind, multicast, accepted, call>>,
         signals' \in 0..MaxSignals, faults' \in 0..MaxFaults
  PROVE  KernelTypes' /\ Owned' /\ ThreadOK'
<1>1. /\ Close(e) /\ mopen' = FALSE /\ UNCHANGED <<blocking, harm>>
      /\ at' = "idle" /\ ret' = 0 /\ late' = FALSE
  BY DEF NotOpened, Finish
<1>2. KernelTypes' /\ Owned'
  BY <1>1, CloseFacts DEF KernelTypes
<1>3. harm' \subseteq Harms /\ HarmNeedsStaleErrno'
  BY <1>1, HarmKept
<1>4. late' \in BOOLEAN /\ call' \in CallRecords
  BY <1>1, Zenon DEF ThreadOK, Calls
<1>5. ThreadOK'
  BY <1>1, <1>3, <1>4, ThreadIdle
<1> QED
  BY <1>2, <1>5

\* Open() of the sub-class.
LEMMA ConnectStep ==
  ASSUME KernelTypes, Owned, ThreadOK, Connect
  PROVE  KernelTypes' /\ Owned' /\ ThreadOK'
<1>1. /\ at = "connect" /\ call.op = "open"
      /\ UNCHANGED <<kind, multicast, accepted, call, signals>>
  BY DEF Connect, ThreadOK, Calls
<1>2. errno \in Errors /\ {"EISCONN", "EINPROGRESS"} \subseteq Errors
  BY DEF KernelTypes, Errors
<1>3. signals' \in 0..MaxSignals /\ (UNCHANGED faults \/ Fault => faults' \in 0..MaxFaults)
  BY <1>1, SocketAssumption DEF KernelTypes, Fault
<1>4. CASE (UNCHANGED faults \/ Fault) /\ NotOpened(errno)
  BY <1>1, <1>2, <1>3, <1>4, NotOpenedFacts
<1>5. CASE ConnectTCP /\ UNCHANGED faults
  <2>1. CASE NotOpened("EISCONN")
    BY <1>1, <1>2, <1>3, <1>5, <2>1, NotOpenedFacts
  <2>2. CASE /\ Errno("EINPROGRESS") /\ link' = "pending" /\ at' = "select"
             /\ UNCHANGED <<sock, mopen, blocking, fds, opts, inq, late, ret, harm>>
    <3>1. err' \in Codes /\ errno' \in Errors
      BY <1>2, <2>2, ErrnoFacts
    <3>2. KernelTypes'
      BY <1>1, <1>5, <2>2, <3>1 DEF KernelTypes, Ends
    <3>3. Owned'
      BY <1>1, <2>2, SameDescriptors
    <3>4. harm' \subseteq Harms /\ HarmNeedsStaleErrno'
      BY <1>1, <2>2, HarmKept
    <3>5. Calls' /\ Rounds' /\ Promises' /\ PromisedReadComplete'
      BY <1>1, <2>2 DEF ThreadOK, Calls, Rounds, Promises, PromisedReadComplete, Idle
    <3>6. ThreadOK'
      BY <1>1, <2>2, <3>4, <3>5 DEF ThreadOK
    <3> QED
      BY <3>2, <3>3, <3>6
  <2> QED
    BY <1>5, <2>1, <2>2 DEF ConnectTCP
<1>6. CASE ConnectUDP /\ UNCHANGED faults
  <2>1. Opened(errno) /\ UNCHANGED <<link, harm>>
    BY <1>6 DEF ConnectUDP
  <2>2. link' \in Ends /\ harm' \subseteq Harms /\ HarmNeedsStaleErrno'
    BY <1>1, <2>1, HarmKept DEF KernelTypes
  <2> QED
    BY <1>1, <1>2, <1>3, <1>6, <2>1, <2>2, OpenedFacts
<1> QED
  BY <1>4, <1>5, <1>6 DEF Connect

\* Select() of the connect: the phantom connection carries EINTR.
LEMMA SelectStep ==
  ASSUME KernelTypes, Owned, ThreadOK, Select
  PROVE  KernelTypes' /\ Owned' /\ ThreadOK'
<1>1. /\ at = "select" /\ call.op = "open"
      /\ UNCHANGED <<kind, multicast, accepted, call, faults>>
  BY DEF Select, ThreadOK, Calls
<1>2. errno \in Errors /\ {"0", "ECONNREFUSED"} \subseteq Errors
  BY DEF KernelTypes, Errors
<1>3. faults' \in 0..MaxFaults /\ (UNCHANGED signals \/ Signal => signals' \in 0..MaxSignals)
  BY <1>1, SocketAssumption DEF KernelTypes, Signal
<1>4. CASE UNCHANGED <<link, signals, harm>> /\ Opened("0")
  <2>1. link' \in Ends /\ harm' \subseteq Harms /\ HarmNeedsStaleErrno'
    BY <1>1, <1>4, HarmKept DEF KernelTypes
  <2> QED
    BY <1>1, <1>2, <1>3, <1>4, <2>1, OpenedFacts
<1>5. ASSUME NEW e \in {errno, "ECONNREFUSED"}, NotOpened(e), UNCHANGED signals
      PROVE  KernelTypes' /\ Owned' /\ ThreadOK'
  <2>1. e \in Errors
    BY <1>2
  <2> QED
    BY <1>1, <1>3, <1>5, <2>1, NotOpenedFacts
<1>6. CASE /\ Signal /\ UNCHANGED link /\ Opened("0")
           /\ harm' = harm \union {<<"phantom", "EINTR">>}
  <2>1. <<"phantom", "EINTR">> \in Harms
    BY TranslatedFacts DEF Harms, Errors
  <2>2. link' \in Ends /\ harm' \subseteq Harms
    BY <1>6, <2>1 DEF KernelTypes, ThreadOK
  <2>3. HarmNeedsStaleErrno'
    BY <1>1, <1>6 DEF HarmNeedsStaleErrno, ThreadOK, tcp
  <2> QED
    BY <1>1, <1>2, <1>3, <1>6, <2>2, <2>3, OpenedFacts
<1> QED
  BY <1>4, <1>5, <1>6 DEF Select
-----------------------------------------------------------------------------
\* The steps of a read.

\* A receive that succeeds leaves errno alone, and takes what is there; it takes
\* all that is asked for when so much has been received.
LEMMA ReceivedFacts ==
  ASSUME KernelTypes, call \in CallRecords, call.n > 0, NEW o \in Received
  PROVE  /\ o[1] \in Int /\ o[2] \in Errors
         /\ \/ o[1] = -1 /\ (o[2] = "EINTR" => signals < MaxSignals)
            \/ o[1] >= 0 /\ o[1] <= inq /\ o[1] <= call.n /\ o[2] = errno
         /\ tcp /\ inq >= call.n /\ link # "listening" => o[1] = call.n /\ o[2] = errno
<1> USE DEF KernelTypes
<1>1. call.n \in Nat /\ inq \in Nat /\ errno \in Errors
  BY DEF CallRecords
<1>2. {"ENOTCONN", "ECONNREFUSED", "EAGAIN", "EINTR"} \subseteq Errors
  BY DEF Errors
<1>3. CASE inq > 0 /\ link # "listening"
  <2>1. o[1] = (IF tcp THEN Least(call.n, inq) ELSE 1) /\ o[2] = errno
    BY <1>3 DEF Received
  <2> QED
    BY ONLY <1>1, <1>3, <2>1, call.n > 0 DEF Least
<1>4. CASE ~(inq > 0 /\ link # "listening")
  <2>1. ~(inq >= call.n /\ link # "listening")
    BY <1>1, <1>4
  <2>2. \/ o \in {<<-1, "ENOTCONN">>, <<-1, "ECONNREFUSED">>, <<-1, "EAGAIN">>}
        \/ o = <<0, errno>>
        \/ o = <<-1, "EINTR">> /\ signals < MaxSignals
    BY <1>4 DEF Received
  <2> QED
    BY <1>1, <1>2, <2>1, <2>2
<1> QED
  BY <1>3, <1>4

\* One round of Receive. A first round harms nothing but the bytes it got with an
\* old EAGAIN in errno; a later round comes after an EINTR.
LEMMA ReceiveStep ==
  ASSUME KernelTypes, Owned, ThreadOK, Receive
  PROVE  KernelTypes' /\ Owned' /\ ThreadOK'
<1>1. /\ at = "recv" /\ ~late /\ call \in CallRecords /\ call.op \in {"read", "flush"}
      /\ call.n > 0 /\ UNCHANGED <<object, fds, opts, link, accepted, faults>>
  BY DEF Receive, ThreadOK, Calls
<1>2. PICK o \in Received :
         LET k == o[1]
             e == o[2]
             taken == Least(call.taken + AsSize(k), call.n + 1)
             done == ~ReceiveAgain(k, e)
             result == AsSize(ReceiveResult(k, e))
         IN  /\ Errno(e) /\ inq' = inq - AsSize(k)
             /\ signals' = IF e = "EINTR" /\ k = -1 THEN signals + 1 ELSE signals
             /\ call' = [call EXCEPT !.got = k, !.taken = taken, !.again = TRUE]
             /\ harm' = harm \union (IF Stray(k) THEN {<<"stray", errno>>} ELSE {})
                             \union (IF done /\ taken # result THEN {<<"lost", errno>>} ELSE {})
             /\ IF done THEN Finish(result) ELSE UNCHANGED <<at, ret, late>>
  BY DEF Receive
<1> DEFINE k == o[1]
           e == o[2]
           taken == Least(call.taken + AsSize(k), call.n + 1)
           done == ~ReceiveAgain(k, e)
           result == AsSize(ReceiveResult(k, e))
<1>3. /\ k \in Int /\ e \in Errors
      /\ \/ k = -1 /\ (e = "EINTR" => signals < MaxSignals)
         \/ k >= 0 /\ k <= inq /\ k <= call.n /\ e = errno
      /\ tcp /\ inq >= call.n /\ link # "listening" => k = call.n /\ e = errno
  BY <1>1, ReceivedFacts
<1>4. /\ Errno(e) /\ inq' = inq - AsSize(k)
      /\ signals' = IF e = "EINTR" /\ k = -1 THEN signals + 1 ELSE signals
      /\ call' = [call EXCEPT !.got = k, !.taken = taken, !.again = TRUE]
      /\ harm' = harm \union (IF Stray(k) THEN {<<"stray", errno>>} ELSE {})
                      \union (IF done /\ taken # result THEN {<<"lost", errno>>} ELSE {})
      /\ done => Finish(result)
      /\ ~done => UNCHANGED <<at, ret, late>>
  BY <1>2
<1> HIDE DEF k, e
<1>5. /\ AsSize(k) \in Nat /\ AsSize(k) <= inq /\ AsSize(k) <= call.n
      /\ call.n \in Nat /\ call.taken \in Nat /\ inq \in Nat
  BY <1>1, <1>3 DEF AsSize, CallRecords, KernelTypes
<1>6. taken \in Nat /\ (call.taken = 0 => taken = AsSize(k))
  BY ONLY <1>5 DEF Least
<1>7. result \in Nat /\ (result = AsSize(k) \/ (tcp /\ e = "EAGAIN" /\ result = 0))
  BY <1>3, <1>5, TranslatedFacts DEF ReceiveResult, AsSize
<1>8. k = call.n => done /\ result = call.n
  BY <1>3, <1>5 DEF ReceiveAgain, ReceiveResult, AsSize
<1>9. ~done => e = "EINTR"
  BY <1>3, TranslatedFacts DEF ReceiveAgain
<1> HIDE DEF taken, result, done
<1>10. /\ call' \in CallRecords /\ call'.op = call.op /\ call'.n = call.n /\ call'.again = TRUE
       /\ call'.promise = call.promise /\ call'.copies = call.copies
  BY ONLY <1>1, <1>3, <1>4, <1>6 DEF CallRecords
<1>11. KernelTypes'
  <2>1. inq' \in 0..MaxQueue
    BY <1>4, <1>5, SocketAssumption DEF KernelTypes
  <2>2. signals' \in 0..MaxSignals
    BY <1>3, <1>4, SocketAssumption DEF KernelTypes
  <2>3. err' \in Codes /\ errno' \in Errors
    BY <1>3, <1>4, ErrnoFacts
  <2> QED
    BY <1>1, <2>1, <2>2, <2>3 DEF KernelTypes, object
<1>12. Owned'
  BY <1>1, SameDescriptors DEF object
<1>13. harm' \subseteq Harms
  <2>1. <<"stray", errno>> \in Harms /\ <<"lost", errno>> \in Harms
    BY TranslatedFacts DEF Harms, KernelTypes
  <2>2. harm \subseteq Harms
    BY DEF ThreadOK
  <2> QED
    BY ONLY <1>4, <2>1, <2>2
<1>14. tcp' <=> tcp
  BY <1>1 DEF tcp, object
<1>15. HarmNeedsStaleErrno'
  <2>1. call.again => errno = "EINTR"
    BY <1>1 DEF ThreadOK, Rounds
  <2>2. ~call.again => call.got = 0 /\ call.taken = 0
    BY <1>1 DEF ThreadOK, Rounds
  <2>3. Stray(k) => errno = "EINTR"
    BY <1>3, <1>5, <2>1, <2>2 DEF Stray
  <2>4. taken # result => errno = "EINTR" \/ (errno = "EAGAIN" /\ tcp)
    <3>1. SUFFICES ASSUME ~call.again, taken # result
                   PROVE  errno = "EAGAIN" /\ tcp
      BY <2>1
    <3>2. taken = AsSize(k)
      BY <1>6, <2>2, <3>1
    <3>3. tcp /\ e = "EAGAIN" /\ AsSize(k) # 0
      BY <1>7, <3>1, <3>2
    <3>4. k # -1
      BY <3>3 DEF AsSize
    <3> QED
      BY <1>3, <3>3, <3>4
  <2>5. \A h \in harm : h[2] = "EINTR" \/ (h = <<"lost", "EAGAIN">> /\ tcp)
    BY DEF ThreadOK, HarmNeedsStaleErrno
  <2>6. \A h \in harm' : \/ h \in harm
                         \/ Stray(k) /\ h = <<"stray", errno>>
                         \/ taken # result /\ h = <<"lost", errno>>
    BY ONLY <1>4
  <2>7. \A h \in harm' : h[2] = "EINTR" \/ (h = <<"lost", "EAGAIN">> /\ tcp)
    BY ONLY <2>3, <2>4, <2>5, <2>6
  <2> QED
    BY <1>14, <2>7 DEF HarmNeedsStaleErrno
<1>16. call.op = "read" /\ tcp /\ call.n <= call.promise => k = call.n
  BY <1>1, <1>3 DEF ThreadOK, Promises
<1>17. CASE done
  <2>1. at' = "idle" /\ ret' = result /\ late' = FALSE
    BY <1>4, <1>17 DEF Finish
  <2>2. late' \in BOOLEAN
    BY <2>1, Zenon
  <2>3. ret' \in Int /\ ret' >= 0
    BY <1>7, <2>1
  <2>4. call'.op # "wait"
    BY <1>1, <1>10
  <2>5. call'.op = "read" /\ tcp' /\ call'.n <= call'.promise => ret' = call'.n
    BY <1>8, <1>10, <1>14, <1>16, <2>1
  <2>6. ThreadOK'
    BY <1>10, <1>13, <1>15, <2>1, <2>2, <2>3, <2>4, <2>5, ThreadIdle
  <2> QED
    BY <1>11, <1>12, <2>6
<1>18. CASE ~done
  <2>1. UNCHANGED <<at, ret, late>> /\ errno' = "EINTR"
    BY <1>4, <1>9, <1>18 DEF Errno
  <2>2. ~(call.op = "read" /\ tcp /\ call.n <= call.promise)
    BY <1>8, <1>16, <1>18
  <2>3. Calls' /\ Rounds'
    BY <1>1, <1>10, <2>1 DEF ThreadOK, Calls, Rounds
  <2>4. Promises' /\ PromisedReadComplete'
    BY <1>1, <1>10, <1>14, <2>1, <2>2 DEF Promises, PromisedReadComplete, Idle
  <2>5. late' \in BOOLEAN /\ (call'.op \in {"read", "write", "readSize"} => ret' >= 0)
    BY <1>10, <2>1 DEF ThreadOK
  <2>6. ThreadOK'
    BY <1>1, <1>13, <1>15, <2>1, <2>3, <2>4, <2>5 DEF ThreadOK
  <2> QED
    BY <1>11, <1>12, <2>6
<1> QED
  BY <1>17, <1>18

\* The read ends when its two seconds are over: in a round that EINTR asked for.
LEMMA ReceiveLateStep ==
  ASSUME KernelTypes, Owned, ThreadOK, ReceiveLate
  PROVE  KernelTypes' /\ Owned' /\ ThreadOK'
<1>1. /\ at = "recv" /\ late /\ call \in CallRecords /\ call.op \in {"read", "flush"}
      /\ UNCHANGED <<object, kernel, call, errno, signals, faults>>
      /\ at' = "idle" /\ ret' = AsSize(call.got) /\ late' = FALSE
      /\ err' = Translated[errno]
      /\ harm' = harm \union (IF call.taken # AsSize(call.got) THEN {<<"lost", errno>>} ELSE {})
  BY DEF ReceiveLate, ThreadOK, Calls, Finish
<1>2. call.again /\ errno = "EINTR"
  BY <1>1 DEF ThreadOK, Rounds
<1>3. <<"lost", errno>> \in Harms
  BY TranslatedFacts DEF Harms, KernelTypes
<1>4. harm' \subseteq Harms
  BY <1>1, <1>3 DEF ThreadOK
<1>5. tcp' <=> tcp
  BY <1>1 DEF tcp, object
<1>6. HarmNeedsStaleErrno'
  <2>1. \A h \in harm' : h \in harm \/ h = <<"lost", "EINTR">>
    BY <1>1, <1>2
  <2> QED
    BY <1>5, <2>1 DEF HarmNeedsStaleErrno, ThreadOK
<1>7. ~(call.op = "read" /\ tcp /\ call.n <= call.promise)
  BY <1>1, <1>2 DEF ThreadOK, Promises
<1>8. late' \in BOOLEAN
  BY <1>1, Zenon
<1>9. ret' \in Int /\ ret' >= 0
  BY <1>1 DEF AsSize, CallRecords
<1>10. ThreadOK'
  BY <1>1, <1>4, <1>5, <1>6, <1>7, <1>8, <1>9, ThreadIdle
<1>11. KernelTypes'
  BY <1>1, TranslatedFacts DEF KernelTypes, object, kernel
<1>12. Owned'
  BY <1>1, SameDescriptors DEF object, kernel
<1> QED
  BY <1>10, <1>11, <1>12
-----------------------------------------------------------------------------
\* The steps of a write.

\* A send that succeeds sends something and leaves errno alone.
LEMMA SentFacts ==
  ASSUME KernelTypes, call \in CallRecords, NEW o \in Sent
  PROVE  /\ o[1] \in Int /\ o[2] \in Errors
         /\ o[1] = -1 /\ o[2] = "EINTR" => signals < MaxSignals
<1>1. errno \in Errors /\ {"EPIPE", "ECONNREFUSED", "EAGAIN", "EINTR"} \subseteq Errors
  BY DEF KernelTypes, Errors
<1>2. call.n \in Nat
  BY DEF CallRecords
<1>3. \/ o \in {<<-1, "EPIPE">>, <<-1, "ECONNREFUSED">>, <<-1, "EAGAIN">>}
      \/ o = <<-1, "EINTR">> /\ signals < MaxSignals
      \/ \E k \in (IF tcp THEN 1..call.n ELSE {call.n}) : o = <<k, errno>>
  BY DEF Sent
<1>4. CASE \E k \in (IF tcp THEN 1..call.n ELSE {call.n}) : o = <<k, errno>>
  <2>1. PICK k \in (IF tcp THEN 1..call.n ELSE {call.n}) : o = <<k, errno>>
    BY <1>4
  <2>2. k \in Nat
    BY <1>2
  <2> QED
    BY <1>1, <2>1, <2>2
<1> QED
  BY <1>1, <1>3, <1>4

\* One round of Send. Bytes are sent again only in a later round, after an EINTR.
LEMMA SendStep ==
  ASSUME KernelTypes, Owned, ThreadOK, Send
  PROVE  KernelTypes' /\ Owned' /\ ThreadOK'
<1>1. /\ at = "send" /\ call \in CallRecords /\ call.op \in {"write", "readSize"}
      /\ UNCHANGED <<object, kernel, faults>>
  BY DEF Send, ThreadOK, Calls
<1>2. PICK o \in Sent :
         LET k == o[1]
             e == o[2]
         IN  /\ IF Loops \/ k = -1 THEN Errno(e) ELSE UNCHANGED <<errno, err>>
             /\ signals' = IF e = "EINTR" /\ k = -1 THEN signals + 1 ELSE signals
             /\ call' = [call EXCEPT !.got = k, !.copies = IF k > 0 THEN 1 ELSE @, !.again = TRUE]
             /\ harm' = harm \union (IF k > 0 /\ call.copies > 0 THEN {<<"resent", errno>>} ELSE {})
             /\ IF Loops /\ SendAgain(e) THEN UNCHANGED <<at, ret, late>> ELSE Finish(AsSize(k))
  BY DEF Send
<1> DEFINE k == o[1]
           e == o[2]
           copies == IF k > 0 THEN 1 ELSE call.copies
<1>3. k \in Int /\ e \in Errors /\ (k = -1 /\ e = "EINTR" => signals < MaxSignals)
  BY <1>1, SentFacts
<1>4. /\ IF Loops \/ k = -1 THEN Errno(e) ELSE UNCHANGED <<errno, err>>
      /\ signals' = IF e = "EINTR" /\ k = -1 THEN signals + 1 ELSE signals
      /\ call' = [call EXCEPT !.got = k, !.copies = copies, !.again = TRUE]
      /\ harm' = harm \union (IF k > 0 /\ call.copies > 0 THEN {<<"resent", errno>>} ELSE {})
      /\ IF Loops /\ SendAgain(e) THEN UNCHANGED <<at, ret, late>> ELSE Finish(AsSize(k))
  BY <1>2
<1> HIDE DEF k, e
<1>5. copies \in {0, 1}
  BY <1>1 DEF CallRecords
<1> HIDE DEF copies
<1>6. /\ call' \in CallRecords /\ call'.op = call.op /\ call'.again = TRUE
  BY ONLY <1>1, <1>3, <1>4, <1>5 DEF CallRecords
<1>7. KernelTypes'
  <2>1. err' \in Codes /\ errno' \in Errors
    BY <1>3, <1>4, ErrnoFacts DEF KernelTypes
  <2>2. signals' \in 0..MaxSignals
    BY <1>3, <1>4, SocketAssumption DEF KernelTypes
  <2> QED
    BY <1>1, <2>1, <2>2 DEF KernelTypes, object, kernel
<1>8. Owned'
  BY <1>1, SameDescriptors DEF object, kernel
<1>9. harm' \subseteq Harms /\ HarmNeedsStaleErrno'
  <2>1. call.copies > 0 => errno = "EINTR"
    BY <1>1 DEF ThreadOK, Rounds
  <2>2. <<"resent", errno>> \in Harms /\ harm \subseteq Harms
    BY TranslatedFacts DEF Harms, KernelTypes, ThreadOK
  <2>3. \A h \in harm' : h \in harm \/ (h = <<"resent", errno>> /\ errno = "EINTR")
    BY ONLY <1>4, <2>1
  <2>4. tcp' <=> tcp
    BY <1>1 DEF tcp, object
  <2>5. HarmNeedsStaleErrno'
    BY <2>3, <2>4 DEF HarmNeedsStaleErrno, ThreadOK
  <2>6. harm' \subseteq Harms
    BY ONLY <2>2, <2>3
  <2> QED
    BY <2>5, <2>6
<1>10. CASE Loops /\ SendAgain(e)
  <2>1. UNCHANGED <<at, ret, late>> /\ errno' = "EINTR"
    BY <1>3, <1>4, <1>10, TranslatedFacts DEF SendAgain, Errno
  <2>2. Calls' /\ Rounds' /\ Promises' /\ PromisedReadComplete'
    BY <1>1, <1>6, <2>1
       DEF ThreadOK, Calls, Rounds, Promises, PromisedReadComplete, Idle
  <2>3. late' \in BOOLEAN /\ (call'.op \in {"read", "write", "readSize"} => ret' >= 0)
    BY <1>6, <2>1 DEF ThreadOK
  <2>4. ThreadOK'
    BY <1>1, <1>9, <2>1, <2>2, <2>3 DEF ThreadOK
  <2> QED
    BY <1>7, <1>8, <2>4
<1>11. CASE ~(Loops /\ SendAgain(e))
  <2>1. at' = "idle" /\ ret' = AsSize(k) /\ late' = FALSE
    BY <1>4, <1>11 DEF Finish
  <2>2. late' \in BOOLEAN
    BY <2>1, Zenon
  <2>3. ret' \in Int /\ ret' >= 0
    BY <1>3, <2>1 DEF AsSize
  <2>4. call'.op \notin {"wait", "read"}
    BY <1>1, <1>6
  <2>5. ThreadOK'
    BY <1>6, <1>9, <2>1, <2>2, <2>3, <2>4, ThreadIdle
  <2> QED
    BY <1>7, <1>8, <2>5
<1> QED
  BY <1>10, <1>11

\* The loop of TCP ends when its two seconds are over.
LEMMA SendLateStep ==
  ASSUME KernelTypes, Owned, ThreadOK, SendLate
  PROVE  KernelTypes' /\ Owned' /\ ThreadOK'
<1>1. /\ at = "send" /\ call \in CallRecords /\ call.op \in {"write", "readSize"}
      /\ UNCHANGED <<object, kernel, call, errno, signals, faults, harm>>
      /\ err' = "Timedout" /\ at' = "idle" /\ ret' = AsSize(call.got) /\ late' = FALSE
  BY DEF SendLate, ThreadOK, Calls, Finish
<1>2. late' \in BOOLEAN
  BY <1>1, Zenon
<1>3. ret' \in Int /\ ret' >= 0
  BY <1>1 DEF AsSize, CallRecords
<1>4. harm' \subseteq Harms /\ HarmNeedsStaleErrno'
  BY <1>1, HarmKept DEF object
<1>5. ThreadOK'
  BY <1>1, <1>2, <1>3, <1>4, ThreadIdle
<1>6. KernelTypes'
  BY <1>1, TranslatedFacts DEF KernelTypes, object, kernel
<1>7. Owned'
  BY <1>1, SameDescriptors DEF object, kernel
<1> QED
  BY <1>5, <1>6, <1>7

-----------------------------------------------------------------------------
\* waitfordata() and flush(), and Accept().

\* A wait of TCP that says it has found bytes has found them.
LEMMA WaitStep ==
  ASSUME KernelTypes, Owned, ThreadOK, Wait
  PROVE  KernelTypes' /\ Owned' /\ ThreadOK'
<1>1. /\ at = "wait" /\ call \in CallRecords /\ call.op \in {"wait", "flush"}
      /\ link # "listening" /\ ~call.again /\ call.got = 0 /\ call.taken = 0
      /\ UNCHANGED <<object, kernel, faults, harm>>
  BY DEF Wait, ThreadOK, Calls, Rounds, Promises
<1>2. inq \in Nat /\ call.n \in Nat
  BY <1>1 DEF KernelTypes, CallRecords
<1>3. Waiting \in Nat /\ WaitSize \in Nat /\ (tcp => Waiting = inq /\ WaitSize = inq)
  BY <1>1, <1>2 DEF Waiting, WaitSize, Least
<1>4. PICK size \in {Waiting, WaitSize} : \E r \in {0, -1} : WaitDone(r, size)
  BY DEF Wait
<1>5. PICK r \in {0, -1} : WaitDone(r, size)
  BY <1>4
<1>6. size \in Nat /\ (tcp => size = inq)
  BY <1>3
<1>7. KernelTypes'
  <2>1. err' \in Codes /\ errno' \in Errors
    BY ErrnoFacts, TranslatedFacts DEF Wait, KernelTypes, Errors
  <2>2. signals' \in 0..MaxSignals
    BY SocketAssumption DEF Wait, KernelTypes, Signal
  <2> QED
    BY <1>1, <2>1, <2>2 DEF KernelTypes, object, kernel
<1>8. Owned'
  BY <1>1, SameDescriptors DEF object, kernel
<1>9. harm' \subseteq Harms /\ HarmNeedsStaleErrno'
  BY <1>1, HarmKept DEF object
<1>10. CASE call.op = "flush" /\ size > 0
  <2>1. /\ at' = "recv" /\ late' = FALSE /\ ret' = ret /\ call' = [call EXCEPT !.n = size]
    BY <1>5, <1>10 DEF WaitDone
  <2>2. /\ call' \in CallRecords /\ call'.n > 0 /\ call'.op = "flush"
        /\ ~call'.again /\ call'.got = 0 /\ call'.taken = 0
    BY ONLY <1>1, <1>6, <1>10, <2>1 DEF CallRecords
  <2>3. Calls' /\ Rounds' /\ Promises' /\ PromisedReadComplete'
    BY <2>1, <2>2 DEF ThreadOK, Calls, Rounds, Promises, PromisedReadComplete, Idle
  <2>4. late' \in BOOLEAN
    BY <2>1, Zenon
  <2>5. ThreadOK'
    BY <1>9, <2>1, <2>2, <2>3, <2>4 DEF ThreadOK
  <2> QED
    BY <1>7, <1>8, <2>5
<1>11. CASE ~(call.op = "flush" /\ size > 0)
  <2>1. at' = "idle" /\ late' = FALSE /\ ret' = r /\ call' = [call EXCEPT !.size = size]
    BY <1>5, <1>11 DEF WaitDone, Finish
  <2>2. call' \in CallRecords /\ call'.op \in {"wait", "flush"} /\ call'.size = size
    BY ONLY <1>1, <1>6, <2>1 DEF CallRecords
  <2>3. tcp' => inq' >= call'.size /\ link' # "listening"
    BY <1>1, <1>2, <1>6, <2>2 DEF tcp, object, kernel
  <2>4. late' \in BOOLEAN
    BY <2>1, Zenon
  <2>5. ret' \in Int /\ call'.op \notin {"read", "write", "readSize"}
    BY <2>1, <2>2
  <2>6. ThreadOK'
    BY <1>9, <2>1, <2>2, <2>3, <2>4, <2>5, ThreadIdle
  <2> QED
    BY <1>7, <1>8, <2>6
<1> QED
  BY <1>10, <1>11

\* The descriptor of an accepted connection is a fresh one, of its own.
LEMMA AcceptStep ==
  ASSUME KernelTypes, Owned, ThreadOK, Accept
  PROVE  KernelTypes' /\ Owned' /\ ThreadOK'
<1>1. /\ at = "accept" /\ call \in CallRecords /\ call.op = "accept"
      /\ UNCHANGED <<object, opts, link, call, faults, harm>>
  BY DEF Accept, ThreadOK, Calls
<1>2. harm' \subseteq Harms /\ HarmNeedsStaleErrno'
  BY <1>1, HarmKept DEF object
<1>3. ASSUME NEW r \in {0, 1}, Finish(r)
      PROVE  ThreadOK'
  <2>1. at' = "idle" /\ ret' = r /\ late' = FALSE
    BY <1>3 DEF Finish
  <2>2. late' \in BOOLEAN
    BY <2>1, Zenon
  <2>3. ret' \in Int /\ call' \in CallRecords /\ call'.op = "accept"
    BY <1>1, <2>1
  <2> QED
    BY <1>2, <2>1, <2>2, <2>3, ThreadIdle
<1>4. {"0", "EMFILE", "EAGAIN", "EINTR"} \subseteq Errors
  BY DEF Errors
<1>5. CASE /\ inq > 0 /\ Free # {} /\ inq' = inq - 1
           /\ fds' = fds \union {Fresh} /\ accepted' = accepted \union {Fresh}
           /\ errno' = "0" /\ Finish(1) /\ UNCHANGED <<err, signals>>
  <2>1. Fresh \in 1..MaxFds /\ Fresh \notin fds
    BY <1>5, FreshFacts DEF Free
  <2>2. inq' \in 0..MaxQueue
    BY <1>5, SocketAssumption DEF KernelTypes
  <2>3. KernelTypes'
    BY <1>1, <1>4, <1>5, <2>1, <2>2 DEF KernelTypes, object
  <2>4. Owned'
    BY <1>1, <1>5, <2>1 DEF Owned, Apart, DescriptorAccounted, NoSocket, object
  <2> QED
    BY <1>3, <1>5, <2>3, <2>4
<1>6. ASSUME NEW e \in {"EMFILE", "EAGAIN"}, Errno(e), Finish(0),
             UNCHANGED <<fds, inq, accepted, signals>>
      PROVE  KernelTypes' /\ Owned' /\ ThreadOK'
  <2>1. err' \in Codes /\ errno' \in Errors
    BY <1>4, <1>6, ErrnoFacts
  <2>2. KernelTypes'
    BY <1>1, <1>6, <2>1 DEF KernelTypes, object
  <2>3. Owned'
    BY <1>1, <1>6, SameDescriptors DEF object
  <2> QED
    BY <1>3, <1>6, <2>2, <2>3
<1>7. CASE Signal /\ Errno("EINTR") /\ UNCHANGED <<fds, inq, accepted, at, ret, late>>
  <2>1. err' \in Codes /\ errno' \in Errors
    BY <1>4, <1>7, ErrnoFacts
  <2>2. signals' \in 0..MaxSignals
    BY <1>7, SocketAssumption DEF KernelTypes, Signal
  <2>3. KernelTypes'
    BY <1>1, <1>7, <2>1, <2>2 DEF KernelTypes, object
  <2>4. Owned'
    BY <1>1, <1>7, SameDescriptors DEF object
  <2>5. ThreadOK'
    BY <1>1, <1>2, <1>7
       DEF ThreadOK, Calls, Rounds, Promises, PromisedReadComplete, Idle
  <2> QED
    BY <2>3, <2>4, <2>5
<1> QED
  BY <1>5, <1>6, <1>7 DEF Accept

-----------------------------------------------------------------------------
\* Time, the peer, and the invariant.

\* Time passes in a loop that has made its first system call.
LEMMA TimePassesStep ==
  ASSUME KernelTypes, Owned, ThreadOK, TimePasses
  PROVE  KernelTypes' /\ Owned' /\ ThreadOK'
<1>1. /\ at \in {"select", "wait"} \/ (at \in {"recv", "send"} /\ call.again)
      /\ late' = TRUE
      /\ UNCHANGED <<object, kernel, at, call, ret, harm, err, errno, signals, faults>>
  BY DEF TimePasses
<1>2. KernelTypes' /\ Owned'
  BY <1>1, SameDescriptors DEF KernelTypes, object, kernel
<1>3. harm' \subseteq Harms /\ HarmNeedsStaleErrno'
  BY <1>1, HarmKept DEF object
<1>4. Calls' /\ Rounds'
  BY <1>1 DEF ThreadOK, Calls, Rounds
<1>5. tcp' <=> tcp
  BY <1>1 DEF tcp, object
<1>6. Promises' /\ PromisedReadComplete'
  BY <1>1, <1>5 DEF ThreadOK, Promises, PromisedReadComplete, Idle, kernel
<1>7. late' \in BOOLEAN
  BY <1>1, Zenon
<1>8. ThreadOK'
  BY <1>1, <1>3, <1>4, <1>6, <1>7 DEF ThreadOK
<1> QED
  BY <1>2, <1>8

\* The peer, and steps of others, take nothing from what has been received.
LEMMA PeerStep ==
  ASSUME KernelTypes, Owned, ThreadOK, Peer \/ UNCHANGED vars
  PROVE  KernelTypes' /\ Owned' /\ ThreadOK'
<1>1. /\ inq' = inq \/ (inq < MaxQueue /\ inq' = inq + 1)
      /\ link' = link \/ (link # "listening" /\ link' \in {"up", "refused", "closed"})
      /\ UNCHANGED <<object, fds, opts, accepted, thread, err, errno, signals, faults>>
  BY DEF Peer, vars, kernel
<1>2. inq' \in 0..MaxQueue /\ inq' >= inq
  BY <1>1, SocketAssumption DEF KernelTypes
<1>3. link' \in Ends /\ (link # "listening" => link' # "listening")
  BY <1>1 DEF KernelTypes, Ends
<1>4. KernelTypes'
  BY <1>1, <1>2, <1>3 DEF KernelTypes, object
<1>5. Owned'
  BY <1>1, SameDescriptors DEF object
<1>6. UNCHANGED <<at, call, late, ret, harm, kind, errno>>
  BY <1>1 DEF thread, object
<1>7. tcp' <=> tcp
  BY <1>6 DEF tcp
<1>8. harm' \subseteq Harms /\ HarmNeedsStaleErrno'
  BY <1>6, HarmKept
<1>9. Calls' /\ Rounds' /\ PromisedReadComplete'
  BY <1>6, <1>7 DEF ThreadOK, Calls, Rounds, PromisedReadComplete, Idle
<1>10. Promises'
  <2>1. inq \in Int /\ inq' \in Int /\ call.size \in Int /\ call.n \in Int
    BY <1>2 DEF KernelTypes, ThreadOK, Calls, CallRecords
  <2> QED
    BY <1>2, <1>3, <1>6, <1>7, <2>1 DEF ThreadOK, Promises, Idle
<1>11. ThreadOK'
  BY <1>6, <1>8, <1>9, <1>10 DEF ThreadOK
<1> QED
  BY <1>4, <1>5, <1>11

\* Nothing is open at first.
LEMMA Initially == Init => IInv
<1> SUFFICES ASSUME Init
             PROVE  IInv
  OBVIOUS
<1> USE SocketAssumption
<1>1. /\ call = NoCall /\ NoCall \in CallRecords /\ NoCall.op = "none"
      /\ NoCall.got = 0 /\ NoCall.taken = 0 /\ ~NoCall.again
  BY NoCallFacts DEF Init, NoCall
<1>2. Calls /\ Rounds /\ Promises /\ PromisedReadComplete
  BY <1>1 DEF Init, Calls, Rounds, Promises, PromisedReadComplete, Idle
<1>3. Apart /\ DescriptorAccounted /\ HarmNeedsStaleErrno
  BY DEF Init, Apart, DescriptorAccounted, HarmNeedsStaleErrno, NoSocket
<1>4. late \in BOOLEAN /\ mopen \in BOOLEAN /\ blocking \in BOOLEAN /\ multicast \in BOOLEAN
  BY Zenon DEF Init
<1>5. err \in Codes /\ errno \in Errors /\ link \in Ends
  BY TranslatedFacts DEF Init, Errors, Ends
<1>6. DOMAIN Translated = Errors /\ Codes = {Translated[e] : e \in Errors} \union {"Timedout"}
  BY TranslatedFacts DEF Codes
<1>7. /\ sock \in 0..MaxFds /\ inq \in 0..MaxQueue /\ signals \in 0..MaxSignals
      /\ faults \in 0..MaxFaults
  BY DEF Init, NoSocket
<1>8. TypeOK
  BY <1>1, <1>4, <1>5, <1>6, <1>7 DEF Init, TypeOK
<1> QED
  BY <1>2, <1>3, <1>8 DEF IInv

\* Every step of the thread, the peer or time keeps the invariant.
LEMMA Inductive == IInv /\ [Next]_vars => IInv'
<1> SUFFICES ASSUME IInv, Next \/ UNCHANGED vars
             PROVE  KernelTypes' /\ Owned' /\ ThreadOK'
  BY Parts
<1>1. KernelTypes /\ Owned /\ ThreadOK
  BY Parts
<1>2. CASE Step
  BY <1>1, <1>2, ConnectStep, SelectStep, ReceiveStep, ReceiveLateStep, SendStep, SendLateStep,
     WaitStep, AcceptStep DEF Step
<1>3. CASE User
  BY <1>1, <1>3, ClosingSteps, OptionSteps, ModeSteps, PassiveSteps, ReadStarts, OtherStarts,
     OpenStarts DEF User
<1>4. CASE TimePasses
  BY <1>1, <1>4, TimePassesStep
<1>5. CASE Peer \/ UNCHANGED vars
  BY <1>1, <1>5, PeerStep
<1> QED
  BY <1>2, <1>3, <1>4, <1>5 DEF Next

\* The invariant holds in every reachable state.
LEMMA Invariance == Spec => []IInv
BY Initially, Inductive, PTL DEF Spec

-----------------------------------------------------------------------------
\* Types, whatever the results and errors of the system calls are; readData()
\* and writeData() never return an error code as a size.
THEOREM TypeCorrect == Spec => []TypeOK
<1>1. IInv => TypeOK
  BY DEF IInv
<1> QED
  BY Invariance, <1>1, PTL

\* No descriptor leaks and none is used when it is closed: over failing opens,
\* binds and listens, a second open(), and accepted connections.
THEOREM DescriptorsAccounted == Spec => []DescriptorAccounted
<1>1. IInv => DescriptorAccounted
  BY DEF IInv
<1> QED
  BY Invariance, <1>1, PTL

\* Without an interrupted system call, and of TCP without one that timed out,
\* Receive, Send and Open lose nothing, write nothing astray, send nothing twice
\* and make no connection that is none.
THEOREM HarmNeedsStale == Spec => []HarmNeedsStaleErrno
<1>1. IInv => HarmNeedsStaleErrno
  BY DEF IInv
<1> QED
  BY Invariance, <1>1, PTL

\* A readData() of what waitfordata() has found is complete, however many
\* options, modes and other calls came before and whatever they left in errno.
THEOREM PromisedReadsComplete == Spec => []PromisedReadComplete
<1>1. IInv => PromisedReadComplete
  BY DEF IInv
<1> QED
  BY Invariance, <1>1, PTL
=============================================================================
