---------------------------- MODULE LgvController ----------------------------
(***************************************************************************)
(* The chassis node.  serial_callback writes each velocity to the chassis  *)
(* controller; the loop of main reads what the controller has sent since   *)
(* the last turn, publishes the first odometry packet it finds there and   *)
(* forgets the rest.  A packet is two header bytes FF FF and a payload     *)
(* without length or checksum, so a byte is kept as                        *)
(*   [pkt |-> its packet, at |-> its place there, ff |-> whether it is FF] *)
(***************************************************************************)
EXTENDS Integers, Sequences

CONSTANTS
  PktLen,      \* bytes of a packet, 20
  BufLen,      \* sizeof(r_buffer), 32
  MaxPkt,      \* bound: packets the controller sends
  Half,        \* 2^15 of int16_t
  Velocities   \* velocities times 1000 that cmd_vel carries

\* A packet is its two header bytes and a payload, the buffer holds a byte.
ASSUME LgvAssumption ==
  /\ PktLen \in Nat /\ PktLen >= 2 /\ BufLen \in Nat \ {0}
  /\ MaxPkt \in Nat /\ Half \in Nat \ {0} /\ Velocities \subseteq Int

VARIABLES
  lgvPc,       \* "start", "loop", or how the node has ended
  tty,         \* bytes that available() counts
  rbuf,        \* r_buffer, from 0
  lastRead,    \* what the last read held
  odom,        \* the payload it published, or None
  next,        \* the byte the controller sends next
  told         \* the last velocity written to the controller

lgvVars == <<lgvPc, tty, rbuf, lastRead, odom, next, told>>

None == <<>>
Byte(p, k, b) == [pkt |-> p, at |-> k, ff |-> b]
Junk(b) == Byte(0, 0, b)   \* a byte never written: any value
Told(what, v) == [what |-> what, v |-> v]

LgvInit ==
  /\ lgvPc = "start" /\ tty = <<>> /\ lastRead = <<>> /\ odom = None
  /\ next = [pkt |-> 1, at |-> 1] /\ told = Told("nothing", 0)
  /\ rbuf \in [0 .. BufLen - 1 -> {Junk(TRUE), Junk(FALSE)}]

-----------------------------------------------------------------------------
\* open(), and the two bytes that greet the controller.
OpenSerial ==
  /\ lgvPc = "start"
  /\ \/ lgvPc' = "loop" /\ told' = Told("hello", 0)
     \/ lgvPc' = "failed" /\ UNCHANGED told
  /\ UNCHANGED <<tty, rbuf, lastRead, odom, next>>

\* The controller sends a byte.  Its header is FF FF, the rest what it is.
ControllerSends(b) ==
  /\ next.pkt <= MaxPkt
  /\ next.at <= 2 => b
  /\ Len(tty) <= BufLen
  /\ tty' = Append(tty, Byte(next.pkt, next.at, b))
  /\ next' = IF next.at < PktLen THEN [next EXCEPT !.at = @ + 1]
             ELSE [pkt |-> next.pkt + 1, at |-> 1]
  /\ UNCHANGED <<lgvPc, rbuf, lastRead, odom, told>>

\* Mutant of Int16: the product is not narrowed.
Int16Wide(v) == v

\* msg.linear.x * 1000 as an int16_t: the outcome of the usual builds.
Int16(v) == ((v + Half) % (2 * Half)) - Half

\* ros::spinOnce: one callback.
SerialCallback(v) ==
  /\ lgvPc = "loop"
  /\ told' = Told("velocity", Int16(v))
  /\ UNCHANGED <<lgvPc, tty, rbuf, lastRead, odom, next>>

\* Mutant of IsHeader: one FF is enough.
IsHeaderOneByte(buf, i, beyond) == buf[i].ff

\* The search stops at the first FF FF.  Its second byte may lie behind what
\* was read (an older byte), or behind the buffer (any byte).
IsHeader(buf, i, beyond) ==
  buf[i].ff /\ IF i + 1 < BufLen THEN buf[i + 1].ff ELSE beyond
Headers(buf, n, beyond) == {i \in 0 .. n - 1 : IsHeader(buf, i, beyond)}

\* The payload is taken from behind the header, whatever is there.
PayloadAt(buf, i) ==
  [k \in 1 .. PktLen - 2 |->
     IF i + 1 + k < BufLen THEN buf[i + 1 + k] ELSE Junk(FALSE)]

FirstHeader(buf, n, beyond) ==
  CHOOSE i \in Headers(buf, n, beyond) :
    \A j \in Headers(buf, n, beyond) : i <= j

\* available() and read() take all there is.  More than r_buffer holds
\* overwrites what lies behind it, and nothing is known of the node any more.
Read ==
  LET n   == Len(tty)
      buf == [i \in DOMAIN rbuf |-> IF i < n THEN tty[i + 1] ELSE rbuf[i]]
  IN /\ lgvPc = "loop" /\ n > 0
     /\ tty' = <<>>
     /\ \/ /\ n > BufLen
           /\ lgvPc' = "overrun"
           /\ UNCHANGED <<rbuf, lastRead, odom>>
        \/ /\ n <= BufLen
           /\ rbuf' = buf /\ lastRead' = tty
           /\ \E beyond \in BOOLEAN :
                odom' = IF Headers(buf, n, beyond) = {} THEN None
                        ELSE PayloadAt(buf, FirstHeader(buf, n, beyond))
           /\ UNCHANGED lgvPc
     /\ UNCHANGED <<next, told>>

\* available() or read() throws and nobody catches; or ros::ok() is false and
\* main closes the port.  Neither tells the controller to stop.
EndLgv(how) ==
  /\ lgvPc = "loop"
  /\ lgvPc' = how
  /\ UNCHANGED <<tty, rbuf, lastRead, odom, next, told>>

LgvNext ==
  \/ OpenSerial
  \/ \E b \in BOOLEAN : ControllerSends(b)
  \/ \E v \in Velocities : SerialCallback(v)
  \/ Read
  \/ \E how \in {"closed", "thrown"} : EndLgv(how)

-----------------------------------------------------------------------------
\* The buffer keeps its size and what the controller is told fits an int16_t.
LgvTypeOK ==
  /\ lgvPc \in {"start", "loop", "failed", "overrun", "closed", "thrown"}
  /\ next.pkt \in 1 .. MaxPkt + 1 /\ next.at \in 1 .. PktLen
  /\ told.what \in {"nothing", "hello", "velocity"}
  /\ told.v \in -Half .. Half - 1
  /\ Len(tty) <= BufLen + 1 /\ Len(lastRead) <= BufLen
  /\ DOMAIN rbuf = 0 .. BufLen - 1
  /\ odom = None \/ Len(odom) = PktLen - 2

\* Where whole packets begin in the last read, and where an FF that is not
\* followed by its packet's second header byte may be taken for a header: it
\* belongs to a payload, or is the second header byte of a packet, and an FF
\* follows it or may follow it.
Whole == {i \in 1 .. Len(lastRead) - PktLen + 1 : lastRead[i].at = 1}
False == {i \in DOMAIN lastRead :
            /\ lastRead[i].at # 1 /\ lastRead[i].ff
            /\ i = Len(lastRead) \/ lastRead[i + 1].ff}

\* Each read that holds a whole packet publishes the first one, as it was
\* sent, unless a pair FF FF that is no header stands before it.  What is
\* published from any other read is half a packet, or such a pair.
PublishesFirstWholePacket ==
  LET packet(i) == SubSeq(lastRead, i + 2, i + PktLen - 1) IN
  lastRead # <<>> =>
    \/ \E i \in Whole : /\ odom = packet(i)
                        /\ \A j \in Whole : i <= j
    \/ Whole = {} /\ odom = None
    \/ Whole = {} /\ \E i \in DOMAIN lastRead : lastRead[i].at = 1
    \/ \E i \in False : \A j \in Whole : i < j

=============================================================================
