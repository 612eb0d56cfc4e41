-------------------------------- MODULE WitImu --------------------------------
(***************************************************************************)
(* The IMU node: handleSerialData cuts the bytes of the sensor into        *)
(* packets.  The sensor sends in turns the packets of acceleration,        *)
(* angular velocity, angle and magnetic field,                             *)
(*     55  type  payload  sum of the bytes before                          *)
(* and the node publishes when an angle has come.  Bytes are numbers       *)
(* below Mod and the sum is computed, so that a payload may look like a    *)
(* packet; the last readings are kept as the turn they were sent in.       *)
(* A byte may get lost, and the node may connect in the middle of a turn.  *)
(***************************************************************************)
EXTENDS Integers, Sequences, SequencesExt

CONSTANTS
  Mod,       \* 256
  Header,      \* 0x55
  Payloads,  \* payloads the sensor may send, all of one length
  MaxTurn,   \* bound: turns of four packets
  MaxLost    \* bound: bytes lost

\* The payloads are bytes, all of one length.
ASSUME ImuAssumption ==
  /\ Mod \in Nat /\ Mod > 4 /\ Header \in 0 .. Mod - 1 /\ Payloads # {}
  /\ \A p, q \in Payloads : p \in Seq(0 .. Mod - 1) /\ Len(p) = Len(q)
  /\ MaxTurn \in Nat \ {0} /\ MaxLost \in Nat

VARIABLES
  imuPc,     \* "run", or "exit" when the port fails
  buff,      \* buff, of which key is the length
  readings,  \* turn of the last reading by type, 0 for none or a wrong one
  imuMsg,    \* the readings last published, or NoMsg
  packet,    \* the packet being sent, <<>> between two
  sentOf,    \* bytes of it sent
  turn,      \* turn and type of that packet
  type,
  lost,      \* bytes lost, and whether the node joined within a packet
  joined,
  clean,     \* no byte but headers has been 0x55
  missed     \* packets sent that were not accepted as they were sent

imuVars == <<imuPc, buff, readings, imuMsg, packet, sentOf, turn, type,
             lost, joined, clean, missed>>

Acceleration == 1
AngularVelocity == 2
Angle == 3
Magnetic == 4
Types == 1 .. 4
NoMsg == <<>>

SumOf(s) ==
  LET sum[n \in 0 .. Len(s)] == IF n = 0 THEN 0 ELSE sum[n - 1] + s[n]
  IN sum[Len(s)]
CheckByte(s)   == SumOf(s) % Mod
PacketOf(t, p) == LET s == <<Header, t>> \o p IN Append(s, CheckByte(s))
Size == Len(PacketOf(1, CHOOSE p \in Payloads : TRUE))

Idle == packet = <<>>

\* The port is opened while the sensor sends; a packet may be under way.
ImuInit ==
  /\ imuPc = "run" /\ buff = <<>> /\ imuMsg = NoMsg /\ lost = 0
  /\ readings = [t \in Types |-> 0]
  /\ turn = 1 /\ type \in Types
  /\ \E p \in Payloads, n \in 0 .. Size - 1 :
       /\ packet = IF n = 0 THEN <<>> ELSE PacketOf(type, p)
       /\ sentOf = n
       /\ joined = (n > 0)
       /\ clean = (n = 0 \/ \A i \in 2 .. Size : PacketOf(type, p)[i] # Header)
  /\ missed = 0

-----------------------------------------------------------------------------
\* The sensor begins the next packet.
BeginPacket(p) ==
  /\ Idle /\ turn <= MaxTurn
  /\ packet' = PacketOf(type, p)
  /\ sentOf' = 0
  /\ clean' = (clean /\ \A i \in 2 .. Size : packet'[i] # Header)
  /\ UNCHANGED <<imuPc, buff, readings, imuMsg, turn, type, lost, joined, missed>>

\* checkSum on the window.
CheckSum(w) == CheckByte(Front(w)) = Last(w)

\* Mutant of HandleSerialData: buff[0] is not looked at.
HandleSerialDataUnsynced(b, whole) ==
  LET w        == Append(buff, b)
      accepted == Len(w) = Size /\ w[2] \in Types /\ CheckSum(w)
  IN /\ buff' = IF Len(w) = Size THEN <<>> ELSE w
     /\ readings' = IF accepted
                    THEN [readings EXCEPT ![w[2]] = IF whole THEN turn ELSE 0]
                    ELSE readings
     /\ imuMsg' = IF accepted /\ w[2] = Angle THEN readings' ELSE imuMsg

\* handleSerialData: a window starts with any 0x55, and is dropped when it is
\* full, whatever it holds.  A known type with a right sum is a reading, and
\* an angle publishes the last of each.  The turn of a reading that is not the
\* packet just sent counts as 0.
HandleSerialData(b, whole) ==
  LET w        == Append(buff, b)
      full     == w[1] = Header /\ Len(w) = Size
      accepted == full /\ w[2] \in Types /\ CheckSum(w)
  IN /\ buff' = IF w[1] # Header \/ full THEN <<>> ELSE w
     /\ readings' = IF accepted
                    THEN [readings EXCEPT ![w[2]] = IF whole THEN turn ELSE 0]
                    ELSE readings
     /\ imuMsg' = IF accepted /\ w[2] = Angle THEN readings' ELSE imuMsg

\* After the last byte the sensor goes on to the next type.  The packet is
\* missed unless the window has just taken all of it.
Advance(taken) ==
  IF sentOf + 1 < Size
  THEN /\ sentOf' = sentOf + 1
       /\ UNCHANGED <<packet, turn, type, missed>>
  ELSE /\ packet' = <<>> /\ sentOf' = 0
       /\ turn' = IF type = Magnetic THEN turn + 1 ELSE turn
       /\ type' = IF type = Magnetic THEN 1 ELSE type + 1
       /\ missed' = IF taken THEN missed ELSE missed + 1

\* A byte reaches the node (through inWaiting and read, which only delay it).
Deliver ==
  LET whole == sentOf = Size - 1 /\ buff = Front(packet)
  IN /\ ~Idle /\ imuPc = "run"
     /\ HandleSerialData(packet[sentOf + 1], whole)
     /\ Advance(whole /\ readings'[type] = turn)
     /\ UNCHANGED <<imuPc, lost, joined, clean>>

Lose ==
  /\ ~Idle /\ imuPc = "run" /\ lost < MaxLost
  /\ lost' = lost + 1
  /\ Advance(FALSE)
  /\ UNCHANGED <<imuPc, buff, readings, imuMsg, joined, clean>>

\* inWaiting raises an exception: exit(0).
Disconnected ==
  /\ imuPc = "run"
  /\ imuPc' = "exit"
  /\ UNCHANGED <<buff, readings, imuMsg, packet, sentOf, turn, type, lost,
                 joined, clean, missed>>

ImuNext ==
  \/ \E p \in Payloads : BeginPacket(p)
  \/ Deliver
  \/ Lose
  \/ Disconnected

-----------------------------------------------------------------------------
\* The window is never full between two bytes, and readings are of turns sent.
ImuTypeOK ==
  /\ imuPc \in {"run", "exit"}
  /\ Len(buff) < Size /\ \A i \in DOMAIN buff : buff[i] \in 0 .. Mod - 1
  /\ readings \in [Types -> 0 .. MaxTurn]
  /\ imuMsg = NoMsg \/ imuMsg \in [Types -> 0 .. MaxTurn]
  /\ sentOf \in 0 .. Size - 1 /\ turn \in 1 .. MaxTurn + 1 /\ type \in Types
  /\ lost \in 0 .. MaxLost /\ joined \in BOOLEAN /\ clean \in BOOLEAN
  /\ missed \in Nat

\* As long as no byte but the headers is 0x55, the search falls into step
\* again soon: a lost byte costs at most two packets, the one it was lost from
\* and the one whose header completes the short window, and joining within a
\* packet costs that packet.  Only such a loss lets a message mix turns: else
\* acceleration and angular velocity are of the turn of the angle, and the
\* magnetic field of the one before.
LossCostsTwoPackets ==
  clean =>
    /\ missed <= 2 * lost + (IF joined THEN 1 ELSE 0)
    /\ imuMsg # NoMsg /\ missed = 0 /\ imuMsg[Angle] > 1 =>
         /\ imuMsg[Acceleration] = imuMsg[Angle]
         /\ imuMsg[AngularVelocity] = imuMsg[Angle]
         /\ imuMsg[Magnetic] = imuMsg[Angle] - 1

=============================================================================
