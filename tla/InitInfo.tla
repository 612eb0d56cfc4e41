------------------------------- MODULE InitInfo -------------------------------
(***************************************************************************)
(* uart_data_find_init_info: how the receive thread learns the serial      *)
(* number and the two firmware versions.  The lidar sends them once, when  *)
(* it starts, in three packets                                             *)
(*     AA 55  command  length  payload  check byte  31 F2                  *)
(* with command 1 for the serial number, 2 and 3 for the bottom and the    *)
(* top firmware.  The driver looks for them only after GetFirmwareVersion  *)
(* or GetDeviceSN has found a member empty.  Bytes are numbers; the        *)
(* payloads are the shortest the parser tells apart.                       *)
(***************************************************************************)
EXTENDS Integers, Sequences, SequencesExt

CONSTANTS
  Noise,     \* last two bytes of a packet of scan data, as it reaches this code
  MaxSent,   \* bound: packets, or start-up messages of three, the lidar sends
  MaxWire    \* bound: bytes not yet read when the lidar sends more

ASSUME InfoAssumption ==
  /\ \A xy \in Noise : xy \in Seq(0 .. 255)
  /\ MaxSent \in Nat /\ MaxWire \in Nat

VARIABLES
  asked,   \* init_info_flag_
  head,    \* the static head_flag
  cmd,     \* cmd_buf_
  info,    \* device_sn_, bot_fw_version_, top_fw_version_ by command 1, 2, 3
  wire,    \* bytes sent and not read yet
  sent     \* how much the lidar has sent

infoVars == <<asked, head, cmd, info, wire, sent>>

Command == 1 .. 3
Empty   == <<>>
Garbage == <<0, 0>>   \* what lies behind the end of cmd_buf_

\* The payload of a firmware packet is two strings with their lengths: one of
\* no bytes, and the version.
Text(c)    == <<64 + c>>
Payload(c) == IF c = 1 THEN Text(c) ELSE <<0, 1>> \o Text(c)
Packet(c, tail) ==
  <<170, 85, c, Len(Payload(c))>> \o Payload(c) \o <<9>> \o tail
Good == <<49, 242>>
Bad  == <<49, 0>>

InitInfoInit ==
  /\ asked = FALSE /\ head = FALSE /\ cmd = <<>> /\ wire = <<>> /\ sent = 0
  /\ info = [c \in Command |-> Empty]

-----------------------------------------------------------------------------
\* The lidar ranges, or starts: its message may have a damaged packet.
SendScan(xy) ==
  /\ sent < MaxSent /\ Len(wire) < MaxWire
  /\ wire' = wire \o <<84, 44>> \o xy
  /\ sent' = sent + 1
  /\ UNCHANGED <<asked, head, cmd, info>>

Start(damaged) ==
  /\ sent < MaxSent /\ Len(wire) < MaxWire
  /\ LET one(c) == Packet(c, IF c = damaged THEN Bad ELSE Good)
     IN wire' = wire \o one(1) \o one(2) \o one(3)
  /\ sent' = sent + 1
  /\ UNCHANGED <<asked, head, cmd, info>>

\* GetFirmwareVersion and GetDeviceSN: a member that is empty asks for the
\* next start-up message.
GetFirmwareVersion ==
  /\ info[3] = Empty \/ info[2] = Empty
  /\ asked' = TRUE
  /\ UNCHANGED <<head, cmd, info, wire, sent>>

GetDeviceSN ==
  /\ info[1] = Empty
  /\ asked' = TRUE
  /\ UNCHANGED <<head, cmd, info, wire, sent>>

-----------------------------------------------------------------------------
\* The header search: the bytes that stay.  It is left out while head is up,
\* and its last three positions are never tried.
Found(buf) == {i \in 1 .. Len(buf) - 3 : buf[i] = 170 /\ buf[i + 1] = 85}
First(buf) == CHOOSE i \in Found(buf) : \A j \in Found(buf) : i <= j
\* Mutant of Searched: bytes without a header are dropped to the last.
SearchedClears(buf) ==
  IF head THEN buf
  ELSE IF Found(buf) # {} THEN SubSeq(buf, First(buf), Len(buf)) ELSE <<>>

Searched(buf) ==
  IF head THEN buf
  ELSE IF Found(buf) # {} THEN SubSeq(buf, First(buf), Len(buf))
  ELSE IF Len(buf) > 3 THEN SubSeq(buf, Len(buf) - 2, Len(buf)) ELSE buf

\* The string at buf[at], its length in front of it.  Neither is compared
\* with what the buffer holds.
StringAt(buf, at) ==
  IF at <= Len(buf) /\ at + buf[at] <= Len(buf)
  THEN SubSeq(buf, at + 1, at + buf[at]) ELSE Garbage

Parsed(buf) ==
  IF buf[3] = 1 THEN SubSeq(buf, 5, 4 + buf[4])
                ELSE StringAt(buf, 6 + buf[5])

\* A complete packet: learnt if the tail stands where its length says, and
\* removed.  Command 3 empties the buffer instead and leaves head up; if good
\* it also ends the search.
Handled(buf) ==
  LET c    == buf[3]
      size == buf[4] + 7
      good == buf[size - 1] = 49 /\ buf[size] = 242
  IN /\ info' = IF good THEN [info EXCEPT ![c] = Parsed(buf)] ELSE info
     /\ asked' = (asked /\ ~(good /\ c = 3))
     /\ cmd' = IF c = 3 THEN <<>> ELSE SubSeq(buf, size + 1, Len(buf))
     /\ head' = (c = 3)

FindInitInfo(chunk) ==
  LET all   == cmd \o chunk
      buf   == Searched(all)
      front == head \/ Found(all) # {}
  IN \/ /\ ~front \/ Len(buf) <= 3
        /\ cmd' = buf /\ head' = front
        /\ UNCHANGED <<asked, info>>
     \/ /\ front /\ Len(buf) > 3 /\ buf[3] \notin Command
        /\ cmd' = <<>> /\ head' = FALSE
        /\ UNCHANGED <<asked, info>>
     \/ /\ front /\ Len(buf) > 3 /\ buf[3] \in Command
        /\ Len(buf) < buf[4] + 7
        /\ cmd' = buf /\ head' = front
        /\ UNCHANGED <<asked, info>>
     \/ /\ front /\ Len(buf) > 3 /\ buf[3] \in Command
        /\ Len(buf) >= buf[4] + 7
        /\ Handled(buf)

\* One read of the receive thread: without the flag its bytes go to
\* uart_data_handle only.
Receive(n) ==
  /\ n <= Len(wire)
  /\ wire' = SubSeq(wire, n + 1, Len(wire))
  /\ sent' = sent
  /\ \/ /\ ~asked
        /\ UNCHANGED <<asked, head, cmd, info>>
     \/ /\ asked
        /\ FindInitInfo(SubSeq(wire, 1, n))

InitInfoNext ==
  \/ \E xy \in Noise : SendScan(xy)
  \/ \E damaged \in 0 .. 3 : Start(damaged)
  \/ GetFirmwareVersion
  \/ GetDeviceSN
  \/ \E n \in 1 .. Len(wire) : Receive(n)

-----------------------------------------------------------------------------
\* Every byte is one, and the members hold strings of bytes.
InitInfoTypeOK ==
  /\ asked \in BOOLEAN /\ head \in BOOLEAN
  /\ cmd \in Seq(0 .. 255) /\ wire \in Seq(0 .. 255) /\ sent \in 0 .. MaxSent
  /\ info \in [Command -> Seq(0 .. 255)]

\* The bytes the step reads.
Chunk == SubSeq(wire, 1, Len(wire) - Len(wire'))
Holds(buf, p) == \E i \in 1 .. Len(buf) - Len(p) + 1 :
                   SubSeq(buf, i, i + Len(p) - 1) = p

\* head_flag is up without a header: the packet of command 3 took its header
\* along and left the flag.
HeaderBytes == <<170, 85>>
Blind == head /\ ~IsPrefix(HeaderBytes, cmd \o Chunk)

\* Scan data with the two header bytes in it is taken for a packet.
Misled(buf) ==
  /\ IsPrefix(HeaderBytes, buf)
  /\ ~ \E c \in Command : \E tail \in {Good, Bad} :
         LET p == Packet(c, tail) IN IsPrefix(p, buf) \/ IsPrefix(buf, p)

\* Of an intact packet p in buf, all of it or the part at the end of buf that
\* has arrived is still there in left.
Kept(p, buf, left) ==
  \/ IsSuffix(buf, left)
  \/ /\ Holds(buf, p) => Holds(left, p)
     /\ \A k \in 1 .. Len(p) - 1 :
          IsSuffix(SubSeq(p, 1, k), buf) => IsSuffix(SubSeq(p, 1, k), left)

\* What is learnt is what the lidar sent; an intact packet that has wholly
\* arrived is learnt or still waits in cmd_buf_, and the beginning of one at
\* the end of the bytes stays there, whatever stood before it and however the
\* bytes were cut.  The exceptions: a search that begins blind or is misled;
\* for the packets also the end of the search, and a packet of command 3, which
\* empties the buffer.
Learns ==
  \/ ~asked
  \/ info' = info /\ cmd' = cmd \o Chunk
  \/ Blind
  \/ /\ \A c \in Command :
          /\ info'[c] # info[c] => info'[c] = Text(c)
          /\ \/ ~asked' \/ (head' /\ cmd' = <<>>)
             \/ info'[c] = Text(c)
             \/ Kept(Packet(c, Good), cmd \o Chunk, cmd')
  \/ Misled(Searched(cmd \o Chunk))
LearntUnlessBlind == [][Learns]_infoVars

=============================================================================
