----------------------------- MODULE FrameParser -----------------------------
(***************************************************************************)
(* uart_data_handle: how the receive thread finds frames in the bytes of   *)
(* the serial port.  The bytes received so far are numbered from 1, and    *)
(* bin_buf_ always holds a contiguous part of them, lo .. hi - 1.  What    *)
(* the code tests about the bytes is kept as two sets:                     *)
(*   headers  positions where the two header bytes 0x54 0x2C stand         *)
(*   frames   positions where FrameLen bytes with a header and a matching  *)
(*            CRC begin                                                    *)
(* Headers stand anywhere: in noise, in cut or damaged frames, in payloads *)
(* of intact frames.  The CRC is taken to be perfect, so intact frames do  *)
(* not overlap.                                                            *)
(***************************************************************************)
EXTENDS Integers, FiniteSets

CONSTANTS
  FrameLen,   \* sizeof(OradarLidarFrame), 47
  MaxRead,    \* most bytes one readData returns: readbuf holds 1024
  MaxBuf,     \* limit of bin_buf_: 100 frames
  StreamLen   \* bound: bytes the device sends

ASSUME FrameLenAssumption  == FrameLen \in Nat /\ FrameLen > 3
ASSUME ReadAssumption      == /\ MaxRead \in Nat /\ FrameLen <= MaxRead + 1
                              /\ MaxBuf \in Nat /\ 2 * MaxRead <= MaxBuf
ASSUME StreamLenAssumption == StreamLen \in Nat

VARIABLES
  headers, frames,  \* what the device sends (never changes)
  lo, hi,           \* bin_buf_ holds bytes lo .. hi - 1
  from,             \* lo when the current call began
  head,             \* parsed_data_.head_flag = HEAD_FLAG_OK, and version with it
  pos,              \* the local pos: bytes the last header search skipped
  pc,               \* "idle" outside the call, "search" at the outer loop's
                    \* test, "check" at the CRC
  delivered         \* frames handed to the scan assembly

stream == <<headers, frames>>
vars   == <<stream, lo, hi, from, head, pos, pc, delivered>>

Size == hi - lo

\* 0x2C is not 0x54, so headers are not adjacent; intact frames do not overlap.
Streams(h, f) ==
  /\ \A i \in h : i + 1 \notin h
  /\ \A i \in f : \A j \in f : i < j => i + FrameLen <= j

Init ==
  /\ headers \in SUBSET (1 .. StreamLen - 1)
  /\ frames \in SUBSET {i \in headers : i + FrameLen <= StreamLen + 1}
  /\ Streams(headers, frames)
  /\ lo = 1 /\ hi = 1 /\ from = 1
  /\ head = FALSE /\ pos = 0 /\ pc = "idle" /\ delivered = {}

-----------------------------------------------------------------------------
\* The call: bytes are pushed (none if readData failed: -1 counts as a read).
\* Too few bytes, or more than the limit, end it; the limit empties bin_buf_.
Receive(n) ==
  /\ pc = "idle"
  /\ hi + n <= StreamLen + 1
  /\ hi' = hi + n
  /\ lo' = IF Size + n > MaxBuf THEN hi + n ELSE lo
  /\ from' = lo'
  /\ pc' = IF Size + n \in FrameLen .. MaxBuf THEN "search" ELSE "idle"
  /\ pos' = 0
  /\ UNCHANGED <<stream, head, delivered>>

\* Positions the header search looks at: it stops two bytes before the end.
Found == {q \in 0 .. Size - 3 : lo + q \in headers}

\* What the header search skips: nothing if the last call left off at a header.
Skip(p) ==
  \/ head /\ p = 0
  \/ ~head /\ p \in Found /\ \A q \in Found : p <= q
  \/ ~head /\ Found = {} /\ p = Size - 2

\* Mutant of Search: what the search skipped is kept.
SearchKeepsNoise ==
  /\ pc = "search"
  /\ pos < Size - 2
  /\ \E p \in 0 .. Size : Skip(p) /\ pos' = p
  /\ head' = (head \/ Found # {})
  /\ pc' = IF head' THEN "check" ELSE "idle"
  /\ UNCHANGED <<stream, lo, hi, from, delivered>>

\* The outer loop's test (on the pos of the round before), the search, and the
\* removal of what it skipped; fewer bytes than a frame end the call.
Search ==
  /\ pc = "search"
  /\ pos < Size - 2
  /\ \E p \in 0 .. Size : Skip(p) /\ pos' = p /\ lo' = lo + p
  /\ head' = (head \/ Found # {})
  /\ pc' = IF hi - lo' < FrameLen THEN "idle" ELSE "check"
  /\ UNCHANGED <<stream, hi, from, delivered>>

\* The outer loop ends although bytes are left: pos is still the number of
\* bytes that the last search skipped.
SearchEnds ==
  /\ pc = "search"
  /\ pos >= Size - 2
  /\ pc' = "idle"
  /\ UNCHANGED <<stream, lo, hi, from, head, pos, delivered>>

\* Mutant of Accept: one byte too many is removed.
AcceptTooLong ==
  /\ pc = "check"
  /\ lo \in frames
  /\ delivered' = delivered \cup {lo}
  /\ lo' = lo + FrameLen + 1
  /\ head' = FALSE
  /\ pc' = IF Size < 2 * FrameLen THEN "idle" ELSE "search"
  /\ UNCHANGED <<stream, hi, from, pos>>

\* The CRC matches: the frame is used and removed.
Accept ==
  /\ pc = "check"
  /\ lo \in frames
  /\ delivered' = delivered \cup {lo}
  /\ lo' = lo + FrameLen
  /\ head' = FALSE
  /\ pc' = IF Size < 2 * FrameLen THEN "idle" ELSE "search"
  /\ UNCHANGED <<stream, hi, from, pos>>

\* Mutants of Reject: the whole frame is removed; the header is not removed.
RejectFrame ==
  /\ pc = "check"
  /\ lo \notin frames
  /\ lo' = lo + FrameLen
  /\ head' = FALSE
  /\ pc' = "search"
  /\ UNCHANGED <<stream, hi, from, pos, delivered>>
RejectNothing ==
  /\ pc = "check"
  /\ lo \notin frames
  /\ head' = FALSE
  /\ pc' = "search"
  /\ UNCHANGED <<stream, lo, hi, from, pos, delivered>>

\* The CRC does not match: only the header is removed, "because lidar data may
\* contain head".
Reject ==
  /\ pc = "check"
  /\ lo \notin frames
  /\ lo' = lo + 2
  /\ head' = FALSE
  /\ pc' = "search"
  /\ UNCHANGED <<stream, hi, from, pos, delivered>>

-----------------------------------------------------------------------------
Parse == Search \/ SearchEnds \/ Accept \/ Reject
Next  == (\E n \in 0 .. MaxRead : Receive(n)) \/ Parse
Spec  == Init /\ [][Next]_vars

\* The receive thread runs a call to its end.
FairSpec == Spec /\ WF_vars(Parse)

-----------------------------------------------------------------------------
(* Properties. *)

\* Types; bin_buf_ holds received bytes, and a CRC is computed over a frame.
TypeOK ==
  /\ headers \subseteq 1 .. StreamLen /\ frames \subseteq headers
  /\ hi \in 1 .. StreamLen + 1 /\ lo \in 1 .. hi /\ from \in 1 .. lo
  /\ head \in BOOLEAN /\ pos \in 0 .. StreamLen
  /\ pc \in {"idle", "search", "check"}
  /\ pc = "check" => head /\ Size >= FrameLen
  /\ delivered \subseteq frames

\* No intact frame is lost: whatever noise, cut frames and false headers stand
\* before it and however the reads cut the bytes, an intact frame leaves
\* bin_buf_ only by being delivered, once.
NoIntactFrameLost == delivered = {f \in frames : f < lo}

\* bin_buf_ never reaches the limit at which it would be emptied: although a
\* call may leave complete frames behind, it never leaves more than one read.
BacklogBounded == /\ Size <= MaxBuf
                  /\ pc = "idle" => Size <= MaxRead

\* Every call ends: each round of the loop removes bytes.
CallEnds == pc # "idle" ~> pc = "idle"
=============================================================================
