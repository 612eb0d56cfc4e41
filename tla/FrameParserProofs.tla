-------------------------- MODULE FrameParserProofs --------------------------
(***************************************************************************)
(* Theorems about FrameParser, for every frame length, read size and       *)
(* stream: types, that no intact frame is lost, and that the limit of      *)
(* bin_buf_ is never reached.  The last rests on the shape of one call: it *)
(* leaves bytes behind only when it has removed at least as many (Half),   *)
(* so a call that begins with at most two reads ends with at most one.     *)
(***************************************************************************)
EXTENDS FrameParser, TLAPS

\* A header search that succeeded leaves the header at the front of bin_buf_.
AtHeader == head => lo \in headers

\* The stream's own shape, which no step changes.
Shape == Streams(headers, frames)

\* Bytes removed in this call against those the last search skipped.
Half ==
  /\ pc # "idle" => hi - from <= 2 * MaxRead
  /\ pc = "search" => \/ pos = 0 /\ lo = from /\ Size >= FrameLen
                      \/ lo - from >= pos + 2
  /\ pc = "check" => lo - from >= pos

IInv == TypeOK /\ Shape /\ AtHeader /\ NoIntactFrameLost /\ Half /\ BacklogBounded

\* The parser starts with nothing buffered.
LEMMA Initially == Init => IInv
<1> SUFFICES ASSUME Init PROVE IInv
  OBVIOUS
<1> USE FrameLenAssumption, ReadAssumption, StreamLenAssumption DEF Init
<1>1. head \in BOOLEAN /\ head = FALSE
  BY Zenon
<1>2. TypeOK
  BY <1>1 DEF TypeOK, Size
<1>3. Shape /\ AtHeader /\ Half /\ BacklogBounded
  BY <1>1 DEF Shape, AtHeader, Half, BacklogBounded, Size
<1>4. NoIntactFrameLost
  <2>1. frames \subseteq headers /\ headers \subseteq 1 .. StreamLen - 1
    BY Zenon
  <2>2. \A f \in frames : ~(f < lo)
    BY <2>1
  <2>3. QED
    BY <2>2 DEF NoIntactFrameLost
<1>5. QED
  BY <1>2, <1>3, <1>4 DEF IInv

-----------------------------------------------------------------------------
\* What one search can skip: no header, and it stays inside bin_buf_.
LEMMA SkipFacts ==
  ASSUME TypeOK, pc = "search", pos < Size - 2, NEW p \in 0 .. Size, Skip(p)
  PROVE  /\ p \in Nat /\ p <= Size - 2
         /\ \A i \in headers : i >= lo => i >= lo + p \/ head
         /\ head => p = 0
         /\ (head \/ Found # {}) => (head \/ lo + p \in headers)
         /\ ~(head \/ Found # {}) => Size - p = 2
<1> USE StreamLenAssumption DEF TypeOK, Size
<1>1. p \in Nat /\ lo \in Int /\ hi \in Int /\ pos \in Nat
  OBVIOUS
<1>2. CASE head /\ p = 0
  BY <1>1, <1>2
<1>3. CASE ~head /\ p \in Found /\ \A q \in Found : p <= q
  <2>1. ASSUME NEW i \in headers, i >= lo, i < lo + p PROVE FALSE
    <3>1. i \in Int
      OBVIOUS
    <3>2. i - lo \in Found
      BY <1>1, <1>3, <2>1, <3>1 DEF Found
    <3>3. QED
      BY <1>1, <1>3, <2>1, <3>1, <3>2
  <2>2. p <= Size - 3 /\ lo + p \in headers
    BY <1>3 DEF Found
  <2>3. QED
    BY <1>1, <1>3, <2>1, <2>2
<1>4. CASE ~head /\ Found = {} /\ p = Size - 2
  <2>1. ASSUME NEW i \in headers, i >= lo, i < lo + p PROVE FALSE
    <3>1. i \in Int
      OBVIOUS
    <3>2. i - lo \in Found
      BY <1>1, <1>4, <2>1, <3>1 DEF Found
    <3>3. QED
      BY <1>4, <3>2
  <2>2. QED
    BY <1>1, <1>4, <2>1
<1>5. QED
  BY <1>2, <1>3, <1>4 DEF Skip

-----------------------------------------------------------------------------
\* Each action keeps the invariant.
LEMMA ReceiveStep ==
  ASSUME IInv, NEW n \in 0 .. MaxRead, Receive(n) PROVE IInv'
<1> USE FrameLenAssumption, ReadAssumption, StreamLenAssumption
<1>1. /\ lo \in Int /\ hi \in Int /\ n \in Int /\ Size <= MaxRead
      /\ Size + n <= MaxBuf
  BY DEF IInv, TypeOK, BacklogBounded, Size, Receive
<1>2. lo' = lo /\ hi' = hi + n /\ from' = lo /\ pos' = 0 /\ UNCHANGED <<stream, head, delivered>>
  BY <1>1 DEF Receive, Size
<1>3. TypeOK'
  BY <1>1, <1>2 DEF IInv, TypeOK, Receive, stream, Size
<1>4. Shape' /\ AtHeader' /\ NoIntactFrameLost'
  BY <1>2 DEF IInv, Shape, AtHeader, NoIntactFrameLost, stream
<1>5. Half' /\ BacklogBounded'
  BY <1>1, <1>2 DEF Half, BacklogBounded, Size, Receive
<1>6. QED
  BY <1>3, <1>4, <1>5 DEF IInv

\* The header search keeps the invariant, found or not.
LEMMA SearchStep == ASSUME IInv, Search PROVE IInv'
<1> USE FrameLenAssumption, ReadAssumption, StreamLenAssumption
<1>1. PICK p \in 0 .. Size : Skip(p) /\ pos' = p /\ lo' = lo + p
  BY DEF Search
<1>2. /\ p \in Nat /\ p <= Size - 2
      /\ \A i \in headers : i >= lo => i >= lo + p \/ head
      /\ head => p = 0
      /\ (head \/ Found # {}) => (head \/ lo + p \in headers)
      /\ ~(head \/ Found # {}) => Size - p = 2
  BY <1>1, SkipFacts DEF IInv, Search
<1>3. /\ lo \in Int /\ hi \in Int /\ from \in Int /\ pos \in Int
      /\ headers \subseteq Int /\ frames \subseteq headers
  BY DEF IInv, TypeOK
<1>4. hi' = hi /\ from' = from /\ UNCHANGED <<stream, delivered>>
  BY DEF Search
<1>5. head' <=> (head \/ Found # {})
  BY DEF Search
<1>6. pc' = IF hi - (lo + p) < FrameLen THEN "idle" ELSE "check"
  BY <1>1 DEF Search
<1>7. TypeOK'
  <2>1. head' \in BOOLEAN
    BY DEF Search, IInv, TypeOK
  <2>2. lo' \in 1 .. hi' /\ from' \in 1 .. lo' /\ pos' \in 0 .. StreamLen
    BY <1>1, <1>2, <1>3, <1>4 DEF IInv, TypeOK, Size
  <2>3. pc' = "check" => head' /\ Size' >= FrameLen
    BY <1>1, <1>2, <1>3, <1>4, <1>5, <1>6 DEF Size
  <2>4. QED
    BY <1>4, <1>6, <2>1, <2>2, <2>3 DEF IInv, TypeOK, stream
<1>8. Shape' /\ AtHeader'
  BY <1>1, <1>2, <1>4, <1>5, <1>3 DEF IInv, Shape, AtHeader, stream
<1>9. NoIntactFrameLost'
  <2>1. ASSUME NEW f \in frames PROVE f < lo <=> f < lo + p
    BY <1>2, <1>3
  <2>2. QED
    BY <1>1, <1>4, <2>1 DEF IInv, NoIntactFrameLost, stream
<1>10. Half'
  <2>1. pc = "search" /\ Half /\ from <= lo
    BY DEF Search, IInv, TypeOK
  <2>2. QED
    BY <1>1, <1>2, <1>3, <1>4, <1>6, <2>1 DEF Half, Size
<1>11. BacklogBounded'
  BY <1>1, <1>2, <1>3, <1>4, <1>6 DEF IInv, BacklogBounded, Size
<1>12. QED
  BY <1>7, <1>8, <1>9, <1>10, <1>11 DEF IInv

\* The call that ends because nothing is left to search keeps it.
LEMMA SearchEndsStep == ASSUME IInv, SearchEnds PROVE IInv'
<1> USE FrameLenAssumption, ReadAssumption, StreamLenAssumption
<1>1. UNCHANGED <<stream, lo, hi, from, head, pos, delivered>> /\ pc' = "idle"
  BY DEF SearchEnds
<1>2. TypeOK' /\ Shape' /\ AtHeader' /\ NoIntactFrameLost' /\ Half'
  BY <1>1 DEF IInv, TypeOK, Shape, AtHeader, NoIntactFrameLost, Half, stream, Size
<1>3. BacklogBounded'
  <2>1. lo \in Int /\ hi \in Int /\ from \in Int /\ pos \in Int
    BY DEF IInv, TypeOK
  <2>2. pc = "search" /\ pos >= Size - 2
    BY DEF SearchEnds
  <2>3. Size <= lo - from /\ hi - from <= 2 * MaxRead
    BY <2>1, <2>2 DEF IInv, Half, Size
  <2>4. Size <= MaxRead
    BY <2>1, <2>3 DEF Size
  <2>5. QED
    BY <1>1, <2>1, <2>4 DEF BacklogBounded, Size
<1>4. QED
  BY <1>2, <1>3 DEF IInv

\* A frame that is delivered and removed keeps it.
LEMMA AcceptStep == ASSUME IInv, Accept PROVE IInv'
<1> USE FrameLenAssumption, ReadAssumption, StreamLenAssumption
<1>1. /\ pc = "check" /\ lo \in frames /\ lo' = lo + FrameLen /\ head' = FALSE
      /\ delivered' = delivered \cup {lo} /\ UNCHANGED <<stream, hi, from, pos>>
      /\ pc' = IF Size < 2 * FrameLen THEN "idle" ELSE "search"
  BY DEF Accept
<1>2. /\ lo \in Int /\ hi \in Int /\ from \in Int /\ pos \in Nat
      /\ Size >= FrameLen /\ frames \subseteq Int
  BY <1>1 DEF IInv, TypeOK
<1>3. TypeOK'
  <2>1. head' \in BOOLEAN
    BY <1>1, Zenon
  <2>2. /\ headers' \subseteq 1 .. StreamLen /\ frames' \subseteq headers'
        /\ delivered' \subseteq frames'
    BY <1>1 DEF IInv, TypeOK, stream
  <2>3. /\ hi' \in 1 .. StreamLen + 1 /\ lo' \in 1 .. hi' /\ from' \in 1 .. lo'
        /\ pos' \in 0 .. StreamLen
    BY <1>1, <1>2 DEF IInv, TypeOK, Size
  <2>4. pc' \in {"idle", "search", "check"} /\ pc' # "check"
    BY <1>1
  <2>5. QED
    BY <2>1, <2>2, <2>3, <2>4 DEF TypeOK
<1>4. Shape' /\ AtHeader'
  BY <1>1 DEF IInv, Shape, AtHeader, stream
<1>5. NoIntactFrameLost'
  <2>1. ASSUME NEW f \in frames PROVE f < lo + FrameLen <=> f < lo \/ f = lo
    BY <1>1, <1>2, <2>1 DEF IInv, Shape, Streams
  <2>2. QED
    BY <1>1, <2>1 DEF IInv, NoIntactFrameLost, stream
<1>6. Half' /\ BacklogBounded'
  BY <1>1, <1>2 DEF IInv, Half, BacklogBounded, Size
<1>7. QED
  BY <1>3, <1>4, <1>5, <1>6 DEF IInv

\* A frame with a wrong CRC, whose header is removed, keeps it.
LEMMA RejectStep == ASSUME IInv, Reject PROVE IInv'
<1> USE FrameLenAssumption, ReadAssumption, StreamLenAssumption
<1>1. /\ pc = "check" /\ lo \notin frames /\ lo' = lo + 2 /\ head' = FALSE
      /\ pc' = "search" /\ UNCHANGED <<stream, hi, from, pos, delivered>>
  BY DEF Reject
<1>2. /\ lo \in Int /\ hi \in Int /\ from \in Int /\ pos \in Nat
      /\ Size >= FrameLen /\ headers \subseteq Int /\ frames \subseteq headers
      /\ lo \in headers
  BY <1>1 DEF IInv, TypeOK, AtHeader
<1>3. TypeOK'
  <2>1. head' \in BOOLEAN
    BY <1>1, Zenon
  <2>2. /\ headers' \subseteq 1 .. StreamLen /\ frames' \subseteq headers'
        /\ delivered' \subseteq frames'
    BY <1>1 DEF IInv, TypeOK, stream
  <2>3. /\ hi' \in 1 .. StreamLen + 1 /\ lo' \in 1 .. hi' /\ from' \in 1 .. lo'
        /\ pos' \in 0 .. StreamLen
    BY <1>1, <1>2 DEF IInv, TypeOK, Size
  <2>4. pc' \in {"idle", "search", "check"} /\ pc' # "check"
    BY <1>1
  <2>5. QED
    BY <2>1, <2>2, <2>3, <2>4 DEF TypeOK
<1>4. Shape' /\ AtHeader'
  BY <1>1 DEF IInv, Shape, AtHeader, stream
<1>5. NoIntactFrameLost'
  <2>1. lo + 1 \notin frames
    BY <1>2 DEF IInv, Shape, Streams
  <2>2. ASSUME NEW f \in frames PROVE f < lo + 2 <=> f < lo
    BY <1>1, <1>2, <2>1, f \in Int, f # lo, f # lo + 1
  <2>3. QED
    BY <1>1, <2>2 DEF IInv, NoIntactFrameLost, stream
<1>6. Half' /\ BacklogBounded'
  BY <1>1, <1>2 DEF IInv, Half, BacklogBounded, Size
<1>7. QED
  BY <1>3, <1>4, <1>5, <1>6 DEF IInv

\* All steps together.
LEMMA Inductive == IInv /\ [Next]_vars => IInv'
<1>1. ASSUME IInv, UNCHANGED vars PROVE IInv'
  BY <1>1 DEF vars, stream, IInv, TypeOK, Shape, AtHeader, NoIntactFrameLost,
              Half, BacklogBounded, Size
<1>2. QED
  BY <1>1, ReceiveStep, SearchStep, SearchEndsStep, AcceptStep, RejectStep
     DEF Next, Parse

\* The invariant holds of every behaviour.
LEMMA Invariance == Spec => []IInv
  BY Initially, Inductive, PTL DEF Spec

-----------------------------------------------------------------------------
\* Types, and the CRC is never computed over fewer bytes than a frame.
THEOREM TypeCorrect == Spec => []TypeOK
<1>1. IInv => TypeOK
  BY DEF IInv
<1>2. QED
  BY <1>1, Invariance, PTL

\* Resynchronisation never costs an intact frame.
THEOREM NoFrameLost == Spec => []NoIntactFrameLost
<1>1. IInv => NoIntactFrameLost
  BY DEF IInv
<1>2. QED
  BY <1>1, Invariance, PTL

\* With reads of at most half the limit, bin_buf_ is never emptied.
THEOREM BufferBounded == Spec => []BacklogBounded
<1>1. IInv => BacklogBounded
  BY DEF IInv
<1>2. QED
  BY <1>1, Invariance, PTL
=============================================================================
