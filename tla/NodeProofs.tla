------------------------------ MODULE NodeProofs ------------------------------
(***************************************************************************)
(* Theorems about the four parts of Nodes: the start-up parser (InitInfo), *)
(* the lidar's node (ScanNode), the chassis node (LgvController) and the   *)
(* IMU node (WitImu), for every length of packet, buffer and circle and    *)
(* any number of messages, turns and lost bytes.  A section for each part  *)
(* proves its invariant from its own actions alone.                        *)
(***************************************************************************)
EXTENDS Nodes, SequenceTheorems, WellFoundedInduction, TLAPS

\* A set of numbers that is not empty has a least one.
LEMMA LeastNumber ==
  ASSUME NEW S \in SUBSET Nat, S # {}
  PROVE  \E x \in S : \A y \in S : x <= y
<1> DEFINE R == OpToRel(<, Nat)
<1>1. IsWellFoundedOn(R, Nat)
  BY NatLessThanWellFounded
<1>2. \A a, b \in Nat : a < b => <<a, b>> \in R
  BY DEF OpToRel
<1> HIDE DEF R
<1>3. PICK x \in S : \A y \in S : ~(<<y, x>> \in R)
  BY <1>1, WFMin, Zenon
<1>4. \A y \in S : y \in Nat /\ x \in Nat /\ ~(y < x)
  BY <1>2, <1>3, Zenon
<1> QED
  BY <1>4

\* Induction up to a bound, with the set of the numbers that are right in the
\* place of a predicate.
LEMMA Induction ==
  ASSUME NEW N \in Nat, NEW R, 0 \in R, \A n \in 1 .. N : n - 1 \in R => n \in R
  PROVE  \A n \in 0 .. N : n \in R
<1> DEFINE wrong == {n \in 0 .. N : n \notin R}
<1>1. SUFFICES ASSUME wrong # {} PROVE FALSE
  OBVIOUS
<1>2. PICK x \in wrong : \A y \in wrong : x <= y
  <2>1. wrong \in SUBSET Nat
    OBVIOUS
  <2> HIDE DEF wrong
  <2> QED
    BY <1>1, <2>1, LeastNumber
<1>3. x \in 1 .. N
  BY <1>2
<1>4. x - 1 \in R
  BY <1>2, <1>3
<1> QED
  BY <1>2, <1>3, <1>4

\* f starts with base, and F makes each value from its number and the value
\* before; all are in S.
Follows(f, N, S, base, F) ==
  /\ f \in [0 .. N -> S] /\ f[0] = base
  /\ \A n \in 1 .. N : f[n] = F[<<n, f[n - 1]>>]

\* Such a function exists: what a recursive definition over the numbers up to N
\* needs to mean something.
LEMMA Recursion ==
  ASSUME NEW N \in Nat, NEW S, NEW base \in S, NEW F \in [(1 .. N) \X S -> S]
  PROVE  \E f : Follows(f, N, S, base, F)
<1> DEFINE upTo(m, f) == f[0] = base /\ \A n \in 1 .. m : f[n] = F[<<n, f[n - 1]>>]
           R == {m \in 0 .. N : \E f \in [0 .. m -> S] : upTo(m, f)}
<1>1. 0 \in R
  <2> DEFINE f == [n \in 0 .. 0 |-> base]
  <2>1. f \in [0 .. 0 -> S] /\ upTo(0, f)
    OBVIOUS
  <2> HIDE DEF f
  <2> QED
    BY <2>1
<1>2. ASSUME NEW m \in 1 .. N, m - 1 \in R
      PROVE  m \in R
  <2>1. PICK g \in [0 .. m - 1 -> S] : upTo(m - 1, g)
    BY <1>2
  <2> DEFINE f == [n \in 0 .. m |-> IF n < m THEN g[n] ELSE F[<<m, g[m - 1]>>]]
  <2>2. f \in [0 .. m -> S]
    BY <2>1
  <2>3. f[0] = base
    BY <2>1
  <2>4. \A n \in 1 .. m : f[n] = F[<<n, f[n - 1]>>]
    <3>1. SUFFICES ASSUME NEW n \in 1 .. m PROVE f[n] = F[<<n, f[n - 1]>>]
      OBVIOUS
    <3>2. n - 1 \in 0 .. m /\ f[n - 1] = g[n - 1]
      OBVIOUS
    <3>3. CASE n = m
      <4>1. f[m] = F[<<m, g[m - 1]>>]
        OBVIOUS
      <4> HIDE DEF f
      <4> QED
        BY <3>2, <3>3, <4>1
    <3>4. CASE n \in 1 .. m - 1
      <4>1. f[n] = g[n] /\ g[n] = F[<<n, g[n - 1]>>]
        BY <2>1, <3>4
      <4> QED
        BY <3>2, <4>1
    <3> QED
      BY <3>3, <3>4
  <2> HIDE DEF f
  <2> QED
    BY <2>2, <2>3, <2>4
<1> HIDE DEF R
<1>3. N \in R
  BY <1>1, <1>2, Induction
<1>4. PICK f \in [0 .. N -> S] : upTo(N, f)
  BY <1>3 DEF R
<1>5. Follows(f, N, S, base, F)
  BY <1>4 DEF Follows
<1> QED
  BY <1>5

\* Each part starts in its own initial states and takes its own steps or none.
LEMMA PartsOfInit ==
  Init => InitInfoInit /\ NodeInit /\ LgvInit /\ ImuInit
BY DEF Init

\* A step is one of a part, and none of the others.
LEMMA PartsOfNext ==
  [Next]_vars => /\ [InitInfoNext]_infoVars /\ [NodeNext]_nodeVars
                 /\ [LgvNext]_lgvVars /\ [ImuNext]_imuVars
BY DEF Next, vars

-----------------------------------------------------------------------------
\* The start-up parser.

\* What is on the wire.
Octets == 0 .. 255

\* u is s with t behind it.
IsJoin(u, s, t) ==
  /\ u \in Seq(Octets) /\ Len(u) = Len(s) + Len(t)
  /\ \A i \in 1 .. Len(s) : u[i] = s[i]
  /\ \A i \in 1 .. Len(t) : u[Len(s) + i] = t[i]

\* Two strings of bytes, one behind the other.
LEMMA Joined ==
  ASSUME NEW s \in Seq(Octets), NEW t \in Seq(Octets)
  PROVE  IsJoin(s \o t, s, t)
BY DEF IsJoin

\* Bytes with the length of the packet in them, that look like a packet at their
\* front only.
Shape(p, c, tail) ==
  /\ p \in Seq(Octets) /\ Len(p) = (IF c = 1 THEN 8 ELSE 10)
  /\ p[1] = 170 /\ p[2] = 85 /\ p[3] = c /\ p[4] = Len(p) - 7
  /\ \A j \in 2 .. Len(p) : p[j] # 170
  /\ c = 1 => p[5] = 65
  /\ c # 1 => p[5] = 0 /\ p[6] = 1 /\ p[7] = 64 + c
  /\ p[Len(p) - 1] = tail[1] /\ p[Len(p)] = tail[2]

\* The packet of each command is of that shape.
LEMMA StartPacket ==
  ASSUME NEW c \in Command, NEW tail \in {Good, Bad}
  PROVE  Shape(Packet(c, tail), c, tail)
<1>0. c \in {1, 2, 3}
  BY DEF Command
<1>1. /\ tail \in Seq(Octets) /\ Len(tail) = 2
      /\ tail[1] = 49 /\ tail[2] \in {242, 0}
  <2>1. tail = Good \/ tail = Bad
    OBVIOUS
  <2>2. Good \in Seq(Octets) /\ Len(Good) = 2 /\ Good[1] = 49 /\ Good[2] = 242
    BY DEF Good, Octets
  <2>3. Bad \in Seq(Octets) /\ Len(Bad) = 2 /\ Bad[1] = 49 /\ Bad[2] = 0
    BY DEF Bad, Octets
  <2> QED
    BY <2>1, <2>2, <2>3
<1>2. /\ Payload(c) \in Seq(Octets) /\ Len(Payload(c)) = (IF c = 1 THEN 1 ELSE 3)
      /\ c = 1 => Payload(c)[1] = 65
      /\ c # 1 => Payload(c)[1] = 0 /\ Payload(c)[2] = 1 /\ Payload(c)[3] = 64 + c
  <2>1. /\ Text(c) \in Seq(Octets) /\ Len(Text(c)) = 1 /\ Text(c)[1] = 64 + c
    BY <1>0 DEF Text, Octets
  <2>2. /\ <<0, 1>> \in Seq(Octets) /\ Len(<<0, 1>>) = 2
        /\ <<0, 1>>[1] = 0 /\ <<0, 1>>[2] = 1
    BY DEF Octets
  <2>3. CASE c = 1
    BY <2>1, <2>3 DEF Payload
  <2>4. CASE c # 1
    <3> DEFINE t == <<0, 1>>
    <3>1. Payload(c) = t \o Text(c)
      BY <2>4 DEF Payload
    <3> HIDE DEF t
    <3>2. /\ t \o Text(c) \in Seq(Octets) /\ Len(t \o Text(c)) = 3
          /\ (t \o Text(c))[1] = 0 /\ (t \o Text(c))[2] = 1 /\ (t \o Text(c))[3] = 64 + c
        <4>1. t \in Seq(Octets) /\ Len(t) = 2 /\ t[1] = 0 /\ t[2] = 1
        BY <2>2 DEF t
      <4>2. IsJoin(t \o Text(c), t, Text(c))
        BY <2>1, <4>1, Joined
      <4> HIDE DEF t
      <4> DEFINE u == t \o Text(c)
      <4>3. IsJoin(u, t, Text(c))
        BY <4>2
      <4> HIDE DEF u
      <4>4. u[2 + 1] = 64 + c
        BY <2>1, <4>1, <4>3 DEF IsJoin
      <4>5. u \in Seq(Octets) /\ Len(u) = 3 /\ u[1] = 0 /\ u[2] = 1 /\ u[3] = 64 + c
        BY <2>1, <4>1, <4>3, <4>4 DEF IsJoin
      <4> QED
        BY <4>5 DEF u
    <3> QED
      BY <2>4, <3>1, <3>2
  <2> QED
    BY <2>3, <2>4
<1> DEFINE y == Payload(c)
           l == Len(y)
           h == <<170, 85, c, l>>
           k == <<9>>
           p == Packet(c, tail)
<1> HIDE DEF y
<1>3. /\ y \in Seq(Octets) /\ l \in {1, 3} /\ l = (IF c = 1 THEN 1 ELSE 3)
      /\ \A j \in 1 .. l : y[j] # 170
      /\ c = 1 => y[1] = 65
      /\ c # 1 => y[1] = 0 /\ y[2] = 1 /\ y[3] = 64 + c
  BY <1>0, <1>2 DEF y
<1> HIDE DEF l
<1>4. /\ h \in Seq(Octets) /\ Len(h) = 4
      /\ h[1] = 170 /\ h[2] = 85 /\ h[3] = c /\ h[4] = l
  BY <1>0, <1>3 DEF Octets
<1>5. k \in Seq(Octets) /\ Len(k) = 1 /\ k[1] = 9
  BY DEF Octets
<1>6. p = ((h \o y) \o k) \o tail
  BY DEF Packet, y, l
<1> HIDE DEF h, k, p
<1> DEFINE q == h \o y
           r == q \o k
<1>7. /\ q \in Seq(Octets) /\ Len(q) = 4 + l
      /\ \A i \in 1 .. 4 : q[i] = h[i]
      /\ \A i \in 1 .. l : q[4 + i] = y[i]
  <2>1. IsJoin(q, h, y)
    BY <1>3, <1>4, Joined
  <2> QED
    BY <1>3, <1>4, <2>1, SMTT(30) DEF IsJoin, l
<1> HIDE DEF q
<1>8. /\ r \in Seq(Octets) /\ Len(r) = 5 + l
      /\ \A i \in 1 .. 4 + l : r[i] = q[i]
      /\ r[5 + l] = 9
  <2>1. IsJoin(r, q, k)
    BY <1>5, <1>7, Joined
  <2> HIDE DEF r
  <2>2. r[(4 + l) + 1] = 9
    BY <1>3, <1>5, <1>7, <2>1 DEF IsJoin
  <2>3. (4 + l) + 1 = 5 + l
    BY <1>3
  <2> QED
    BY <1>3, <1>5, <1>7, <2>1, <2>2, <2>3 DEF IsJoin
<1> HIDE DEF r
<1>9. /\ p \in Seq(Octets) /\ Len(p) = 7 + l
      /\ \A i \in 1 .. 5 + l : p[i] = r[i]
      /\ p[6 + l] = tail[1] /\ p[7 + l] = tail[2]
  <2>1. IsJoin(p, r, tail)
    BY <1>1, <1>6, <1>8, Joined DEF r, q
  <2>2. p[(5 + l) + 1] = tail[1] /\ p[(5 + l) + 2] = tail[2]
    BY <1>1, <1>3, <1>8, <2>1 DEF IsJoin
  <2>3. (5 + l) + 1 = 6 + l /\ (5 + l) + 2 = 7 + l
    BY <1>3
  <2> QED
    BY <1>1, <1>3, <1>8, <2>1, <2>2, <2>3 DEF IsJoin
<1>10. /\ p[1] = 170 /\ p[2] = 85 /\ p[3] = c /\ p[4] = l
       /\ \A i \in 1 .. l : p[4 + i] = y[i]
       /\ p[5 + l] = 9
  <2>1. \A i \in 1 .. 4 : p[i] = h[i]
    <3>1. ASSUME NEW i \in 1 .. 4 PROVE p[i] = h[i]
      <4>1. i \in 1 .. 4 + l /\ i \in 1 .. 5 + l
        BY <1>3
      <4> QED
        BY <1>7, <1>8, <1>9, <4>1
    <3> QED
      BY <3>1
  <2>2. ASSUME NEW i \in 1 .. l PROVE p[4 + i] = y[i]
    <3>1. 4 + i \in 1 .. 4 + l /\ 4 + i \in 1 .. 5 + l
      BY <1>3
    <3> QED
      BY <1>7, <1>8, <1>9, <3>1
  <2>3. p[5 + l] = 9
    BY <1>3, <1>8, <1>9
  <2> QED
    BY <1>4, <2>1, <2>2, <2>3
<1>11. c = 1 => p[5] = 65
  BY <1>3, <1>10
<1>12. c # 1 => p[5] = 0 /\ p[6] = 1 /\ p[7] = 64 + c
  BY <1>3, <1>10
<1>13. \A j \in 2 .. 7 + l : p[j] # 170
  <2>1. \A j \in 5 .. 4 + l : p[j] # 170
    BY <1>3, <1>10
  <2>2. /\ p[2] # 170 /\ p[3] # 170 /\ p[4] # 170
        /\ p[5 + l] # 170 /\ p[6 + l] # 170 /\ p[7 + l] # 170
    BY <1>0, <1>1, <1>3, <1>9, <1>10, SMTT(30)
  <2> QED
    BY <1>3, <2>1, <2>2
<1>14. Len(p) = (IF c = 1 THEN 8 ELSE 10) /\ p[4] = Len(p) - 7
       /\ p[Len(p) - 1] = tail[1] /\ p[Len(p)] = tail[2]
  BY <1>3, <1>9, <1>10
<1> QED
  BY <1>9, <1>10, <1>11, <1>12, <1>13, <1>14 DEF p, Shape
\* IsPrefix, byte by byte.
LEMMA PrefixFacts ==
  ASSUME NEW s \in Seq(Octets), NEW t \in Seq(Octets)
  PROVE  IsPrefix(s, t) <=> Len(s) <= Len(t) /\ \A i \in 1 .. Len(s) : s[i] = t[i]
BY DEF IsPrefix

\* IsSuffix, byte by byte.
LEMMA SuffixFacts ==
  ASSUME NEW s \in Seq(Octets), NEW t \in Seq(Octets)
  PROVE  IsSuffix(s, t) <=>
           Len(s) <= Len(t) /\ \A i \in 1 .. Len(s) : s[i] = t[Len(t) - Len(s) + i]
<1>1. /\ Reverse(s) \in Seq(Octets) /\ Len(Reverse(s)) = Len(s)
      /\ \A i \in 1 .. Len(s) : Reverse(s)[i] = s[Len(s) - i + 1]
  BY DEF Reverse
<1>2. /\ Reverse(t) \in Seq(Octets) /\ Len(Reverse(t)) = Len(t)
      /\ \A i \in 1 .. Len(t) : Reverse(t)[i] = t[Len(t) - i + 1]
  BY DEF Reverse
<1>3. IsSuffix(s, t) <=>
        Len(s) <= Len(t) /\ \A i \in 1 .. Len(s) : s[Len(s) - i + 1] = t[Len(t) - i + 1]
  BY <1>1, <1>2, PrefixFacts, SMTT(30) DEF IsSuffix
<1>4. ASSUME Len(s) <= Len(t)
      PROVE  (\A i \in 1 .. Len(s) : s[Len(s) - i + 1] = t[Len(t) - i + 1])
               <=> \A i \in 1 .. Len(s) : s[i] = t[Len(t) - Len(s) + i]
  <2>1. \A i \in 1 .. Len(s) : /\ Len(s) - i + 1 \in 1 .. Len(s)
                               /\ Len(s) - (Len(s) - i + 1) + 1 = i
                               /\ Len(t) - (Len(s) - i + 1) + 1 = Len(t) - Len(s) + i
                               /\ Len(t) - Len(s) + (Len(s) - i + 1) = Len(t) - i + 1
    OBVIOUS
  <2> DEFINE x(i) == s[i]
             y(i) == t[i]
  <2>2. ASSUME \A i \in 1 .. Len(s) : x(Len(s) - i + 1) = y(Len(t) - i + 1),
               NEW i \in 1 .. Len(s)
        PROVE  x(i) = y(Len(t) - Len(s) + i)
    <3> DEFINE k == Len(s) - i + 1
    <3>1. k \in 1 .. Len(s) /\ Len(s) - k + 1 = i /\ Len(t) - k + 1 = Len(t) - Len(s) + i
      BY <2>1
    <3> HIDE DEF k
    <3> QED
      BY <2>2, <3>1
  <2>3. ASSUME \A i \in 1 .. Len(s) : x(i) = y(Len(t) - Len(s) + i),
               NEW i \in 1 .. Len(s)
        PROVE  x(Len(s) - i + 1) = y(Len(t) - i + 1)
    <3> DEFINE k == Len(s) - i + 1
    <3>1. k \in 1 .. Len(s) /\ Len(t) - Len(s) + k = Len(t) - i + 1
      BY <2>1
    <3> HIDE DEF k
    <3>2. x(k) = y(Len(t) - i + 1)
      BY <2>3, <3>1
    <3> QED
      BY <3>2 DEF k
  <2> QED
    BY <2>2, <2>3
<1> QED
  BY <1>3, <1>4

\* p stands in s from position i on, as far as s goes.
StandsAt(p, s, i) == \A j \in 1 .. Len(p) : i + j - 1 <= Len(s) => s[i + j - 1] = p[j]

\* t is s without its first n bytes.
Without(n, s, t) ==
  /\ n \in 0 .. Len(s) /\ t \in Seq(Octets) /\ Len(t) = Len(s) - n
  /\ \A i \in 1 .. Len(t) : t[i] = s[n + i]

\* A packet is kept if it does not begin within the bytes that are removed.
LEMMA KeptFacts ==
  ASSUME NEW p \in Seq(Octets), NEW s \in Seq(Octets), NEW t, NEW n, Without(n, s, t),
         Len(p) > 0, \A i \in 1 .. Len(s) : StandsAt(p, s, i) => i > n
  PROVE  Kept(p, s, t)
<1>1. /\ n \in 0 .. Len(s) /\ t \in Seq(Octets) /\ Len(t) = Len(s) - n
      /\ \A i \in 1 .. Len(t) : t[i] = s[n + i]
      /\ Len(s) \in Nat /\ Len(p) \in Nat \ {0}
  BY DEF Without
<1>2. ASSUME Holds(s, p)
      PROVE  Holds(t, p)
  <2>1. PICK i \in 1 .. Len(s) - Len(p) + 1 : SubSeq(s, i, i + Len(p) - 1) = p
    BY <1>2 DEF Holds
  <2>2. \A j \in 1 .. Len(p) : s[i + j - 1] = p[j]
    BY <1>1, <2>1
  <2>3. i > n
    <3>1. i \in 1 .. Len(s)
      BY <1>1, <2>1
    <3>2. StandsAt(p, s, i)
      BY <2>2 DEF StandsAt
    <3> QED
      BY <3>1, <3>2
  <2> DEFINE k == i - n
             u == SubSeq(t, k, k + Len(p) - 1)
  <2>4. k \in 1 .. Len(t) - Len(p) + 1
    BY <1>1, <2>3
  <2>5. /\ u \in Seq(Octets) /\ Len(u) = Len(p)
        /\ \A j \in 1 .. Len(p) : u[j] = t[k + j - 1]
    BY <1>1, <2>4
  <2>6. \A j \in 1 .. Len(p) : t[k + j - 1] = s[i + j - 1]
    <3>1. \A j \in 1 .. Len(p) : k + j - 1 \in 1 .. Len(t) /\ n + (k + j - 1) = i + j - 1
      BY <1>1, <2>4
    <3> QED
      BY <1>1, <3>1
  <2> HIDE DEF u, k
  <2>7. u = p
    BY <2>2, <2>5, <2>6, SeqEqual
  <2> QED
    BY <2>4, <2>7 DEF Holds, u
<1>3. ASSUME NEW k \in 1 .. Len(p) - 1, IsSuffix(SubSeq(p, 1, k), s)
      PROVE  IsSuffix(SubSeq(p, 1, k), t)
  <2> DEFINE q == SubSeq(p, 1, k)
  <2>1. q \in Seq(Octets) /\ Len(q) = k /\ \A j \in 1 .. k : q[j] = p[j]
    BY <1>1
  <2> HIDE DEF q
  <2>2. k <= Len(s) /\ \A j \in 1 .. k : q[j] = s[Len(s) - k + j]
    <3>1. IsSuffix(q, s)
      BY <1>3 DEF q
    <3>2. Len(q) <= Len(s) /\ \A j \in 1 .. Len(q) : q[j] = s[Len(s) - Len(q) + j]
      BY <2>1, <3>1, SuffixFacts
    <3> QED
      BY <2>1, <3>2
  <2>3. Len(s) - k + 1 \in 1 .. Len(s)
    BY <1>1, <2>2
  <2>4. StandsAt(p, s, Len(s) - k + 1)
    <3>1. \A j \in 1 .. Len(p) : (Len(s) - k + 1) + j - 1 = Len(s) - k + j
      BY <1>1
    <3>2. \A j \in 1 .. Len(p) : Len(s) - k + j <= Len(s) => j \in 1 .. k
      BY <1>1
    <3> QED
      BY <2>1, <2>2, <3>1, <3>2 DEF StandsAt
  <2>5. Len(s) - k + 1 > n
    BY <2>3, <2>4
  <2>6. k <= Len(t) /\ \A j \in 1 .. k : /\ Len(t) - k + j \in 1 .. Len(t)
                                         /\ n + (Len(t) - k + j) = Len(s) - k + j
    BY <1>1, <2>5
  <2>7. \A j \in 1 .. k : q[j] = t[Len(t) - k + j]
    BY <1>1, <2>2, <2>6
  <2> QED
    BY <1>1, <2>1, <2>6, <2>7, SuffixFacts DEF q
<1> QED
  BY <1>2, <1>3 DEF Kept

\* What the header search leaves is a rest of the bytes, and no packet begins
\* within what it drops.
LEMMA SearchedFacts ==
  ASSUME NEW all \in Seq(Octets), head \in BOOLEAN
  PROVE  \E o : /\ Without(o, all, Searched(all))
                /\ head => o = 0
                /\ ~head /\ Found(all) # {} => o + 1 \in Found(all)
                /\ \A p \in Seq(Octets), i \in 1 .. Len(all) :
                     Len(p) > 1 /\ p[1] = 170 /\ p[2] = 85 /\ StandsAt(p, all, i) => i > o
<1> DEFINE L == Len(all)
<1>1. L \in Nat /\ \A i \in 1 .. L : all[i] \in Octets
  OBVIOUS
<1>2. ASSUME NEW o \in 0 .. L
      PROVE  Without(o, all, SubSeq(all, o + 1, L))
  BY <1>2 DEF Without
<1>3. ASSUME NEW p \in Seq(Octets), NEW i \in 1 .. L - 3, Len(p) > 1, p[1] = 170, p[2] = 85,
             StandsAt(p, all, i)
      PROVE  i \in Found(all)
  <2>1. /\ 1 \in 1 .. Len(p) /\ i + 1 - 1 = i /\ i <= L
        /\ 2 \in 1 .. Len(p) /\ i + 2 - 1 = i + 1 /\ i + 1 <= L
    BY <1>1, <1>3
  <2>2. all[i] = 170 /\ all[i + 1] = 85
    BY <1>3, <2>1, SMTT(30) DEF StandsAt
  <2> QED
    BY <2>2 DEF Found
<1>4. CASE head
  <2>1. Without(0, all, Searched(all))
    BY <1>1, <1>4 DEF Searched, Without
  <2>2. \A p \in Seq(Octets), i \in 1 .. L : StandsAt(p, all, i) => i > 0
    BY <1>1
  <2> QED
    BY <1>4, <2>1, <2>2
<1>5. CASE ~head /\ Found(all) # {}
  <2> DEFINE f == First(all)
  <2>1. Found(all) \in SUBSET Nat /\ Found(all) \subseteq 1 .. L - 3
    BY <1>1 DEF Found
  <2>2. \E i \in Found(all) : \A j \in Found(all) : i <= j
    BY <1>5, <2>1, LeastNumber
  <2>3. f \in Found(all) /\ \A j \in Found(all) : f <= j
    BY <2>2, Zenon DEF First
  <2>4. Searched(all) = SubSeq(all, f, L)
    BY <1>5 DEF Searched
  <2> HIDE DEF f
  <2> DEFINE o == f - 1
  <2>5. o \in 0 .. L /\ o + 1 = f /\ o + 1 <= L - 3 /\ o \in Nat
    BY <1>1, <2>1, <2>3
  <2>6. Without(o, all, Searched(all))
    BY <1>2, <2>4, <2>5
  <2> HIDE DEF o
  <2>7. ASSUME NEW p \in Seq(Octets), NEW i \in 1 .. L, Len(p) > 1, p[1] = 170, p[2] = 85,
               StandsAt(p, all, i)
        PROVE  i > o
    <3>1. CASE i <= L - 3
      <4>1. i \in 1 .. L - 3
        BY <1>1, <3>1
      <4>2. i \in Found(all)
        BY <1>3, <2>7, <4>1
      <4> QED
        BY <2>3, <2>5, <4>1, <4>2
    <3>2. CASE ~(i <= L - 3)
      BY <1>1, <2>5, <3>2
    <3> QED
      BY <3>1, <3>2
  <2>8. o + 1 \in Found(all)
    BY <2>3, <2>5
  <2> QED
    BY <1>5, <2>6, <2>7, <2>8
<1>6. CASE ~head /\ Found(all) = {}
  <2> DEFINE o == IF L > 3 THEN L - 3 ELSE 0
  <2>1. o \in 0 .. L
    BY <1>1
  <2>2. Searched(all) = SubSeq(all, o + 1, L)
    <3>1. CASE L > 3
      <4>1. o + 1 = L - 2
        BY <1>1, <3>1
      <4> QED
        BY <1>6, <3>1, <4>1 DEF Searched
    <3>2. CASE ~(L > 3)
      <4>1. Searched(all) = all /\ o + 1 = 1
        BY <1>6, <3>2 DEF Searched
      <4>2. SubSeq(all, 1, L) = all
        BY SubSeqFull
      <4> QED
        BY <4>1, <4>2
    <3> QED
      BY <3>1, <3>2
  <2>3. Without(o, all, Searched(all))
    BY <1>2, <2>1, <2>2
  <2>4. ASSUME NEW p \in Seq(Octets), NEW i \in 1 .. L, Len(p) > 1, p[1] = 170, p[2] = 85,
               StandsAt(p, all, i)
        PROVE  i > o
    <3>1. i \notin 1 .. L - 3
      BY <1>3, <1>6, <2>4
    <3> QED
      BY <1>1, <3>1
  <2> HIDE DEF o
  <2> QED
    BY <1>6, <2>3, <2>4
<1> QED
  BY <1>4, <1>5, <1>6

\* A buffer with a header at its front that is not misleading begins with a
\* packet, or is the beginning of one.
LEMMA FrontPacket ==
  ASSUME NEW buf \in Seq(Octets), Len(buf) > 3, buf[1] = 170, buf[2] = 85, ~Misled(buf)
  PROVE  \E c \in Command, tail \in {Good, Bad} :
           /\ buf[3] = c /\ buf[4] + 7 = Len(Packet(c, tail))
           /\ \A j \in 1 .. Len(Packet(c, tail)) : j <= Len(buf) => buf[j] = Packet(c, tail)[j]
<1>1. IsPrefix(HeaderBytes, buf)
  <2>1. HeaderBytes \in Seq(Octets) /\ Len(HeaderBytes) = 2
        /\ HeaderBytes[1] = 170 /\ HeaderBytes[2] = 85
    BY DEF HeaderBytes, Octets
  <2>2. \A i \in 1 .. 2 : HeaderBytes[i] = buf[i]
    BY <2>1
  <2> QED
    BY <2>1, <2>2, PrefixFacts
<1>2. PICK c \in Command, tail \in {Good, Bad} :
        IsPrefix(Packet(c, tail), buf) \/ IsPrefix(buf, Packet(c, tail))
  BY <1>1 DEF Misled
<1> DEFINE p == Packet(c, tail)
<1>3. /\ p \in Seq(Octets) /\ Len(p) \in {8, 10} /\ p[3] = c /\ p[4] = Len(p) - 7
  BY StartPacket, SMTT(30) DEF Shape
<1>4. IsPrefix(p, buf) \/ IsPrefix(buf, p)
  BY <1>2
<1> HIDE DEF p
<1>5. \A j \in 1 .. Len(p) : j <= Len(buf) => buf[j] = p[j]
  <2>1. CASE IsPrefix(p, buf)
    BY <1>3, <2>1, PrefixFacts
  <2>2. CASE IsPrefix(buf, p)
    <3>1. \A j \in 1 .. Len(buf) : buf[j] = p[j]
      BY <1>3, <2>2, PrefixFacts
    <3> QED
      BY <1>3, <3>1
  <2> QED
    BY <1>4, <2>1, <2>2
<1>6. buf[3] = c /\ buf[4] = p[4]
  BY <1>3, <1>5, SMTT(30)
<1>7. buf[4] + 7 = Len(p)
  BY <1>3, <1>6
<1> QED
  BY <1>5, <1>6, <1>7 DEF p

\* The bytes in front of the next packet: those that are not read, and those
\* of the packet that has been handled.
LEMMA WithoutMore ==
  ASSUME NEW s \in Seq(Octets), NEW t, NEW o, Without(o, s, t), NEW n \in 0 .. Len(t)
  PROVE  Without(o + n, s, SubSeq(t, n + 1, Len(t)))
<1>1. /\ o \in 0 .. Len(s) /\ t \in Seq(Octets) /\ Len(t) = Len(s) - o /\ Len(s) \in Nat
      /\ \A i \in 1 .. Len(t) : t[i] = s[o + i]
  <2>1. Len(s) \in Nat
    OBVIOUS
  <2> QED
    BY ONLY <2>1, Without(o, s, t), Zenon DEF Without
<1> DEFINE u == SubSeq(t, n + 1, Len(t))
<1>2. u \in Seq(Octets) /\ Len(u) = Len(t) - n /\ \A i \in 1 .. Len(u) : u[i] = t[n + i]
  <2> DEFINE m == Len(t)
  <2>1. t \in Seq(Octets) /\ m \in Nat /\ n \in 0 .. m /\ m = Len(t)
    BY <1>1
  <2> HIDE DEF m
  <2> QED
    BY ONLY <2>1
<1> HIDE DEF u
<1>3. \A i \in 1 .. Len(u) : n + i \in 1 .. Len(t) /\ o + (n + i) = (o + n) + i
  BY <1>1, <1>2
<1>4. \A i \in 1 .. Len(u) : u[i] = s[(o + n) + i]
  <2>1. ASSUME NEW i \in 1 .. Len(u) PROVE u[i] = s[(o + n) + i]
    BY <1>1, <1>2, <1>3
  <2> QED
    BY <2>1
<1>5. Without(o + n, s, u)
  BY <1>1, <1>2, <1>4 DEF Without
<1> QED
  BY <1>5 DEF u

\* A string of one byte.
LEMMA OneByte ==
  ASSUME NEW s \in Seq(Octets), NEW i \in 1 .. Len(s), NEW v, s[i] = v
  PROVE  SubSeq(s, i, i) = <<v>>
<1>1. v \in Octets
  OBVIOUS
<1>2. /\ SubSeq(s, i, i) \in Seq(Octets) /\ Len(SubSeq(s, i, i)) = 1
      /\ SubSeq(s, i, i)[1] = v
  OBVIOUS
<1>3. <<v>> \in Seq(Octets) /\ Len(<<v>>) = 1 /\ <<v>>[1] = v
  BY <1>1
<1> DEFINE t == SubSeq(s, i, i)
           u == <<v>>
<1> HIDE DEF t, u
<1>4. t = u
  <2>1. \A j \in 1 .. 1 : t[j] = u[j]
    BY <1>2, <1>3 DEF t, u
  <2> QED
    BY <1>2, <1>3, <2>1, SeqEqual DEF t, u
<1> QED
  BY <1>4 DEF t, u
\* What a packet at the front of the buffer leaves, if it is handled.
LEMMA HandledFacts ==
  ASSUME InitInfoTypeOK, NEW all \in Seq(Octets), NEW buf, NEW o, Without(o, all, buf),
         \A p \in Seq(Octets), i \in 1 .. Len(all) :
           Len(p) > 1 /\ p[1] = 170 /\ p[2] = 85 /\ StandsAt(p, all, i) => i > o,
         Len(buf) > 3, buf[1] = 170, buf[2] = 85, ~Misled(buf),
         Len(buf) >= buf[4] + 7, Handled(buf), NEW e \in Command
  PROVE  /\ info'[e] # info[e] => info'[e] = Text(e)
         /\ \/ head' /\ cmd' = <<>>
            \/ info'[e] = Text(e)
            \/ Kept(Packet(e, Good), all, cmd')
<1>1. buf \in Seq(Octets) /\ Len(buf) \in Nat
  BY DEF Without
<1>2. PICK c \in Command, tail \in {Good, Bad} :
        /\ buf[3] = c /\ buf[4] + 7 = Len(Packet(c, tail))
        /\ \A j \in 1 .. Len(Packet(c, tail)) : j <= Len(buf) => buf[j] = Packet(c, tail)[j]
  BY <1>1, FrontPacket
<1> DEFINE p == Packet(c, tail)
           size == buf[4] + 7
           good == buf[size - 1] = 49 /\ buf[size] = 242
           q == Packet(e, Good)
<1>3. /\ p \in Seq(Octets) /\ Len(p) = (IF c = 1 THEN 8 ELSE 10)
      /\ \A j \in 2 .. Len(p) : p[j] # 170
      /\ c = 1 => p[5] = 65
      /\ c # 1 => p[5] = 0 /\ p[6] = 1 /\ p[7] = 64 + c
      /\ p[Len(p) - 1] = tail[1] /\ p[Len(p)] = tail[2]
  <2>1. Shape(p, c, tail)
    BY StartPacket
  <2> HIDE DEF p
  <2> QED
    BY <2>1 DEF Shape
<1>4. /\ q \in Seq(Octets) /\ Len(q) = (IF e = 1 THEN 8 ELSE 10)
      /\ q[1] = 170 /\ q[2] = 85 /\ q[3] = e /\ q[Len(q)] = 242
  <2>1. Good[2] = 242
    BY DEF Good
  <2> QED
    <3>1. Good \in {Good, Bad} /\ Shape(q, e, Good)
      BY StartPacket
    <3> HIDE DEF q
    <3> QED
      BY <2>1, <3>1 DEF Shape
<1>5. Len(p) = size /\ buf[3] = c /\ \A j \in 1 .. Len(p) : j <= Len(buf) => buf[j] = p[j]
  BY <1>2
<1>6. /\ info' = (IF good THEN [info EXCEPT ![c] = Parsed(buf)] ELSE info)
      /\ cmd' = (IF c = 3 THEN <<>> ELSE SubSeq(buf, size + 1, Len(buf)))
      /\ head' = (c = 3)
  BY <1>5 DEF Handled
<1>7. tail[1] = 49 /\ info \in [Command -> Seq(0 .. 255)] /\ c \in {1, 2, 3} /\ e \in {1, 2, 3}
  BY DEF Good, Bad, InitInfoTypeOK, Command
<1> HIDE DEF p, q
<1>8. size \in {8, 10} /\ size <= Len(buf) /\ size = Len(p)
  BY <1>3, <1>5, ZenonT(40)
<1> HIDE DEF size
<1>9. \A j \in 1 .. size : buf[j] = p[j]
  BY <1>1, <1>5, <1>8
<1>10. good => Parsed(buf) = Text(c)
  <2>1. CASE c = 1
    <3>1. buf[3] = 1 /\ buf[4] = 1 /\ buf[5] = 65 /\ Len(buf) >= 8
      <4>1. size = 8 /\ Len(buf) >= 8
        BY <1>1, <1>3, <1>8, <2>1
      <4>2. buf[5] = 65
        BY <1>3, <1>9, <2>1, <4>1
      <4>3. buf[4] \in Octets /\ buf[4] + 7 = 8
        BY <1>1, <4>1 DEF size
      <4>4. buf[3] = 1
        BY <1>5, <2>1
      <4>5. buf[4] = 1
        <5> DEFINE x == buf[4]
        <5>1. x \in 0 .. 255 /\ x + 7 = 8
          BY <4>3 DEF Octets
        <5> HIDE DEF x
        <5>2. x = 1
          BY ONLY <5>1
        <5> QED
          BY <5>2 DEF x
      <4> QED
        BY <4>1, <4>2, <4>4, <4>5
    <3>2. Parsed(buf) = SubSeq(buf, 5, 5)
      BY <3>1 DEF Parsed
    <3>3. SubSeq(buf, 5, 5) = <<65>>
      BY <1>1, <3>1, OneByte, SMTT(30)
    <3> QED
      BY <2>1, <3>2, <3>3 DEF Text
  <2>2. CASE c # 1
    <3>1. buf[3] # 1 /\ buf[5] = 0 /\ buf[6] = 1 /\ buf[7] = 64 + c /\ Len(buf) >= 10
      BY <1>3, <1>5, <1>7, <1>8, <1>9, <2>2, SMTT(30)
    <3>2. Parsed(buf) = SubSeq(buf, 7, 7)
      BY <3>1, SMTT(30) DEF Parsed, StringAt
    <3>3. SubSeq(buf, 7, 7) = <<64 + c>>
      BY <1>1, <3>1, OneByte
    <3> QED
      BY <2>2, <3>2, <3>3 DEF Text
  <2> QED
    BY <2>1, <2>2
<1>11. /\ info'[e] # info[e] => info'[e] = Text(e)
       /\ good /\ e = c => info'[e] = Text(e)
  <2> HIDE DEF good
  <2> QED
    BY <1>6, <1>7, <1>10
<1>12. CASE c = 3
  <2> HIDE DEF good
  <2> QED
    BY <1>6, <1>11, <1>12
<1>13. CASE c # 3 /\ ~(good /\ e = c)
  <2>1. Without(o + size, all, cmd')
    <3>1. size \in 0 .. Len(buf) /\ cmd' = SubSeq(buf, size + 1, Len(buf))
      BY <1>1, <1>6, <1>8, <1>13, SMTT(30)
    <3> QED
      BY <3>1, WithoutMore
  <2>2. ASSUME NEW i \in 1 .. Len(all), StandsAt(q, all, i)
        PROVE  i > o + size
    <3>1. /\ o \in 0 .. Len(all) /\ Len(buf) = Len(all) - o /\ Len(all) \in Nat
          /\ \A j \in 1 .. Len(buf) : buf[j] = all[o + j]
      BY DEF Without
    <3>2. i > o
      BY <1>4, <2>2, SMTT(30)
    <3>3. SUFFICES ASSUME i <= o + size PROVE FALSE
      BY <1>8, <3>1
    <3> DEFINE j == i - o
    <3>4. j \in 1 .. size /\ j \in 1 .. Len(buf) /\ o + j = i
      BY <1>1, <1>8, <3>1, <3>2, <3>3
    <3>5. \A m \in 1 .. Len(q) : i + m - 1 <= Len(all) => all[i + m - 1] = q[m]
      BY <2>2 DEF StandsAt
    <3>6. all[i] = 170
      <4>1. 1 \in 1 .. Len(q) /\ i + 1 - 1 = i
        BY <1>4
      <4> QED
        BY <1>4, <3>5, <4>1, SMTT(30)
    <3>7. buf[j] = 170
      BY <3>1, <3>4, <3>6, SMTT(30)
    <3> HIDE DEF j
    <3>8. j = 1
      <4>1. SUFFICES ASSUME j # 1 PROVE FALSE
        OBVIOUS
      <4>2. j \in 2 .. Len(p)
        BY <1>8, <3>4, <4>1
      <4>3. p[j] # 170
        BY <1>3, <4>2
      <4>4. buf[j] = p[j]
        BY <1>9, <3>4
      <4> QED
        BY <3>7, <4>3, <4>4
    <3>9. i = o + 1
      BY <3>1, <3>4, <3>8
    <3>10. ASSUME NEW m \in 1 .. Len(q), m \in 1 .. Len(buf)
           PROVE  buf[m] = q[m]
      <4>1. i + m - 1 = o + m /\ i + m - 1 <= Len(all)
        BY <1>1, <1>4, <3>1, <3>9, <3>10
      <4> QED
        <5>1. all[i + m - 1] = q[m]
          BY <3>5, <3>10, <4>1
        <5>2. buf[m] = all[o + m]
          BY <3>1, <3>10
        <5> QED
          BY <4>1, <5>1, <5>2
    <3>11. e = c
      <4>1. 3 \in 1 .. Len(q) /\ 3 \in 1 .. Len(buf)
        BY <1>1, <1>4
      <4> QED
        BY <1>4, <1>5, <3>10, <4>1
    <3>12. Len(q) = size /\ size \in 1 .. Len(q) /\ size \in 1 .. Len(buf)
      BY <1>1, <1>3, <1>4, <1>8, <3>11
    <3>13. buf[size] = 242
      <4>1. buf[size] = q[size]
        BY <3>10, <3>12
      <4> QED
        BY <1>4, <3>12, <4>1
    <3>14. buf[size - 1] = 49
      <4>1. size - 1 \in 1 .. size /\ p[size - 1] = 49
        BY <1>3, <1>7, <1>8
      <4> QED
        BY <1>9, <4>1
    <3> QED
      BY <1>13, <3>11, <3>13, <3>14
  <2>3. Kept(q, all, cmd')
    BY <1>4, <2>1, <2>2, KeptFacts, SMTT(30)
  <2> HIDE DEF good
  <2> QED
    BY <1>11, <2>3 DEF q
<1> QED
  <2> HIDE DEF good
  <2> QED
    BY <1>11, <1>12, <1>13

\* A part of a string of bytes is one.
LEMMA PartOfBytes ==
  ASSUME NEW s \in Seq(Octets), NEW m \in Nat \ {0}, NEW n \in Nat, n <= Len(s)
  PROVE  SubSeq(s, m, n) \in Seq(Octets)
OBVIOUS

\* The three packets of a message are bytes.
LEMMA StartBytes ==
  ASSUME NEW damaged
  PROVE  \A c \in Command : Packet(c, IF c = damaged THEN Bad ELSE Good) \in Seq(0 .. 255)
<1> SUFFICES ASSUME NEW c \in Command
             PROVE  Packet(c, IF c = damaged THEN Bad ELSE Good) \in Seq(0 .. 255)
  OBVIOUS
<1> DEFINE t == IF c = damaged THEN Bad ELSE Good
<1>1. Shape(Packet(c, t), c, t)
  BY StartPacket
<1> HIDE DEF t
<1>2. Packet(c, t) \in Seq(0 .. 255)
  BY <1>1 DEF Shape, Octets
<1> QED
  BY <1>2 DEF t

\* The start-up parser keeps to its types.
LEMMA InfoTyped ==
  /\ InitInfoInit => InitInfoTypeOK
  /\ InitInfoTypeOK /\ [InitInfoNext]_infoVars => InitInfoTypeOK'
<1>1. InitInfoInit => InitInfoTypeOK
  <2>1. <<>> \in Seq(0 .. 255)
    OBVIOUS
  <2>2. 0 \in 0 .. MaxSent
    BY InfoAssumption
  <2>3. InitInfoInit => asked \in BOOLEAN /\ head \in BOOLEAN
    BY Zenon DEF InitInfoInit
  <2>4. InitInfoInit => /\ cmd \in Seq(0 .. 255) /\ wire \in Seq(0 .. 255) /\ sent \in 0 .. MaxSent
                        /\ info \in [Command -> Seq(0 .. 255)]
    BY <2>1, <2>2 DEF InitInfoInit, Empty
  <2> QED
    BY <2>3, <2>4 DEF InitInfoTypeOK
<1>2. ASSUME InitInfoTypeOK, NEW xy \in Noise, SendScan(xy)
      PROVE  InitInfoTypeOK'
  <2> DEFINE mark == <<84, 44>>
  <2>1. mark \in Seq(0 .. 255)
    OBVIOUS
  <2>2. xy \in Seq(0 .. 255) /\ wire \in Seq(0 .. 255) /\ wire' = wire \o mark \o xy
        /\ sent' = sent + 1 /\ sent < MaxSent /\ sent \in 0 .. MaxSent /\ MaxSent \in Nat
    BY <1>2, InfoAssumption DEF InitInfoTypeOK, SendScan
  <2> HIDE DEF mark
  <2>3. wire' \in Seq(0 .. 255) /\ sent' \in 0 .. MaxSent
    BY ONLY <2>1, <2>2
  <2> QED
    BY <1>2, <2>3 DEF InitInfoTypeOK, SendScan
<1>3. ASSUME InitInfoTypeOK, NEW damaged \in 0 .. 3, Start(damaged)
      PROVE  InitInfoTypeOK'
  <2> DEFINE one(c) == Packet(c, IF c = damaged THEN Bad ELSE Good)
  <2>1. one(1) \in Seq(0 .. 255) /\ one(2) \in Seq(0 .. 255) /\ one(3) \in Seq(0 .. 255)
    <3>1. \A m \in Command : one(m) \in Seq(0 .. 255)
      BY StartBytes
    <3> HIDE DEF one
    <3> QED
      BY <3>1 DEF Command
  <2>2. wire \in Seq(0 .. 255) /\ wire' = wire \o one(1) \o one(2) \o one(3)
        /\ sent' = sent + 1 /\ sent < MaxSent /\ sent \in 0 .. MaxSent /\ MaxSent \in Nat
    BY <1>3, InfoAssumption DEF InitInfoTypeOK, Start
  <2> HIDE DEF one
  <2>3. wire' \in Seq(0 .. 255) /\ sent' \in 0 .. MaxSent
    BY ONLY <2>1, <2>2
  <2> QED
    BY <1>3, <2>3 DEF InitInfoTypeOK, Start
<1>4. ASSUME InitInfoTypeOK, GetFirmwareVersion \/ GetDeviceSN
      PROVE  InitInfoTypeOK'
  BY <1>4, ZenonT(40) DEF InitInfoTypeOK, GetFirmwareVersion, GetDeviceSN
<1>5. ASSUME InitInfoTypeOK, NEW n \in 1 .. Len(wire), Receive(n)
      PROVE  InitInfoTypeOK'
  <2>1. wire \in Seq(Octets) /\ n \in Nat /\ n <= Len(wire) /\ cmd \in Seq(Octets)
        /\ asked \in BOOLEAN /\ head \in BOOLEAN /\ info \in [Command -> Seq(Octets)]
    BY <1>5 DEF InitInfoTypeOK, Octets
  <2>2. wire' \in Seq(Octets) /\ sent' \in 0 .. MaxSent
    BY <1>5, <2>1 DEF Receive, InitInfoTypeOK
  <2>3. CASE UNCHANGED <<asked, head, cmd, info>>
    BY <1>5, <2>1, <2>2, <2>3 DEF InitInfoTypeOK, Octets
  <2>4. CASE FindInitInfo(SubSeq(wire, 1, n))
    <3> DEFINE chunk == SubSeq(wire, 1, n)
               all == cmd \o chunk
               buf == Searched(all)
               front == head \/ Found(all) # {}
    <3>1. chunk \in Seq(Octets)
      BY <2>1
    <3> HIDE DEF chunk
    <3>2. all \in Seq(Octets)
      BY <2>1, <3>1
    <3>3. FindInitInfo(chunk)
      BY <2>4 DEF chunk
    <3>4. \/ cmd' = buf /\ head' = front /\ UNCHANGED <<asked, info>>
          \/ cmd' = <<>> /\ head' = FALSE /\ UNCHANGED <<asked, info>>
          \/ Len(buf) > 3 /\ buf[3] \in Command /\ Len(buf) >= buf[4] + 7 /\ Handled(buf)
      BY <3>3 DEF FindInitInfo
    <3> HIDE DEF all
    <3>5. PICK o : Without(o, all, buf)
      BY <2>1, <3>2, SearchedFacts
    <3>6. buf \in Seq(Octets) /\ front \in BOOLEAN
      BY <2>1, <3>5 DEF Without
    <3> HIDE DEF buf, front
    <3>7. CASE cmd' = buf /\ head' = front /\ UNCHANGED <<asked, info>>
      BY <2>1, <2>2, <3>6, <3>7 DEF InitInfoTypeOK, Octets
    <3>8. CASE cmd' = <<>> /\ head' = FALSE /\ UNCHANGED <<asked, info>>
      <4>1. <<>> \in Seq(0 .. 255) /\ FALSE \in BOOLEAN
        OBVIOUS
      <4> QED
        BY <2>1, <2>2, <3>8, <4>1 DEF InitInfoTypeOK, Octets
    <3>9. CASE Len(buf) > 3 /\ buf[3] \in Command /\ Len(buf) >= buf[4] + 7 /\ Handled(buf)
      <4> DEFINE l == buf[4]
      <4>1. /\ l \in Nat /\ Len(buf) \in Nat /\ l + 7 <= Len(buf)
            /\ \A i \in 1 .. Len(buf) : buf[i] \in Nat
        <5>1. \A i \in 1 .. Len(buf) : buf[i] \in Nat
          <6>1. \A i \in 1 .. Len(buf) : buf[i] \in Octets
            BY <3>6
          <6>2. \A x \in Octets : x \in Nat
            BY DEF Octets
          <6> QED
            BY <6>1, <6>2
        <5> QED
          BY <3>6, <3>9, <5>1
      <4>2. Parsed(buf) \in Seq(Octets)
        <5>1. CASE buf[3] = 1
          <6>1. SubSeq(buf, 5, 4 + buf[4]) \in Seq(Octets)
            <7> HIDE DEF l
            <7>1. 4 + l \in Nat /\ 4 + l <= Len(buf)
              BY ONLY <4>1
            <7>2. SubSeq(buf, 5, 4 + l) \in Seq(Octets)
              BY <3>6, <7>1, PartOfBytes
            <7> QED
              BY <7>2 DEF l
          <6> QED
            BY <5>1, <6>1 DEF Parsed
        <5>2. CASE buf[3] # 1
          <6> DEFINE at == 6 + buf[5]
          <6>1. buf[5] \in Nat
            <7> HIDE DEF l
            <7>1. 5 \in 1 .. Len(buf)
              BY ONLY <4>1
            <7> QED
              BY <4>1, <7>1
          <6>2. at \in Nat /\ at >= 6
            BY <6>1
          <6> HIDE DEF at
          <6>3. Garbage \in Seq(Octets)
            BY DEF Garbage, Octets
          <6>4. ASSUME at <= Len(buf), at + buf[at] <= Len(buf)
                PROVE  SubSeq(buf, at + 1, at + buf[at]) \in Seq(Octets)
            <7>1. buf[at] \in Nat
              BY <4>1, <6>2, <6>4
            <7> QED
              BY <3>6, <6>2, <6>4, <7>1, PartOfBytes
          <6>5. StringAt(buf, at) \in Seq(Octets)
            BY <6>3, <6>4 DEF StringAt
          <6> QED
            BY <5>2, <6>5 DEF Parsed, at
        <5> QED
          BY <5>1, <5>2
      <4>3. SubSeq(buf, (buf[4] + 7) + 1, Len(buf)) \in Seq(Octets)
        <5> HIDE DEF l
        <5>1. (l + 7) + 1 \in Nat \ {0}
          BY ONLY <4>1
        <5>2. SubSeq(buf, (l + 7) + 1, Len(buf)) \in Seq(Octets)
          BY <3>6, <4>1, <5>1, PartOfBytes
        <5> QED
          BY <5>2 DEF l
      <4>4. cmd' \in Seq(Octets)
        <5>1. <<>> \in Seq(Octets)
          OBVIOUS
        <5> QED
          BY <3>9, <4>3, <5>1 DEF Handled
      <4>5. info' \in [Command -> Seq(Octets)]
        BY <2>1, <3>9, <4>2 DEF Handled
      <4>6. asked' \in BOOLEAN /\ head' \in BOOLEAN
        <5>1. Handled(buf) => asked' \in BOOLEAN
          BY Zenon DEF Handled
        <5>2. Handled(buf) => head' \in BOOLEAN
          BY Zenon DEF Handled
        <5> QED
          BY <3>9, <5>1, <5>2
      <4> QED
        BY <2>2, <4>4, <4>5, <4>6 DEF InitInfoTypeOK, Octets
    <3> QED
      BY <3>4, <3>7, <3>8, <3>9
  <2> QED
    BY <1>5, <2>3, <2>4 DEF Receive
<1>6. ASSUME InitInfoTypeOK, UNCHANGED infoVars
      PROVE  InitInfoTypeOK'
  BY <1>6 DEF InitInfoTypeOK, infoVars
<1> QED
  BY <1>1, <1>2, <1>3, <1>4, <1>5, <1>6 DEF InitInfoNext

\* Every step of the receive thread, of the getters and of the lidar: the bytes
\* that are taken for packets are packets, and the packets are learnt or kept.
LEMMA LearnsStep ==
  InitInfoTypeOK /\ [InitInfoNext]_infoVars => [Learns]_infoVars
<1>1. ASSUME InitInfoTypeOK, UNCHANGED <<cmd, info>>, Chunk = <<>>
      PROVE  Learns
  <2>1. cmd \in Seq(0 .. 255)
    BY <1>1 DEF InitInfoTypeOK
  <2>2. cmd \o <<>> = cmd
    BY <2>1
  <2> QED
    BY <1>1, <2>2 DEF Learns
<1>2. ASSUME InitInfoTypeOK, Len(wire') \in Nat, Len(wire') >= Len(wire)
      PROVE  Chunk = <<>>
  <2>1. wire \in Seq(0 .. 255) /\ Len(wire) \in Nat
    BY <1>2 DEF InitInfoTypeOK
  <2> DEFINE m == Len(wire) - Len(wire')
  <2>2. m \in Int /\ m < 1
    BY <1>2, <2>1
  <2> HIDE DEF m
  <2>3. SubSeq(wire, 1, m) = <<>>
    BY <2>1, <2>2
  <2> QED
    BY <2>3 DEF Chunk, m
<1>3. ASSUME InitInfoTypeOK, NEW xy \in Noise, SendScan(xy)
      PROVE  Learns
  <2> DEFINE mark == <<84, 44>>
  <2>1. mark \in Seq(0 .. 255) /\ xy \in Seq(0 .. 255)
    BY InfoAssumption
  <2>2. wire \in Seq(0 .. 255) /\ wire' = wire \o mark \o xy
    BY <1>3 DEF SendScan, InitInfoTypeOK
  <2> HIDE DEF mark
  <2>3. Len(wire') \in Nat /\ Len(wire') >= Len(wire)
    BY ONLY <2>1, <2>2
  <2> QED
    BY <1>1, <1>2, <1>3, <2>3 DEF SendScan
<1>4. ASSUME InitInfoTypeOK, NEW damaged \in 0 .. 3, Start(damaged)
      PROVE  Learns
  <2> DEFINE one(c) == Packet(c, IF c = damaged THEN Bad ELSE Good)
  <2>1. one(1) \in Seq(0 .. 255) /\ one(2) \in Seq(0 .. 255) /\ one(3) \in Seq(0 .. 255)
    <3>1. \A m \in Command : one(m) \in Seq(0 .. 255)
      BY StartBytes
    <3> HIDE DEF one
    <3> QED
      BY <3>1 DEF Command
  <2>2. wire \in Seq(0 .. 255) /\ wire' = wire \o one(1) \o one(2) \o one(3)
    BY <1>4 DEF Start, InitInfoTypeOK
  <2> HIDE DEF one
  <2>3. Len(wire') \in Nat /\ Len(wire') >= Len(wire)
    BY ONLY <2>1, <2>2
  <2> QED
    BY <1>1, <1>2, <1>4, <2>3 DEF Start
<1>5. ASSUME InitInfoTypeOK, GetFirmwareVersion \/ GetDeviceSN
      PROVE  Learns
  <2>1. UNCHANGED <<cmd, info, wire>>
    BY <1>5 DEF GetFirmwareVersion, GetDeviceSN
  <2>2. Len(wire') \in Nat /\ Len(wire') >= Len(wire)
    BY <1>5, <2>1 DEF InitInfoTypeOK
  <2> QED
    BY <1>1, <1>2, <1>5, <2>1, <2>2
<1>6. ASSUME InitInfoTypeOK, NEW n \in 1 .. Len(wire), Receive(n)
      PROVE  Learns
  <2> SUFFICES ASSUME asked, ~Blind, ~Misled(Searched(cmd \o Chunk))
               PROVE  \/ \A c \in Command :
                           /\ info'[c] # info[c] => info'[c] = Text(c)
                           /\ \/ ~asked' \/ (head' /\ cmd' = <<>>)
                              \/ info'[c] = Text(c)
                              \/ Kept(Packet(c, Good), cmd \o Chunk, cmd')
    BY DEF Learns
  <2> DEFINE all == cmd \o Chunk
             buf == Searched(all)
             front == head \/ Found(all) # {}
  <2>1. wire \in Seq(Octets) /\ n \in Nat /\ n <= Len(wire) /\ cmd \in Seq(Octets)
        /\ head \in BOOLEAN
    BY <1>6 DEF InitInfoTypeOK, Octets
  <2>2. Chunk = SubSeq(wire, 1, n) /\ Chunk \in Seq(Octets)
    <3>1. wire' = SubSeq(wire, n + 1, Len(wire))
      BY <1>6 DEF Receive
    <3>2. Len(wire') = Len(wire) - n /\ Len(wire) \in Nat
      BY <2>1, <3>1
    <3>3. Len(wire) - Len(wire') = n
      BY <2>1, <3>2
    <3>4. Chunk = SubSeq(wire, 1, n)
      BY <3>3 DEF Chunk
    <3> QED
      BY <2>1, <3>4, PartOfBytes
  <2>3. FindInitInfo(Chunk)
    BY <1>6, <2>2 DEF Receive
  <2>4. \/ cmd' = buf /\ UNCHANGED <<asked, info>>
        \/ front /\ Len(buf) > 3 /\ buf[3] \notin Command
        \/ front /\ Len(buf) > 3 /\ Len(buf) >= buf[4] + 7 /\ Handled(buf)
    BY <2>3 DEF FindInitInfo
  <2>5. all \in Seq(Octets)
    BY <2>1, <2>2, ConcatProperties
  <2>6. head => all[1] = 170 /\ all[2] = 85
    <3> SUFFICES ASSUME head PROVE all[1] = 170 /\ all[2] = 85
      OBVIOUS
    <3>1. IsPrefix(HeaderBytes, all)
      BY DEF Blind
    <3> HIDE DEF all
    <3>2. HeaderBytes \in Seq(Octets) /\ Len(HeaderBytes) = 2
          /\ HeaderBytes[1] = 170 /\ HeaderBytes[2] = 85
      BY DEF HeaderBytes, Octets
    <3>3. \A i \in 1 .. 2 : HeaderBytes[i] = all[i]
      <4>1. \A i \in 1 .. Len(HeaderBytes) : HeaderBytes[i] = all[i]
        <5>1. all \in Seq(Octets) /\ HeaderBytes \in Seq(Octets)
          BY <2>5, <3>2
        <5>2. IsPrefix(HeaderBytes, all) <=>
                Len(HeaderBytes) <= Len(all) /\ \A i \in 1 .. Len(HeaderBytes) : HeaderBytes[i] = all[i]
          BY <5>1, PrefixFacts
        <5> QED
          BY <3>1, <5>2
      <4> QED
        BY <3>2, <4>1
    <3> QED
      BY <3>2, <3>3
  <2>7. ~Misled(buf)
    OBVIOUS
  <2> HIDE DEF all
  <2>8. PICK o : /\ Without(o, all, buf)
                 /\ head => o = 0
                 /\ ~head /\ Found(all) # {} => o + 1 \in Found(all)
                 /\ \A p \in Seq(Octets), i \in 1 .. Len(all) :
                      Len(p) > 1 /\ p[1] = 170 /\ p[2] = 85 /\ StandsAt(p, all, i) => i > o
    BY <2>1, <2>5, SearchedFacts
  <2> HIDE DEF buf
  <2>9. ASSUME front, Len(buf) > 3
        PROVE  buf[1] = 170 /\ buf[2] = 85
    <3>1. /\ o \in 0 .. Len(all) /\ Len(buf) \in Nat
          /\ \A i \in 1 .. Len(buf) : buf[i] = all[o + i]
      BY <2>8 DEF Without
    <3>2. buf[1] = all[o + 1] /\ buf[2] = all[o + 2]
      BY <2>9, <3>1
    <3>3. CASE head
      BY <2>6, <2>8, <3>2, <3>3
    <3>4. CASE ~head
      <4>1. o + 1 \in Found(all) /\ (o + 1) + 1 = o + 2
        BY <2>8, <2>9, <3>1, <3>4
      <4> QED
        BY <3>2, <4>1 DEF Found
    <3> QED
      BY <3>3, <3>4
  <2>10. ASSUME NEW c \in Command PROVE Kept(Packet(c, Good), all, buf)
    <3> DEFINE p == Packet(c, Good)
    <3>1. Shape(p, c, Good)
      BY StartPacket
    <3> HIDE DEF p
    <3>2. p \in Seq(Octets) /\ Len(p) > 1 /\ Len(p) > 0 /\ p[1] = 170 /\ p[2] = 85
      BY <3>1 DEF Shape
    <3>3. \A i \in 1 .. Len(all) : StandsAt(p, all, i) => i > o
      BY <2>8, <3>2
    <3>4. Kept(p, all, buf)
      BY <2>5, <2>8, <3>2, <3>3, KeptFacts
    <3> QED
      BY <3>4 DEF p
  <2>11. CASE cmd' = buf /\ UNCHANGED <<asked, info>>
    BY <2>10, <2>11 DEF all
  <2>12. CASE front /\ Len(buf) > 3 /\ buf[3] \notin Command
    <3>1. buf \in Seq(Octets)
      BY <2>8 DEF Without
    <3> QED
      BY <2>7, <2>9, <2>12, <3>1, FrontPacket
  <2>13. CASE front /\ Len(buf) > 3 /\ Len(buf) >= buf[4] + 7 /\ Handled(buf)
    <3>1. ASSUME NEW c \in Command
          PROVE  /\ info'[c] # info[c] => info'[c] = Text(c)
                 /\ \/ head' /\ cmd' = <<>>
                    \/ info'[c] = Text(c)
                    \/ Kept(Packet(c, Good), all, cmd')
      BY <1>6, <2>5, <2>7, <2>8, <2>9, <2>13, HandledFacts
    <3> QED
      BY <3>1 DEF all
  <2> QED
    BY <2>4, <2>11, <2>12, <2>13
<1> QED
  BY <1>3, <1>4, <1>5, <1>6 DEF InitInfoNext

\* What uart_data_find_init_info learns is what the lidar sent, and of the
\* packets no byte is lost, for any scan data between them, any number of
\* messages and any cut of the bytes: unless the search begins blind or is
\* misled.
THEOREM Learnt == Spec => LearntUnlessBlind
BY InfoTyped, LearnsStep, PartsOfInit, PartsOfNext, PTL DEF Spec, LearntUnlessBlind

-----------------------------------------------------------------------------
\* The lidar's node.

\* The quotient that gives the cell is the one cell that holds the offset.
LEMMA Quotient ==
  ASSUME NEW d \in Nat, NEW s \in Nat \ {0}
  PROVE  d \div s \in Nat /\ (d \div s) * s <= d /\ d < (d \div s + 1) * s
OBVIOUS

\* A larger number of cells is not nearer.
LEMMA ProductOrder ==
  ASSUME NEW a \in Int, NEW b \in Int, NEW s \in Nat, a <= b
  PROVE  a * s <= b * s /\ a * s \in Int /\ b * s \in Int
OBVIOUS

\* The larger of two offsets does not have the smaller cell.
LEMMA CellOrder ==
  ASSUME NEW d \in Int, NEW e \in Int, NEW s \in Nat \ {0}, NEW j \in Int, NEW k \in Int,
         j * s <= d, d < (j + 1) * s, k * s <= e, e < (k + 1) * s, d <= e
  PROVE  j <= k
<1> SUFFICES ASSUME k + 1 <= j PROVE FALSE
  OBVIOUS
<1>1. (k + 1) * s <= j * s
  BY ProductOrder
<1>2. (k + 1) * s \in Int /\ j * s \in Int
  OBVIOUS
<1> QED
  BY <1>1, <1>2

\* A circle that is published cell by cell, and one whose angles never fall.
Spread(c) == c \in Circles /\ c # <<>> /\ Span(c) # 0
Rising(c) == \A i \in 1 .. Len(c) - 1 : c[i].angle <= c[i + 1].angle

\* A circle is a sequence of points.
LEMMA CircleFacts ==
  ASSUME NEW c \in Circles
  PROVE  /\ c \in Seq(Point) /\ Len(c) \in Nat /\ Len(c) <= MaxPoints
         /\ \A i \in 1 .. Len(c) : c[i] \in Point /\ c[i].angle \in Int
<1>1. PICK n \in 0 .. MaxPoints : c \in [1 .. n -> Point]
  BY DEF Circles
<1>2. n \in Nat /\ n <= MaxPoints
  BY ScanAssumption
<1>3. c \in Seq(Point) /\ Len(c) = n
  BY <1>1, <1>2
<1>4. \A p \in Point : p.angle \in Int
  BY ScanAssumption DEF Point
<1>5. \A i \in 1 .. Len(c) : c[i] \in Point /\ c[i].angle \in Int
  BY <1>3, <1>4
<1> QED
  BY <1>2, <1>3, <1>5

\* Points of a circle whose angles never fall stand in the order of their angles.
LEMMA AngleOrder ==
  ASSUME NEW c \in Circles, Rising(c), NEW i \in 1 .. Len(c), NEW j \in 1 .. Len(c), i <= j
  PROVE  c[i].angle <= c[j].angle
<1>1. /\ Len(c) \in Nat /\ \A m \in 1 .. Len(c) : c[m].angle \in Int
      /\ \A m \in 1 .. Len(c) - 1 : c[m].angle <= c[m + 1].angle
  BY CircleFacts DEF Rising
<1> DEFINE N == Len(c) - i
           R == {n \in 0 .. N : c[i].angle <= c[i + n].angle}
<1>2. N \in Nat
  BY <1>1
<1>3. 0 \in R
  BY <1>1, <1>2
<1>4. ASSUME NEW n \in 1 .. N, n - 1 \in R
      PROVE  n \in R
  <2> DEFINE m == i + (n - 1)
  <2>1. m \in 1 .. Len(c) - 1 /\ m \in 1 .. Len(c) /\ m + 1 = i + n /\ m + 1 \in 1 .. Len(c)
    BY <1>1
  <2> HIDE DEF m
  <2>2. c[m].angle <= c[m + 1].angle /\ c[m].angle \in Int /\ c[m + 1].angle \in Int
        /\ c[i].angle \in Int
    BY <1>1, <2>1
  <2>3. c[i].angle <= c[m].angle
    BY <1>4 DEF m
  <2>4. c[i].angle <= c[i + n].angle
    BY <2>1, <2>2, <2>3, SMTT(30)
  <2> QED
    BY <2>4
<1> HIDE DEF R
<1>5. j - i \in R
  <2>1. j - i \in 0 .. N
    BY <1>1
  <2> HIDE DEF N
  <2> QED
    BY <1>2, <1>3, <1>4, <2>1, Induction
<1>6. c[i].angle <= c[i + (j - i)].angle /\ i + (j - i) = j
  BY <1>1, <1>5 DEF R
<1> QED
  BY <1>6

\* A range is a distance or 0.
LEMMA RangeFacts ==
  ASSUME NEW p \in Point
  PROVE  RangeOf(p) \in Distances \cup {0} /\ RangeOf(p) \in Nat
BY ScanAssumption DEF RangeOf, Point

\* Offsets and width are whole numbers.
LEMMA OffsetFacts ==
  ASSUME NEW c, Spread(c), clockwise \in BOOLEAN
  PROVE  /\ Len(c) \in Nat \ {0} /\ Width(c) \in Nat \ {0}
         /\ \A i \in 1 .. Len(c) : Offset(c, c[i]) \in Int
<1>1. c \in Circles /\ c # <<>> /\ Span(c) # 0
  BY DEF Spread
<1>2. /\ Len(c) \in Nat \ {0} /\ c \in Seq(Point) /\ \A i \in 1 .. Len(c) : c[i].angle \in Int
  BY <1>1, CircleFacts
<1>3. 1 \in 1 .. Len(c) /\ Len(c) \in 1 .. Len(c) /\ Turn \in Nat
  BY <1>2, ScanAssumption
<1>4. Span(c) \in Int
  BY <1>2, <1>3 DEF Span
<1>5. Width(c) \in Nat \ {0}
  BY <1>1, <1>4 DEF Width
<1>6. ASSUME NEW i \in 1 .. Len(c)
      PROVE  Offset(c, c[i]) \in Int
  <2>1. Direction(c[i]) - c[1].angle \in Int
    BY <1>2, <1>3 DEF Direction
  <2> DEFINE d == (Direction(c[i]) - c[1].angle) * Len(c)
  <2>2. d \in Int
    BY <1>2, <2>1
  <2>3. Offset(c, c[i]) = IF Span(c) < 0 THEN -d ELSE d
    BY DEF Offset
  <2> HIDE DEF d
  <2> QED
    BY <2>2, <2>3
<1> QED
  BY <1>2, <1>5, <1>6

\* If the angles never fall, the offsets stand in the order of the points if the
\* directions are clockwise, and the other way round if not.
LEMMA OffsetOrder ==
  ASSUME NEW c, Spread(c), Rising(c), clockwise \in BOOLEAN,
         NEW i \in 1 .. Len(c), NEW j \in 1 .. Len(c), i <= j
  PROVE  IF clockwise THEN Offset(c, c[i]) <= Offset(c, c[j])
                      ELSE Offset(c, c[j]) <= Offset(c, c[i])
<1>1. c \in Circles /\ c # <<>>
  BY DEF Spread
<1>2. /\ Len(c) \in Nat \ {0} /\ \A m \in 1 .. Len(c) : c[m].angle \in Int
  BY <1>1, CircleFacts
<1>3. 1 \in 1 .. Len(c) /\ Len(c) \in 1 .. Len(c) /\ Turn \in Nat
  BY <1>2, ScanAssumption
<1>4. ~(Span(c) < 0)
  <2>1. c[1].angle <= c[Len(c)].angle
    BY <1>1, <1>2, <1>3, AngleOrder
  <2>2. c[1].angle \in Int /\ c[Len(c)].angle \in Int
    BY <1>2, <1>3
  <2> QED
    BY <2>1, <2>2 DEF Span
<1> DEFINE dir(m) == Direction(c[m]) - c[1].angle
<1>5. ASSUME NEW m \in 1 .. Len(c)
      PROVE  dir(m) \in Int /\ dir(m) = (IF clockwise THEN c[m].angle ELSE Turn - c[m].angle) - c[1].angle
             /\ Offset(c, c[m]) = dir(m) * Len(c)
  BY <1>2, <1>3, <1>4 DEF Direction, Offset
<1>6. IF clockwise THEN dir(i) <= dir(j) ELSE dir(j) <= dir(i)
  <2>1. c[i].angle <= c[j].angle
    BY <1>1, AngleOrder
  <2>2. /\ dir(i) = (IF clockwise THEN c[i].angle ELSE Turn - c[i].angle) - c[1].angle
        /\ dir(j) = (IF clockwise THEN c[j].angle ELSE Turn - c[j].angle) - c[1].angle
    BY <1>5, Zenon
  <2>3. c[i].angle \in Int /\ c[j].angle \in Int /\ c[1].angle \in Int
    BY <1>2, <1>3
  <2> HIDE DEF dir
  <2> QED
    BY <1>3, <2>1, <2>2, <2>3, SMTT(30)
<1> HIDE DEF dir
<1>7. CASE clockwise
  <2>1. dir(i) * Len(c) <= dir(j) * Len(c)
    BY <1>2, <1>5, <1>6, <1>7, ProductOrder
  <2> QED
    BY <1>5, <1>7, <2>1
<1>8. CASE ~clockwise
  <2>1. dir(j) * Len(c) <= dir(i) * Len(c)
    BY <1>2, <1>5, <1>6, <1>8, ProductOrder
  <2> QED
    BY <1>5, <1>8, <2>1
<1> QED
  BY <1>7, <1>8

\* The cell of a point: that of its offset, or none, or cell 0 for a point
\* before angle_min.
LEMMA IndexFacts ==
  ASSUME NEW c, Spread(c), clockwise \in BOOLEAN, saturates \in BOOLEAN, NEW i \in 1 .. Len(c)
  PROVE  LET d == Offset(c, c[i])
             x == Index(c, c[i])
         IN /\ x \in Int
            /\ d >= 0 => x * Width(c) <= d /\ d < (x + 1) * Width(c) /\ x >= 0
            /\ d < 0 => x \in {0, Outside} /\ (x = 0 => saturates \/ -d < Width(c))
<1> DEFINE d == Offset(c, c[i])
           s == Width(c)
<1>1. d \in Int /\ s \in Nat \ {0}
  BY OffsetFacts
<1>2. Index(c, c[i]) = IF d >= 0 THEN d \div s ELSE IF -d < s THEN 0 ELSE Negative
  BY DEF Index
<1>3. Negative \in {0, Outside} /\ (Negative = 0 => saturates) /\ Outside = -1
  BY DEF Negative, Outside
<1> HIDE DEF d, s
<1>4. CASE d >= 0
  <2>1. d \in Nat
    BY <1>1, <1>4
  <2>2. d \div s \in Nat /\ (d \div s) * s <= d /\ d < (d \div s + 1) * s
    BY <1>1, <2>1, Quotient
  <2>3. Index(c, c[i]) = d \div s
    BY <1>1, <1>2, <2>1
  <2> DEFINE x == d \div s
  <2>4. x \in Nat /\ x * s <= d /\ d < (x + 1) * s /\ Index(c, c[i]) = x
    BY <2>2, <2>3
  <2> HIDE DEF x
  <2> QED
    BY <2>1, <2>4 DEF d, s
<1>5. CASE d < 0
  <2>1. Index(c, c[i]) = IF -d < s THEN 0 ELSE Negative
    BY <1>1, <1>2, <1>5
  <2> QED
    BY <1>1, <1>3, <1>5, <2>1 DEF d, s
<1> QED
  BY <1>1, <1>4, <1>5

\* The ranges and last_index while a circle is sorted in.
Sorting(c) ==
  [ranges : [0 .. Len(c) - 1 -> Distances \cup {NaN, 0}], last : 0 .. Len(c) - 1]

\* Point by point: a point beyond the cells changes nothing; any other sets its
\* cell, and the one before it if that gap is filled.
LEMMA AddPointFacts ==
  ASSUME NEW c, Spread(c), clockwise \in BOOLEAN, saturates \in BOOLEAN,
         NEW acc \in Sorting(c), NEW i \in 1 .. Len(c)
  PROVE  LET x   == Index(c, c[i])
             r   == RangeOf(c[i])
             new == AddPoint(c, acc, c[i])
         IN /\ new \in Sorting(c)
            /\ x \notin 0 .. Len(c) - 1 => new = acc
            /\ x \in 0 .. Len(c) - 1 =>
                 /\ new.last = x
                 /\ \A k \in 0 .. Len(c) - 1 :
                      new.ranges[k] =
                        IF k = x THEN IF acc.ranges[x] # NaN /\ acc.ranges[x] <= r
                                      THEN acc.ranges[x] ELSE r
                        ELSE IF acc.ranges[x] = NaN /\ x - acc.last = 2 /\ k = x - 1 THEN r
                        ELSE acc.ranges[k]
<1> DEFINE x == Index(c, c[i])
           r == RangeOf(c[i])
           N == Len(c)
           new == AddPoint(c, acc, c[i])
           V == Distances \cup {NaN, 0}
<1>1. N \in Nat \ {0} /\ x \in Int
  BY OffsetFacts, IndexFacts
<1>2. r \in V /\ r \in Nat
  <2>1. c[i] \in Point
    BY CircleFacts DEF Spread
  <2> QED
    BY <2>1, RangeFacts
<1>3. V \subseteq Int /\ \A v \in V : v # NaN => v \in Nat
  BY ScanAssumption DEF NaN
<1>4. acc.ranges \in [0 .. N - 1 -> V] /\ acc.last \in 0 .. N - 1
  BY DEF Sorting
<1>5. new = IF x \in 0 .. N - 1
            THEN [ranges |-> Set(acc.ranges, acc.last, x, r), last |-> x] ELSE acc
  BY DEF AddPoint
<1>6. Sorting(c) = [ranges : [0 .. N - 1 -> V], last : 0 .. N - 1]
  BY DEF Sorting
<1> HIDE DEF x, r, N, new, V
<1>7. CASE x \notin 0 .. N - 1
  <2>1. new = acc
    BY <1>5, <1>7
  <2> QED
    BY <1>7, <2>1 DEF x, N, new
<1>8. CASE x \in 0 .. N - 1
  <2> DEFINE f == acc.ranges
             g == Set(f, acc.last, x, r)
  <2>1. f \in [0 .. N - 1 -> V]
    BY <1>4
  <2>2. f[x] \in V /\ f[x] \in Int
    BY <1>3, <1>8, <2>1
  <2>3. /\ g \in [0 .. N - 1 -> V]
        /\ \A k \in 0 .. N - 1 :
             g[k] = IF k = x THEN IF f[x] # NaN /\ f[x] <= r THEN f[x] ELSE r
                    ELSE IF f[x] = NaN /\ x - acc.last = 2 /\ k = x - 1 THEN r
                    ELSE f[k]
    <3> HIDE DEF f
    <3>1. CASE f[x] # NaN
      <4>1. g = [f EXCEPT ![x] = IF r < f[x] THEN r ELSE f[x]]
        BY <3>1 DEF Set
      <4>2. (IF r < f[x] THEN r ELSE f[x]) = (IF f[x] <= r THEN f[x] ELSE r)
        BY <1>2, <2>2
      <4> HIDE DEF g
      <4> QED
        BY <1>2, <1>8, <2>1, <2>2, <3>1, <4>1, <4>2
    <3>2. CASE f[x] = NaN /\ x - acc.last = 2
      <4>1. g = [f EXCEPT ![x] = r, ![x - 1] = r]
        BY <3>2 DEF Set
      <4>2. x - 1 \in 0 .. N - 1 /\ x - 1 # x
        BY <1>1, <1>4, <1>8, <3>2
      <4> HIDE DEF g
      <4> QED
        BY <1>2, <1>8, <2>1, <3>2, <4>1, <4>2
    <3>3. CASE f[x] = NaN /\ x - acc.last # 2
      <4>1. g = [f EXCEPT ![x] = r]
        BY <3>3 DEF Set
      <4> HIDE DEF g
      <4> QED
        BY <1>2, <1>8, <2>1, <3>3, <4>1
    <3> QED
      BY <3>1, <3>2, <3>3
  <2> HIDE DEF g
  <2>4. new = [ranges |-> g, last |-> x]
    BY <1>5, <1>8 DEF g
  <2>5. new \in [ranges : [0 .. N - 1 -> V], last : 0 .. N - 1] /\ new.last = x /\ new.ranges = g
    BY <1>8, <2>3, <2>4
  <2> QED
    BY <1>6, <1>8, <2>3, <2>5 DEF x, r, N, new
<1> QED
  BY <1>7, <1>8

\* The passes over the points of a circle are what their definition says.
LEMMA PassesFacts ==
  ASSUME NEW c, Spread(c), clockwise \in BOOLEAN, saturates \in BOOLEAN
  PROVE  /\ Passes(c)[0] = [ranges |-> NoRanges(c), last |-> 0]
         /\ \A n \in 0 .. Len(c) : Passes(c)[n] \in Sorting(c)
         /\ \A n \in 1 .. Len(c) : Passes(c)[n] = AddPoint(c, Passes(c)[n - 1], c[n])
<1> DEFINE N == Len(c)
           S == Sorting(c)
           base == [ranges |-> NoRanges(c), last |-> 0]
           F == [y \in (1 .. N) \X S |-> AddPoint(c, y[2], c[y[1]])]
           pass(f) == f = [n \in 0 .. N |-> IF n = 0 THEN base ELSE AddPoint(c, f[n - 1], c[n])]
<1>1. N \in Nat \ {0}
  BY OffsetFacts
<1>2. base \in S
  <2>1. NoRanges(c) \in [0 .. N - 1 -> Distances \cup {NaN, 0}]
    BY DEF NoRanges
  <2>2. 0 \in 0 .. N - 1
    BY <1>1
  <2> QED
    BY <2>1, <2>2 DEF Sorting
<1>3. \A n \in 1 .. N, v \in S : AddPoint(c, v, c[n]) \in S
  BY AddPointFacts
<1>4. F \in [(1 .. N) \X S -> S] /\ \A n \in 1 .. N, v \in S : F[<<n, v>>] = AddPoint(c, v, c[n])
  <2> HIDE DEF S, N
  <2> QED
    BY <1>3
<1>5. Passes(c) = CHOOSE f : pass(f)
  BY DEF Passes
<1> HIDE DEF F, N, S, base
<1>6. PICK f \in [0 .. N -> S] : f[0] = base /\ \A n \in 1 .. N : f[n] = F[<<n, f[n - 1]>>]
  <2>1. \E f : Follows(f, N, S, base, F)
    BY <1>1, <1>2, <1>4, Recursion
  <2> QED
    BY <2>1 DEF Follows
<1>7. \A n \in 1 .. N : f[n] = AddPoint(c, f[n - 1], c[n])
  <2>1. \A n \in 1 .. N : n - 1 \in 0 .. N
    BY <1>1
  <2> QED
    BY <1>4, <1>6, <2>1
<1>8. pass(f)
  BY <1>1, <1>6, <1>7
<1>9. pass(Passes(c))
  <2> HIDE DEF pass
  <2> QED
    BY <1>5, <1>8, Zenon
<1> DEFINE P == Passes(c)
<1>10. P = [n \in 0 .. N |-> IF n = 0 THEN base ELSE AddPoint(c, P[n - 1], c[n])]
  BY <1>9
<1> HIDE DEF P
<1>11. P[0] = base /\ \A n \in 1 .. N : P[n] = AddPoint(c, P[n - 1], c[n])
  <2>1. 0 \in 0 .. N /\ \A n \in 1 .. N : n \in 0 .. N /\ n # 0
    BY <1>1
  <2> QED
    BY <1>10, <2>1
<1>12. \A n \in 0 .. N : P[n] \in S
  <2> DEFINE R == {n \in 0 .. N : P[n] \in S}
  <2>1. 0 \in R
    BY <1>1, <1>2, <1>11
  <2>2. ASSUME NEW n \in 1 .. N, n - 1 \in R
        PROVE  n \in R
    BY <1>1, <1>3, <1>11, <2>2
  <2> HIDE DEF R
  <2>3. \A n \in 0 .. N : n \in R
    BY <1>1, <2>1, <2>2, Induction
  <2> QED
    BY <2>3 DEF R
<1> QED
  BY <1>11, <1>12 DEF P, N, S, base

\* After n points: a cell is no further than its points, but for those painted
\* over, what it shows was measured there or in the next cell, and last_index is
\* the cell of the last point that has one.
Nearest(c, n) ==
  LET st == Passes(c)[n]
  IN \A k \in 0 .. Len(c) - 1, i \in 1 .. n :
       Index(c, c[i]) = k =>
         st.ranges[k] # NaN /\ (st.ranges[k] <= RangeOf(c[i]) \/ PaintedOver(c, i))
Measured(c, n) ==
  LET st == Passes(c)[n]
  IN \A k \in 0 .. Len(c) - 1 :
       st.ranges[k] # NaN =>
         \E i \in 1 .. n : st.ranges[k] = RangeOf(c[i]) /\ Index(c, c[i]) \in {k, k + 1}
LastSeen(c, n) ==
  LET st == Passes(c)[n]
      seen(i) == Index(c, c[i]) \in 0 .. Len(c) - 1
  IN \/ \A i \in 1 .. n : ~seen(i)
     \/ \E j \in 1 .. n : /\ Index(c, c[j]) = st.last
                          /\ \A i \in j + 1 .. n : ~seen(i)

\* A point that lies in the gap that is filled is painted over.
LEMMA FillPaintsOver ==
  ASSUME NEW c, Spread(c), clockwise \in BOOLEAN, saturates \in BOOLEAN,
         NEW n \in 1 .. Len(c), Nearest(c, n - 1), LastSeen(c, n - 1),
         NEW x, Index(c, c[n]) = x, x \in 0 .. Len(c) - 1,
         Passes(c)[n - 1].ranges[x] = NaN, x - Passes(c)[n - 1].last = 2,
         NEW i \in 1 .. n - 1, Index(c, c[i]) = x - 1
  PROVE  PaintedOver(c, i)
<1> DEFINE N == Len(c)
           last == Passes(c)[n - 1].last
           X(m) == Index(c, c[m])
<1>1. N \in Nat \ {0}
  BY OffsetFacts
<1>2. n - 1 \in 0 .. N /\ last \in 0 .. N - 1
  <2>1. n - 1 \in 0 .. N
    BY <1>1
  <2>2. Passes(c)[n - 1] \in Sorting(c)
    BY <2>1, PassesFacts
  <2> QED
    BY <2>1, <2>2 DEF Sorting
<1>3. X(i) = x - 1 /\ X(n) = x /\ x \in 2 .. N - 1 /\ last = x - 2
  <2>1. X(i) = x - 1 /\ X(n) = x /\ x \in 0 .. N - 1 /\ x - last = 2
    OBVIOUS
  <2> HIDE DEF N, last, X
  <2> QED
    BY ONLY <1>1, <1>2, <2>1
<1>4. \A m \in 1 .. n - 1 : X(m) # x
  BY DEF Nearest
<1>5. LastSeen(c, n - 1) =>
        \/ \A m \in 1 .. n - 1 : X(m) \notin 0 .. N - 1
        \/ \E j \in 1 .. n - 1 : X(j) = last /\ \A m \in j + 1 .. n - 1 : X(m) \notin 0 .. N - 1
  BY DEF LastSeen
<1>6. PaintedOver(c, i) <=>
        \E h, j \in i + 1 .. N :
          /\ 0 <= X(h) /\ X(h) = X(i) - 1
          /\ h < j /\ X(j) = X(i) + 1 /\ X(j) < N
          /\ \A m \in h + 1 .. j - 1 : X(m) \notin 0 .. N - 1
          /\ \A m \in 1 .. j - 1 : X(m) # X(j)
  BY DEF PaintedOver
<1> HIDE DEF N, last, X
<1>7. X(i) \in 0 .. N - 1
  BY <1>1, <1>3
<1>8. PICK h \in 1 .. n - 1 : X(h) = last /\ \A m \in h + 1 .. n - 1 : X(m) \notin 0 .. N - 1
  BY <1>5, <1>7
<1>9. n \in 1 .. N
  BY DEF N
<1>10. h \in i + 1 .. N /\ n \in i + 1 .. N /\ h < n
  <2>1. i \notin h + 1 .. n - 1 /\ i # h
    BY <1>3, <1>7, <1>8
  <2> QED
    BY <1>1, <1>8, <1>9, <2>1
<1>11. 0 <= X(h) /\ X(h) = X(i) - 1 /\ X(n) = X(i) + 1 /\ X(n) < N
  BY <1>1, <1>3, <1>8
<1>12. \A m \in 1 .. n - 1 : X(m) # X(n)
  BY <1>3, <1>4
<1> QED
  BY <1>6, <1>8, <1>10, <1>11, <1>12

\* Where the angles never fall no point is painted over: the points stand in the
\* order of their cells, one way or the other.
LEMMA RisingNotPainted ==
  ASSUME NEW c, Spread(c), Rising(c), clockwise \in BOOLEAN, saturates \in BOOLEAN,
         NEW i \in 1 .. Len(c)
  PROVE  ~PaintedOver(c, i)
<1> SUFFICES ASSUME PaintedOver(c, i) PROVE FALSE
  OBVIOUS
<1> DEFINE N == Len(c)
           s == Width(c)
           D(m) == Offset(c, c[m])
           X(m) == Index(c, c[m])
<1>1. N \in Nat \ {0} /\ s \in Nat \ {0} /\ \A m \in 1 .. N : D(m) \in Int
  BY OffsetFacts
<1>2. i \in 1 .. N
  OBVIOUS
<1>3. ASSUME NEW m \in 1 .. N
      PROVE  /\ X(m) \in Int
             /\ D(m) >= 0 => X(m) * s <= D(m) /\ D(m) < (X(m) + 1) * s /\ X(m) >= 0
             /\ D(m) < 0 => X(m) \in {0, Outside}
  BY IndexFacts
<1>4. ASSUME NEW l \in 1 .. N, NEW m \in 1 .. N, l <= m
      PROVE  IF clockwise THEN D(l) <= D(m) ELSE D(m) <= D(l)
  BY <1>4, OffsetOrder
<1>5. \E h, j \in i + 1 .. N : h < j /\ 0 <= X(h) /\ X(h) = X(i) - 1 /\ X(j) = X(i) + 1
  BY DEF PaintedOver
<1> HIDE DEF N, s, D, X
<1>6. PICK h \in i + 1 .. N, j \in i + 1 .. N : h < j /\ 0 <= X(h) /\ X(h) = X(i) - 1 /\ X(j) = X(i) + 1
  BY <1>5
<1>7. h \in 1 .. N /\ j \in 1 .. N /\ i <= h /\ h <= j
  BY <1>1, <1>2, <1>6
<1>8. X(i) \in Int /\ X(h) \in Int /\ X(j) \in Int
  BY <1>2, <1>3, <1>7
\* Of two points with cells, the one with the larger offset has the larger cell.
<1>9. ASSUME NEW l \in 1 .. N, NEW m \in 1 .. N, D(l) <= D(m), X(l) >= 1
      PROVE  X(l) <= X(m)
  <2>0. D(l) \in Int /\ D(m) \in Int /\ X(l) \in Int /\ X(m) \in Int
    BY <1>1, <1>3, <1>9
  <2>1. D(l) >= 0
    <3>1. CASE D(l) < 0
      <4>1. X(l) \in {0, -1}
        BY <1>3, <1>9, <3>1 DEF Outside
      <4> QED
        BY <1>9, <4>1
    <3> QED
      BY <2>0, <3>1
  <2>2. D(m) >= 0
    BY <1>9, <2>0, <2>1
  <2>3. /\ X(l) * s <= D(l) /\ D(l) < (X(l) + 1) * s
        /\ X(m) * s <= D(m) /\ D(m) < (X(m) + 1) * s
    BY <1>3, <2>1, <2>2
  <2> QED
    BY <1>1, <1>9, <2>0, <2>3, CellOrder
<1>10. CASE clockwise
  <2>1. D(i) <= D(h)
    BY <1>2, <1>4, <1>7, <1>10
  <2>2. X(i) <= X(h)
    BY <1>2, <1>6, <1>7, <1>8, <1>9, <2>1
  <2> QED
    BY <1>6, <1>8, <2>2
<1>11. CASE ~clockwise
  <2>1. D(j) <= D(h)
    BY <1>4, <1>7, <1>11
  <2>2. X(j) <= X(h)
    BY <1>6, <1>7, <1>8, <1>9, <2>1
  <2> QED
    BY <1>6, <1>8, <2>2
<1> QED
  BY <1>10, <1>11

\* Each point keeps all three.
LEMMA PointKeeps ==
  ASSUME NEW c, Spread(c), clockwise \in BOOLEAN, saturates \in BOOLEAN,
         NEW n \in 1 .. Len(c),
         Nearest(c, n - 1), Measured(c, n - 1), LastSeen(c, n - 1)
  PROVE  Nearest(c, n) /\ Measured(c, n) /\ LastSeen(c, n)
<1> DEFINE N == Len(c)
           old == Passes(c)[n - 1]
           new == Passes(c)[n]
           x == Index(c, c[n])
           r == RangeOf(c[n])
           X(m) == Index(c, c[m])
           rg(m) == RangeOf(c[m])
           over(m) == PaintedOver(c, m)
<1>1. N \in Nat \ {0} /\ n - 1 \in 0 .. N /\ n \in 0 .. N /\ x \in Int
  BY OffsetFacts, IndexFacts
<1>2. old \in Sorting(c) /\ new = AddPoint(c, old, c[n])
  BY <1>1, PassesFacts
<1>3. /\ x \notin 0 .. N - 1 => new = old
      /\ x \in 0 .. N - 1 =>
           /\ new.last = x
           /\ \A k \in 0 .. N - 1 :
                new.ranges[k] =
                  IF k = x THEN IF old.ranges[x] # NaN /\ old.ranges[x] <= r
                                THEN old.ranges[x] ELSE r
                  ELSE IF old.ranges[x] = NaN /\ x - old.last = 2 /\ k = x - 1 THEN r
                  ELSE old.ranges[k]
  <2> HIDE DEF old, over
  <2> QED
    BY <1>2, AddPointFacts, SMTT(60)
<1>4. \A m \in 1 .. N : rg(m) \in Nat /\ X(m) \in Int
  <2>1. ASSUME NEW m \in 1 .. N PROVE rg(m) \in Nat /\ X(m) \in Int
    <3>1. c[m] \in Point
      BY CircleFacts DEF Spread
    <3> QED
      BY <3>1, RangeFacts, IndexFacts
  <2> QED
    BY <2>1
<1>5. r = rg(n) /\ x = X(n) /\ r \in Nat /\ r # NaN
  BY <1>4 DEF NaN
<1>6. \A k \in 0 .. N - 1 : old.ranges[k] # NaN => old.ranges[k] \in Nat
  <2>1. old.ranges \in [0 .. N - 1 -> Distances \cup {NaN, 0}]
    BY <1>2 DEF Sorting
  <2>2. \A v \in Distances \cup {NaN, 0} : v # NaN => v \in Nat
    BY ScanAssumption
  <2> HIDE DEF old
  <2> QED
    BY <2>1, <2>2
<1>7. \A k \in 0 .. N - 1, i \in 1 .. n - 1 :
        X(i) = k => old.ranges[k] # NaN /\ (old.ranges[k] <= rg(i) \/ over(i))
  BY DEF Nearest
<1>8. \A k \in 0 .. N - 1 :
        old.ranges[k] # NaN =>
          \E i \in 1 .. n - 1 : old.ranges[k] = rg(i) /\ X(i) \in {k, k + 1}
  BY DEF Measured
<1>9. \A i \in 1 .. n : i = n \/ i \in 1 .. n - 1
  BY <1>1
<1>10. x \in 0 .. N - 1 /\ old.ranges[x] = NaN /\ x - old.last = 2 =>
         \A i \in 1 .. n - 1 : X(i) = x - 1 => over(i)
  BY FillPaintsOver
<1>11. CASE x \notin 0 .. N - 1
  <2>1. new = old
    BY <1>3, <1>11
  <2>2. \A k \in 0 .. N - 1, i \in 1 .. n :
          X(i) = k => new.ranges[k] # NaN /\ (new.ranges[k] <= rg(i) \/ over(i))
    BY <1>5, <1>7, <1>9, <1>11, <2>1
  <2>3. \A k \in 0 .. N - 1 :
          new.ranges[k] # NaN =>
            \E i \in 1 .. n : new.ranges[k] = rg(i) /\ X(i) \in {k, k + 1}
    <3>1. \A i \in 1 .. n - 1 : i \in 1 .. n
      BY <1>1
    <3> HIDE DEF new, old, X, rg
    <3> QED
      BY <1>8, <2>1, <3>1
  <2>4. LastSeen(c, n)
    <3>1. CASE \A i \in 1 .. n - 1 : X(i) \notin 0 .. N - 1
      BY <1>5, <1>9, <1>11, <3>1 DEF LastSeen
    <3>2. CASE \E j \in 1 .. n - 1 : X(j) = old.last /\ \A i \in j + 1 .. n - 1 : X(i) \notin 0 .. N - 1
      <4>1. PICK j \in 1 .. n - 1 : X(j) = old.last /\ \A i \in j + 1 .. n - 1 : X(i) \notin 0 .. N - 1
        BY <3>2
      <4>2. j \in 1 .. n /\ \A i \in j + 1 .. n : i = n \/ i \in j + 1 .. n - 1
        BY <1>1
      <4>3. X(j) = new.last /\ \A i \in j + 1 .. n : X(i) \notin 0 .. N - 1
        BY <1>5, <1>11, <2>1, <4>1, <4>2
      <4> QED
        BY <4>2, <4>3 DEF LastSeen
    <3> QED
      BY <3>1, <3>2 DEF LastSeen
  <2> QED
    BY <2>2, <2>3, <2>4 DEF Nearest, Measured
<1>12. CASE x \in 0 .. N - 1
  <2>1. /\ new.last = x
        /\ \A k \in 0 .. N - 1 :
             new.ranges[k] =
               IF k = x THEN IF old.ranges[x] # NaN /\ old.ranges[x] <= r
                             THEN old.ranges[x] ELSE r
               ELSE IF old.ranges[x] = NaN /\ x - old.last = 2 /\ k = x - 1 THEN r
               ELSE old.ranges[k]
    BY <1>3, <1>12
  <2> HIDE DEF new, old, x, r, X, rg, over, N
  <2>2. ASSUME NEW k \in 0 .. N - 1, NEW i \in 1 .. n, X(i) = k
        PROVE  new.ranges[k] # NaN /\ (new.ranges[k] <= rg(i) \/ over(i))
    <3>1. CASE k = x /\ i = n
      BY <1>5, <1>6, <2>1, <2>2, <3>1
    <3>2. CASE k = x /\ i \in 1 .. n - 1
      <4>1. old.ranges[x] # NaN /\ (old.ranges[x] <= rg(i) \/ over(i)) /\ old.ranges[x] \in Nat
        BY <1>6, <1>7, <1>12, <2>2, <3>2
      <4>2. rg(i) \in Nat
        BY <1>1, <1>4, <2>2 DEF N
      <4> QED
        BY <1>5, <2>1, <2>2, <3>2, <4>1, <4>2
    <3>3. CASE k # x
      <4>1. i \in 1 .. n - 1
        BY <1>5, <1>9, <2>2, <3>3
      <4>2. CASE old.ranges[x] = NaN /\ x - old.last = 2 /\ k = x - 1
        BY <1>5, <1>10, <1>12, <2>1, <2>2, <3>3, <4>1, <4>2
      <4>3. CASE ~(old.ranges[x] = NaN /\ x - old.last = 2 /\ k = x - 1)
        <5>1. new.ranges[k] = old.ranges[k]
          BY <2>1, <3>3, <4>3
        <5> QED
          BY <1>7, <2>2, <4>1, <5>1
      <4> QED
        BY <4>2, <4>3
    <3> QED
      BY <1>9, <3>1, <3>2, <3>3
  <2>3. ASSUME NEW k \in 0 .. N - 1, new.ranges[k] # NaN
        PROVE  \E i \in 1 .. n : new.ranges[k] = rg(i) /\ X(i) \in {k, k + 1}
    <3>1. n \in 1 .. n /\ \A i \in 1 .. n - 1 : i \in 1 .. n
      BY <1>1
    <3>2. CASE new.ranges[k] = r /\ x \in {k, k + 1}
      BY <1>5, <3>1, <3>2
    <3>3. CASE new.ranges[k] = old.ranges[k]
      BY <1>8, <2>3, <3>1, <3>3
    <3>4. (new.ranges[k] = r /\ x \in {k, k + 1}) \/ new.ranges[k] = old.ranges[k]
      <4>1. k = x - 1 => x = k + 1
        BY <1>1
      <4> QED
        BY <2>1, <4>1
    <3> QED
      BY <3>2, <3>3, <3>4
  <2>4. n \in 1 .. n /\ X(n) = new.last /\ \A i \in n + 1 .. n : X(i) \notin 0 .. N - 1
    BY <1>1, <1>5, <2>1
  <2>5. LastSeen(c, n)
    BY <2>4 DEF LastSeen, X, new, N
  <2>6. Nearest(c, n)
    BY <2>2 DEF Nearest, X, rg, over, new, N
  <2>7. Measured(c, n)
    BY <2>3 DEF Measured, X, rg, new, N
  <2> QED
    BY <2>5, <2>6, <2>7
<1> QED
  BY <1>11, <1>12

\* Of all the points, by induction.
LEMMA SortedIn ==
  ASSUME NEW c, Spread(c), clockwise \in BOOLEAN, saturates \in BOOLEAN
  PROVE  Nearest(c, Len(c)) /\ Measured(c, Len(c))
<1> DEFINE N == Len(c)
           R == {n \in 0 .. N : Nearest(c, n) /\ Measured(c, n) /\ LastSeen(c, n)}
<1>1. N \in Nat
  BY OffsetFacts
<1>2. 0 \in R
  <2>1. Nearest(c, 0) /\ LastSeen(c, 0)
    BY DEF Nearest, LastSeen
  <2>2. Measured(c, 0)
    <3>1. Passes(c)[0] = [ranges |-> NoRanges(c), last |-> 0]
      BY PassesFacts
    <3>2. Passes(c)[0].ranges = NoRanges(c)
      BY <3>1
    <3> QED
      BY <3>2 DEF Measured, NoRanges
  <2> QED
    BY <1>1, <2>1, <2>2
<1>3. ASSUME NEW n \in 1 .. N, n - 1 \in R
      PROVE  n \in R
  <2>1. n \in 0 .. N
    BY <1>1
  <2>2. Nearest(c, n - 1) /\ Measured(c, n - 1) /\ LastSeen(c, n - 1)
    BY <1>3
  <2>3. Nearest(c, n) /\ Measured(c, n) /\ LastSeen(c, n)
    BY <2>2, PointKeeps
  <2> QED
    BY <2>1, <2>3
<1> HIDE DEF R
<1>4. N \in R
  <2> HIDE DEF N
  <2> QED
    BY <1>1, <1>2, <1>3, Induction
<1> QED
  BY <1>4 DEF R

\* What the ranges show of the directions.
LEMMA RangesShow ==
  ASSUME Spread(circle), clockwise \in BOOLEAN, saturates \in BOOLEAN,
         NEW k \in 0 .. Len(circle) - 1
  PROVE  LET m == Ranges(circle)
         IN /\ \A i \in InCell(k) :
                 m[k] # NaN /\ (m[k] <= RangeOf(circle[i]) \/ PaintedOver(circle, i))
            /\ m[k] # NaN => \/ m[k] \in Seen(k)
                             \/ m[k] \in Seen(k + 1)
                             \/ k = 0 /\ m[k] \in Before
<1> DEFINE N == Len(circle)
           m == Ranges(circle)
           s == Width(circle)
           D(i) == Offset(circle, circle[i])
           X(i) == Index(circle, circle[i])
<1>1. N \in Nat \ {0} /\ s \in Nat \ {0} /\ \A i \in 1 .. N : D(i) \in Int
  BY OffsetFacts
<1>2. ASSUME NEW i \in 1 .. N
      PROVE  /\ X(i) \in Int
             /\ D(i) >= 0 => X(i) * s <= D(i) /\ D(i) < (X(i) + 1) * s /\ X(i) >= 0
             /\ D(i) < 0 => X(i) \in {0, Outside} /\ (X(i) = 0 => saturates \/ -D(i) < s)
  BY IndexFacts
<1>3. DOMAIN circle = 1 .. N
  BY CircleFacts DEF Spread
<1>4. \A j : InCell(j) = {i \in 1 .. N : j * s <= D(i) /\ D(i) < (j + 1) * s}
  BY <1>3 DEF InCell
<1>5. \A j : Seen(j) = {RangeOf(circle[i]) : i \in InCell(j)}
  BY DEF Seen
<1>6. Before = {RangeOf(circle[i]) : i \in {j \in 1 .. N : D(j) < 0 /\ (saturates \/ -D(j) < s)}}
  BY <1>3 DEF Before
<1>7. /\ \A i \in 1 .. N : X(i) = k =>
           m[k] # NaN /\ (m[k] <= RangeOf(circle[i]) \/ PaintedOver(circle, i))
      /\ m[k] # NaN => \E i \in 1 .. N : m[k] = RangeOf(circle[i]) /\ X(i) \in {k, k + 1}
  BY SortedIn DEF Nearest, Measured, Ranges
<1>8. k \in Nat /\ k \in 0 .. N - 1
  BY <1>1
<1> HIDE DEF N, m, s, D, X
<1>9. ASSUME NEW i \in InCell(k)
      PROVE  i \in 1 .. N /\ X(i) = k
  <2>1. i \in 1 .. N /\ k * s <= D(i) /\ D(i) < (k + 1) * s /\ D(i) \in Int
    BY <1>1, <1>4, <1>9
  <2>2. 0 * s <= k * s /\ 0 * s = 0 /\ k * s \in Int
    BY <1>1, <1>8, ProductOrder
  <2>3. D(i) >= 0
    BY <2>1, <2>2
  <2>4. X(i) \in Int /\ X(i) * s <= D(i) /\ D(i) < (X(i) + 1) * s
    BY <1>2, <2>1, <2>3
  <2> DEFINE d == D(i)
             x == X(i)
  <2>5. /\ d \in Int /\ s \in Nat \ {0} /\ x \in Int /\ k \in Int /\ d <= d
        /\ k * s <= d /\ d < (k + 1) * s /\ x * s <= d /\ d < (x + 1) * s
    BY <1>1, <1>8, <2>1, <2>4
  <2> HIDE DEF d, x
  <2>6. x <= k /\ k <= x
    BY ONLY <2>5, CellOrder
  <2> QED
    BY <1>8, <2>1, <2>5, <2>6 DEF x
<1>10. ASSUME NEW i \in 1 .. N, X(i) \in {k, k + 1}
       PROVE  \/ RangeOf(circle[i]) \in Seen(k)
              \/ RangeOf(circle[i]) \in Seen(k + 1)
              \/ k = 0 /\ RangeOf(circle[i]) \in Before
  <2>1. D(i) \in Int
    BY <1>1
  <2>2. CASE D(i) >= 0
    <3>1. i \in InCell(X(i))
      BY <1>2, <1>4, <2>2
    <3>2. RangeOf(circle[i]) \in Seen(X(i))
      BY <1>5, <3>1
    <3> QED
      BY <1>10, <3>2
  <2>3. CASE D(i) < 0
    <3>1. X(i) \in {0, -1} /\ (X(i) = 0 => saturates \/ -D(i) < s)
      BY <1>2, <2>3 DEF Outside
    <3>2. k = 0 /\ X(i) = 0
      BY <1>8, <1>10, <3>1
    <3>3. RangeOf(circle[i]) \in Before
      BY <1>6, <2>3, <3>1, <3>2
    <3> QED
      BY <3>2, <3>3
  <2> QED
    BY <2>1, <2>2, <2>3
<1>11. \A i \in InCell(k) : m[k] # NaN /\ (m[k] <= RangeOf(circle[i]) \/ PaintedOver(circle, i))
  BY <1>7, <1>9
<1>12. m[k] # NaN => \/ m[k] \in Seen(k) \/ m[k] \in Seen(k + 1) \/ (k = 0 /\ m[k] \in Before)
  <2> SUFFICES ASSUME m[k] # NaN
               PROVE  m[k] \in Seen(k) \/ m[k] \in Seen(k + 1) \/ (k = 0 /\ m[k] \in Before)
    OBVIOUS
  <2>1. PICK i \in 1 .. N : m[k] = RangeOf(circle[i]) /\ X(i) \in {k, k + 1}
    BY <1>7
  <2>2. \/ RangeOf(circle[i]) \in Seen(k)
        \/ RangeOf(circle[i]) \in Seen(k + 1)
        \/ k = 0 /\ RangeOf(circle[i]) \in Before
    BY <1>10, <2>1, Zenon
  <2> QED
    BY ONLY <2>1, <2>2
<1> QED
  BY <1>11, <1>12 DEF m

\* Messages of each kind have a cell for each point.
LEMMA MessageTyped ==
  ASSUME circle \in Circles, circle # <<>>, clockwise \in BOOLEAN, saturates \in BOOLEAN,
         PublishMsg(circle)
  PROVE  message' \in [0 .. Len(circle) - 1 -> Distances \cup {NaN, 0}]
<1> DEFINE N == Len(circle)
           V == Distances \cup {NaN, 0}
<1>1. N \in Nat \ {0} /\ DOMAIN circle = 1 .. N /\ \A i \in 1 .. N : circle[i] \in Point
  BY CircleFacts
<1>2. CASE Span(circle) # 0
  <2>1. Spread(circle) /\ message' = Passes(circle)[N].ranges /\ N \in 0 .. N
    BY <1>1, <1>2 DEF Spread, PublishMsg, Ranges
  <2>2. Passes(circle)[N] \in Sorting(circle)
    BY <2>1, PassesFacts
  <2> QED
    BY <2>1, <2>2 DEF Sorting
<1>3. CASE Span(circle) = 0
  <2> DEFINE S(taken) == {RangeOf(circle[i]) : i \in taken}
             none == NoRanges(circle)
  <2>1. \/ message' = none
        \/ \E taken \in SUBSET (1 .. N) : taken # {} /\ message' = [none EXCEPT ![0] = Min(S(taken))]
    BY <1>1, <1>3 DEF PublishMsg, Undefined
  <2>2. none \in [0 .. N - 1 -> V] /\ 0 \in 0 .. N - 1
    BY <1>1 DEF NoRanges
  <2>3. ASSUME NEW taken \in SUBSET (1 .. N), taken # {}
        PROVE  Min(S(taken)) \in V
    <3>1. S(taken) \in SUBSET Nat /\ S(taken) \subseteq Distances \cup {0} /\ S(taken) # {}
      <4>1. \A i \in 1 .. N : RangeOf(circle[i]) \in Distances \cup {0} /\ RangeOf(circle[i]) \in Nat
        BY <1>1, RangeFacts
      <4> QED
        BY <2>3, <4>1
    <3> HIDE DEF S
    <3>2. Min(S(taken)) \in S(taken)
      <4>1. \E x \in S(taken) : \A y \in S(taken) : x <= y
        BY <3>1, LeastNumber
      <4>2. Min(S(taken)) = CHOOSE x \in S(taken) : \A y \in S(taken) : x <= y
        BY DEF Min
      <4> QED
        BY <4>1, <4>2, Zenon
    <3> QED
      BY <3>1, <3>2
  <2> HIDE DEF S, none, N, V
  <2>4. message' \in [0 .. N - 1 -> V]
    BY <2>1, <2>2, <2>3
  <2> QED
    BY <2>4 DEF N, V
<1> QED
  BY <1>2, <1>3

\* The node: what it has grabbed is a circle, and what it publishes is right.
NodeInv ==
  /\ clockwise \in BOOLEAN /\ saturates \in BOOLEAN
  /\ circle \in Circles
  /\ NodeTypeOK
  /\ CellsShowNearest

\* A circle keeps its directions as long as the parameters do not change, which
\* they never do.
LEMMA DirectionsStay ==
  ASSUME UNCHANGED <<circle, parameters>>
  PROVE  /\ \A k : InCell(k)' = InCell(k) /\ Seen(k)' = Seen(k)
         /\ Before' = Before /\ Span(circle)' = Span(circle)
         /\ \A i : RangeOf(circle[i])' = RangeOf(circle[i])
         /\ \A i : PaintedOver(circle, i)' = PaintedOver(circle, i)
<1>1. \A k : InCell(k)' = InCell(k)
  BY DEF InCell, Width, Offset, Span, Direction, parameters
<1>2. \A k : Seen(k)' = Seen(k)
  BY DEF Seen, InCell, Width, Offset, Span, Direction, RangeOf, parameters
<1>3. Before' = Before /\ Span(circle)' = Span(circle)
  BY DEF Before, Width, Offset, Span, Direction, RangeOf, parameters
<1>4. \A i : RangeOf(circle[i])' = RangeOf(circle[i])
  BY SMTT(30) DEF RangeOf, Direction, parameters
<1>5. \A i : PaintedOver(circle, i)' = PaintedOver(circle, i)
  BY DEF PaintedOver, Index, Negative, Width, Offset, Span, Direction, parameters
<1> QED
  BY <1>1, <1>2, <1>3, <1>4, <1>5

\* Every step of the node keeps the invariant.
LEMMA NodeInductive ==
  /\ NodeInit => NodeInv
  /\ NodeInv /\ [NodeNext]_nodeVars => NodeInv'
<1>1. NodeInit => NodeInv
  <2>1. <<>> \in Circles
    <3>1. 0 \in 0 .. MaxPoints /\ <<>> \in [1 .. 0 -> Point]
      BY ScanAssumption
    <3> QED
      BY <3>1 DEF Circles
  <2>2. MaxPoints \in Nat /\ Len(<<>>) = 0
    BY ScanAssumption
  <2>3. NodeInit => /\ connected \in BOOLEAN /\ ranging \in BOOLEAN
                    /\ clockwise \in BOOLEAN /\ saturates \in BOOLEAN
    BY Zenon DEF NodeInit
  <2>4. NodeInit => /\ nodePc = "connect" /\ circle = <<>>
    BY DEF NodeInit
  <2>5. NodeInit => NodeTypeOK
    BY <2>2, <2>3, <2>4 DEF NodeTypeOK
  <2> QED
    BY <2>1, <2>3, <2>4, <2>5 DEF NodeInv, CellsShowNearest
<1>2. ASSUME NodeInv, Publish
      PROVE  NodeInv'
  <2>1. /\ UNCHANGED <<circle, parameters>> /\ PublishMsg(circle) /\ nodePc' = "published"
        /\ UNCHANGED <<connected, ranging>>
    BY <1>2 DEF Publish
  <2>2. circle # <<>> => message' \in [0 .. Len(circle) - 1 -> Distances \cup {NaN, 0}]
    BY <1>2, <2>1, MessageTyped DEF NodeInv
  <2>3. NodeTypeOK'
    BY <1>2, <2>1, <2>2 DEF NodeInv, NodeTypeOK
  <2>4. CellsShowNearest'
    <3> SUFFICES ASSUME circle # <<>>, Span(circle) # 0
                 PROVE  CellsShowNearest'
      BY <2>1, DirectionsStay DEF CellsShowNearest
    <3>1. Spread(circle)
      BY <1>2 DEF NodeInv, Spread
    <3>2. message' = Ranges(circle)
      BY <2>1 DEF PublishMsg
    <3>3. DOMAIN message' = 0 .. Len(circle) - 1
      BY <2>2
    <3>4. \A k \in DOMAIN message' :
            /\ \A i \in InCell(k) :
                 /\ message'[k] # NaN
                 /\ message'[k] <= RangeOf(circle[i]) \/ PaintedOver(circle, i)
            /\ message'[k] # NaN => \/ message'[k] \in Seen(k)
                                    \/ message'[k] \in Seen(k + 1)
                                    \/ k = 0 /\ message'[k] \in Before
      BY <1>2, <3>1, <3>2, <3>3, RangesShow DEF NodeInv
    <3> QED
      BY <2>1, <3>4, DirectionsStay DEF CellsShowNearest
  <2> QED
    BY <1>2, <2>1, <2>3, <2>4 DEF NodeInv, parameters
<1>3. ASSUME NodeInv, UNCHANGED nodeVars
      PROVE  NodeInv'
  <2>1. UNCHANGED <<circle, parameters>> /\ UNCHANGED <<nodePc, connected, ranging, message>>
    BY <1>3 DEF nodeVars, parameters
  <2>2. CellsShowNearest'
    BY <1>3, <2>1, DirectionsStay DEF NodeInv, CellsShowNearest
  <2> QED
    BY <1>3, <2>1, <2>2 DEF NodeInv, NodeTypeOK, parameters
<1>4. ASSUME NodeInv, Connect \/ NotOkBeforeConnect \/ SpeedIsRight \/ SetRotationSpeed \/ NotOk
      PROVE  NodeInv'
  <2>1. UNCHANGED <<circle, parameters>> /\ nodePc' \in {"speed", "grab", "end"}
        /\ connected' \in BOOLEAN /\ ranging' \in BOOLEAN
    BY <1>4 DEF Connect, NotOkBeforeConnect, SpeedIsRight, SetRotationSpeed, NotOk, NodeInv, NodeTypeOK
  <2> QED
    BY <1>4, <2>1 DEF NodeInv, NodeTypeOK, CellsShowNearest, parameters
<1>5. ASSUME NodeInv, Grab
      PROVE  NodeInv'
  <2>1. /\ UNCHANGED <<parameters, connected, ranging>> /\ nodePc' = "publish"
        /\ circle' \in Circles
    BY <1>5 DEF Grab
  <2>2. Len(circle') <= MaxPoints
    BY <2>1, CircleFacts
  <2>3. circle' \in Circles'
    BY <2>1
  <2> QED
    BY <1>5, <2>1, <2>2, <2>3 DEF NodeInv, NodeTypeOK, CellsShowNearest, parameters
<1>6. ASSUME NodeInv, NextTurn
      PROVE  NodeInv'
  <2>1. /\ UNCHANGED <<parameters, connected, ranging>> /\ nodePc' = "grab" /\ circle' = <<>>
    BY <1>6 DEF NextTurn
  <2>2. <<>> \in Circles
    <3>1. 0 \in 0 .. MaxPoints /\ <<>> \in [1 .. 0 -> Point]
      BY ScanAssumption
    <3> QED
      BY <3>1 DEF Circles
  <2>3. MaxPoints \in Nat /\ Len(<<>>) = 0
    BY ScanAssumption
  <2> QED
    BY <1>6, <2>1, <2>2, <2>3 DEF NodeInv, NodeTypeOK, CellsShowNearest, parameters
<1> QED
  BY <1>1, <1>2, <1>3, <1>4, <1>5, <1>6 DEF NodeNext

\* A cell of a published message that has points is never empty and reports no
\* more than the nearest of them, but for points painted over: ones after which
\* the circle's angles fall back by a cell and then jump on to the cell after
\* theirs.  What a cell reports was measured there, in the next cell, or, in
\* cell 0, on the other side of angle_min.  This is so for any circle the
\* assembler may announce, turning either way, any limits and either processor.
THEOREM CellsNearest == Spec => []CellsShowNearest
<1>1. NodeInv => CellsShowNearest
  BY DEF NodeInv
<1> QED
  BY <1>1, NodeInductive, PartsOfInit, PartsOfNext, PTL DEF Spec

\* The same without exception for a circle whose angles never fall.
RisingShowNearest ==
  nodePc = "published" /\ circle # <<>> /\ Span(circle) # 0 /\ Rising(circle) =>
    \A k \in DOMAIN message : \A i \in InCell(k) :
      message[k] # NaN /\ message[k] <= RangeOf(circle[i])

\* If the angles of a circle never fall, no cell of its message reports more than
\* any of its points: no point then lies in a gap that is filled.
THEOREM RisingCirclesNearest == Spec => []RisingShowNearest
<1>1. NodeInv => RisingShowNearest
  <2> SUFFICES ASSUME NodeInv, nodePc = "published", circle # <<>>, Span(circle) # 0,
                      Rising(circle), NEW k \in DOMAIN message, NEW i \in InCell(k)
               PROVE  message[k] # NaN /\ message[k] <= RangeOf(circle[i])
    BY DEF RisingShowNearest
  <2>1. Spread(circle) /\ clockwise \in BOOLEAN /\ saturates \in BOOLEAN
    BY DEF NodeInv, Spread
  <2>2. i \in 1 .. Len(circle)
    BY <2>1, CircleFacts DEF InCell, Spread
  <2>3. ~PaintedOver(circle, i)
    BY <2>1, <2>2, RisingNotPainted
  <2> QED
    BY <2>3 DEF NodeInv, CellsShowNearest
<1> QED
  BY <1>1, NodeInductive, PartsOfInit, PartsOfNext, PTL DEF Spec

-----------------------------------------------------------------------------
\* The chassis node.

Bytes == [pkt : Nat, at : Nat, ff : BOOLEAN]

\* Bytes as the controller sends them one after the other: the header bytes of a
\* packet are FF, and the second follows the first.
Stream(s) ==
  /\ s \in Seq(Bytes)
  /\ \A i \in 1 .. Len(s) : s[i].at <= 2 => s[i].ff
  /\ \A i \in 1 .. Len(s) - 1 : s[i].at = 1 => s[i + 1].at = 2

LgvInv ==
  /\ Stream(tty) /\ Stream(lastRead) /\ Len(lastRead) <= BufLen
  /\ tty # <<>> /\ tty[Len(tty)].at = 1 => next.at = 2
  /\ next \in [pkt : Nat \ {0}, at : 1 .. PktLen]
  /\ DOMAIN rbuf = 0 .. BufLen - 1
  /\ PublishesFirstWholePacket

\* What the controller sends goes on where it has stopped.
LEMMA SendKeepsStream ==
  ASSUME LgvInv, NEW b \in BOOLEAN, ControllerSends(b)
  PROVE  /\ Stream(tty)' /\ next' \in [pkt : Nat \ {0}, at : 1 .. PktLen]
         /\ tty'[Len(tty')].at = 1 => next'.at = 2
<1> DEFINE new == Byte(next.pkt, next.at, b)
<1>1. /\ new \in Bytes /\ new.at = next.at /\ new.ff = b /\ (next.at <= 2 => b)
      /\ next \in [pkt : Nat \ {0}, at : 1 .. PktLen] /\ tty' = Append(tty, new)
  BY LgvAssumption DEF LgvInv, ControllerSends, Byte, Bytes
<1> HIDE DEF new
<1>2. /\ tty \in Seq(Bytes) /\ Len(tty) \in Nat
      /\ \A i \in 1 .. Len(tty) : tty[i].at <= 2 => tty[i].ff
      /\ \A i \in 1 .. Len(tty) - 1 : tty[i].at = 1 => tty[i + 1].at = 2
  BY DEF LgvInv, Stream
<1>3. /\ tty' \in Seq(Bytes) /\ Len(tty') = Len(tty) + 1 /\ tty'[Len(tty) + 1] = new
      /\ \A i \in 1 .. Len(tty) : tty'[i] = tty[i]
  BY <1>1, <1>2
<1>4. \A i \in 1 .. Len(tty') : tty'[i].at <= 2 => tty'[i].ff
  <2>1. SUFFICES ASSUME NEW i \in 1 .. Len(tty'), tty'[i].at <= 2
                 PROVE  tty'[i].ff
    OBVIOUS
  <2>2. CASE i = Len(tty) + 1
    BY <1>1, <1>3, <2>1, <2>2
  <2>3. CASE i \in 1 .. Len(tty)
    BY <1>2, <1>3, <2>1, <2>3
  <2> QED
    BY <1>2, <1>3, <2>2, <2>3
<1>5. \A i \in 1 .. Len(tty') - 1 : tty'[i].at = 1 => tty'[i + 1].at = 2
  <2>1. SUFFICES ASSUME NEW i \in 1 .. Len(tty), tty'[i].at = 1
                 PROVE  tty'[i + 1].at = 2
    BY <1>2, <1>3
  <2>2. CASE i = Len(tty)
    <3>1. tty # <<>> /\ tty[Len(tty)].at = 1
      BY <1>2, <1>3, <2>1, <2>2
    <3>2. next.at = 2
      BY <3>1 DEF LgvInv
    <3> QED
      BY <1>1, <1>3, <2>2, <3>2
  <2>3. CASE i \in 1 .. Len(tty) - 1
    BY <1>2, <1>3, <2>1, <2>3
  <2> QED
    BY <1>2, <2>2, <2>3
<1>6. next' \in [pkt : Nat \ {0}, at : 1 .. PktLen] /\ (next.at = 1 => next'.at = 2)
  <2>1. PktLen \in Nat /\ PktLen >= 2
    BY LgvAssumption
  <2>2. next' = IF next.at < PktLen THEN [next EXCEPT !.at = @ + 1]
                ELSE [pkt |-> next.pkt + 1, at |-> 1]
    BY DEF ControllerSends
  <2> QED
    BY ONLY <1>1, <2>1, <2>2
<1>7. tty'[Len(tty')].at = 1 => next'.at = 2
  BY <1>1, <1>3, <1>6
<1> QED
  BY <1>3, <1>4, <1>5, <1>6, <1>7 DEF Stream

\* The first header of a buffer is one, and none stands before it.
LEMMA FirstHeaderFacts ==
  ASSUME NEW buf, NEW n \in Nat, NEW beyond \in BOOLEAN, Headers(buf, n, beyond) # {}
  PROVE  /\ FirstHeader(buf, n, beyond) \in 0 .. n - 1
         /\ IsHeader(buf, FirstHeader(buf, n, beyond), beyond)
         /\ \A j \in 0 .. n - 1 :
              IsHeader(buf, j, beyond) => FirstHeader(buf, n, beyond) <= j
<1> DEFINE H == Headers(buf, n, beyond)
           h == FirstHeader(buf, n, beyond)
<1>1. H = {i \in 0 .. n - 1 : IsHeader(buf, i, beyond)}
  BY DEF Headers
<1>2. H \in SUBSET Nat
  BY <1>1
<1>3. h = CHOOSE i \in H : \A j \in H : i <= j
  BY DEF FirstHeader
<1> HIDE DEF H, h
<1>4. H # {}
  BY DEF H
<1>5. \E i \in H : \A j \in H : i <= j
  BY <1>2, <1>4, LeastNumber
<1>6. h \in H /\ \A j \in H : h <= j
  BY <1>3, <1>5, Zenon
<1>7. h \in 0 .. n - 1 /\ IsHeader(buf, h, beyond)
  BY <1>1, <1>6
<1>8. \A j \in 0 .. n - 1 : IsHeader(buf, j, beyond) => h <= j
  BY <1>1, <1>6
<1> QED
  BY <1>7, <1>8 DEF h

\* A read of the loop: the first FF FF is the header of the first whole packet,
\* unless a pair that is none stands before it.
LEMMA ReadPublishes ==
  ASSUME NEW s, Stream(s), s # <<>>, Len(s) <= BufLen, NEW old,
         NEW buf, buf = [i \in 0 .. BufLen - 1 |-> IF i < Len(s) THEN s[i + 1] ELSE old[i]],
         NEW beyond \in BOOLEAN, lastRead' = s,
         odom' = IF Headers(buf, Len(s), beyond) = {} THEN None
                 ELSE PayloadAt(buf, FirstHeader(buf, Len(s), beyond))
  PROVE  PublishesFirstWholePacket'
<1> DEFINE n == Len(s)
           payload(i) == SubSeq(s, i + 2, i + PktLen - 1)
           whole == {i \in 1 .. n - PktLen + 1 : s[i].at = 1}
           false == {i \in DOMAIN s : /\ s[i].at # 1 /\ s[i].ff
                                      /\ i = n \/ s[i + 1].ff}
           H == Headers(buf, n, beyond)
           h == FirstHeader(buf, n, beyond)
<1>1. /\ s \in Seq(Bytes) /\ n \in Nat /\ n > 0 /\ DOMAIN s = 1 .. n
      /\ \A i \in 1 .. n : s[i].at <= 2 => s[i].ff
      /\ \A i \in 1 .. n - 1 : s[i].at = 1 => s[i + 1].at = 2
      /\ \A i \in 1 .. n : s[i] \in Bytes
  BY DEF Stream
<1>2. PktLen \in Nat /\ PktLen >= 2 /\ BufLen \in Nat /\ n <= BufLen
  BY LgvAssumption
<1>3. SUFFICES \/ \E i \in whole : odom' = payload(i) /\ \A j \in whole : i <= j
               \/ whole = {} /\ odom' = None
               \/ whole = {} /\ \E i \in DOMAIN s : s[i].at = 1
               \/ \E i \in false : \A j \in whole : i < j
  BY DEF PublishesFirstWholePacket, Whole, False
<1>4. /\ \A i \in 0 .. n - 1 : buf[i] = s[i + 1]
      /\ \A i \in 0 .. n - 2 : buf[i + 1] = s[i + 2]
  BY <1>1, <1>2
<1> HIDE DEF n
<1>5. \A i \in 0 .. n - 1 : IsHeader(buf, i, beyond) =>
        s[i + 1].ff /\ (i + 1 = n \/ s[i + 2].ff)
  BY <1>1, <1>2, <1>4 DEF IsHeader
<1>6. \A i \in whole : i - 1 \in 0 .. n - 1 /\ IsHeader(buf, i - 1, beyond)
  <2>1. SUFFICES ASSUME NEW i \in whole
                 PROVE  i - 1 \in 0 .. n - 1 /\ IsHeader(buf, i - 1, beyond)
    OBVIOUS
  <2>2. i \in 1 .. n - 1 /\ i + 1 \in 1 .. n /\ s[i].at = 1
    BY <1>1, <1>2
  <2>3. s[i + 1].at = 2 /\ s[i].ff /\ s[i + 1].ff
    BY <1>1, <2>2
  <2>4. buf[i - 1] = s[i] /\ buf[(i - 1) + 1] = s[i + 1] /\ (i - 1) + 1 < BufLen
    BY <1>1, <1>2, <1>4, <2>2
  <2> QED
    BY <1>1, <2>2, <2>3, <2>4 DEF IsHeader
<1>7. CASE H = {}
  <2>1. odom' = None
    BY <1>7 DEF n
  <2>2. whole = {}
    BY <1>6, <1>7 DEF Headers
  <2> QED
    BY <2>1, <2>2
<1>8. CASE H # {}
  <2>1. /\ h \in 0 .. n - 1 /\ IsHeader(buf, h, beyond)
        /\ \A j \in 0 .. n - 1 : IsHeader(buf, j, beyond) => h <= j
    BY <1>1, <1>8, FirstHeaderFacts
  <2>2. odom' = PayloadAt(buf, h)
    BY <1>8 DEF n
  <2> HIDE DEF h, H
  <2>3. h + 1 \in 1 .. n /\ s[h + 1].ff /\ (h + 1 = n \/ s[h + 2].ff)
    BY <1>1, <1>5, <2>1
  <2>0. h \in Nat /\ n \in Nat /\ h + 1 <= n
    BY <1>1, <2>1
  <2>4. \A j \in whole : h + 1 <= j
    BY <1>1, <1>2, <1>6, <2>1
  <2>5. CASE s[h + 1].at # 1
    <3>1. h + 1 \in false
      <4>1. h + 2 = (h + 1) + 1 /\ h + 1 \in DOMAIN s
        BY <1>1, <2>0
      <4> QED
        BY ONLY <2>3, <2>5, <4>1
    <3>2. \A j \in whole : h + 1 < j
      BY <1>1, <1>2, <2>3, <2>4, <2>5
    <3> QED
      BY <3>1, <3>2
  <2>6. CASE s[h + 1].at = 1 /\ h + 1 \notin 1 .. n - PktLen + 1
    <3>1. whole = {}
      BY <1>1, <1>2, <2>3, <2>4, <2>6
    <3> QED
      BY <1>1, <2>3, <2>6, <3>1
  <2>7. CASE s[h + 1].at = 1 /\ h + 1 \in 1 .. n - PktLen + 1
    <3>1. h + 1 \in whole
      BY <2>7
    <3>2. payload(h + 1) = [k \in 1 .. PktLen - 2 |-> s[h + 2 + k]]
      <4> DEFINE m == h + 3
                 l == h + PktLen
                 P == SubSeq(s, m, l)
      <4>1. m \in Int /\ l \in Int /\ l - m + 1 = PktLen - 2 /\ 0 < m /\ l <= n
        BY ONLY <1>2, <2>7, <2>0
      <4>2. \A i \in m .. l : s[i] \in Bytes
        BY <1>1, <4>1
      <4> HIDE DEF m, l
      <4>3. P \in Seq(Bytes) /\ Len(P) = PktLen - 2 /\ \A i \in 1 .. PktLen - 2 : P[i] = s[m + i - 1]
        BY ONLY <1>2, <4>1, <4>2, SubSeqProperties
      <4> HIDE DEF P
      <4>4. \A i \in 1 .. PktLen - 2 : m + i - 1 = h + 2 + i
        BY ONLY <1>2, <2>0 DEF m
      <4>5. P = [k \in 1 .. PktLen - 2 |-> P[k]]
        BY ONLY <1>2, <4>3
      <4>6. P = [k \in 1 .. PktLen - 2 |-> s[h + 2 + k]]
        BY ONLY <4>3, <4>4, <4>5
      <4>7. h + 1 + 2 = m /\ h + 1 + PktLen - 1 = l
        BY ONLY <1>2, <2>0 DEF m, l
      <4> QED
        BY ONLY <4>6, <4>7 DEF P
    <3>3. PayloadAt(buf, h) = [k \in 1 .. PktLen - 2 |-> s[h + 2 + k]]
      <4>1. ASSUME NEW k \in 1 .. PktLen - 2
            PROVE  h + 1 + k < BufLen /\ buf[h + 1 + k] = s[h + 2 + k]
        <5>1. h + 1 + k \in 0 .. n - 1 /\ (h + 1 + k) + 1 = h + 2 + k
          BY ONLY <1>2, <2>0, <2>7, k \in 1 .. PktLen - 2
        <5>2. h + 1 + k < BufLen
          BY ONLY <1>1, <1>2, <5>1
        <5> QED
          BY ONLY <1>4, <5>1, <5>2
      <4> QED
        BY <4>1 DEF PayloadAt
    <3> QED
      BY <2>2, <2>4, <3>1, <3>2, <3>3
  <2> QED
    BY <2>5, <2>6, <2>7
<1> QED
  BY <1>7, <1>8

\* Every step of the chassis node and its controller keeps the invariant.
LEMMA LgvInductive ==
  /\ LgvInit => LgvInv
  /\ LgvInv /\ [LgvNext]_lgvVars => LgvInv'
<1>1. LgvInit => LgvInv
  <2> SUFFICES ASSUME LgvInit
               PROVE  LgvInv
    OBVIOUS
  <2>1. tty = <<>> /\ lastRead = <<>> /\ next = [pkt |-> 1, at |-> 1]
    BY DEF LgvInit
  <2>2. <<>> \in Seq(Bytes) /\ Len(<<>>) = 0
    OBVIOUS
  <2>3. Stream(tty) /\ Stream(lastRead) /\ Len(lastRead) <= BufLen
    BY <2>1, <2>2, LgvAssumption DEF Stream
  <2>4. next \in [pkt : Nat \ {0}, at : 1 .. PktLen]
    BY <2>1, LgvAssumption
  <2>5. DOMAIN rbuf = 0 .. BufLen - 1
    BY DEF LgvInit
  <2>6. PublishesFirstWholePacket
    BY <2>1 DEF PublishesFirstWholePacket
  <2> QED
    BY <2>1, <2>3, <2>4, <2>5, <2>6 DEF LgvInv
<1>2. ASSUME LgvInv, UNCHANGED <<lastRead, odom>>
      PROVE  PublishesFirstWholePacket' /\ Stream(lastRead)' /\ Len(lastRead') <= BufLen
  BY <1>2 DEF LgvInv, PublishesFirstWholePacket, Whole, False, Stream
<1>3. ASSUME LgvInv, UNCHANGED <<tty, rbuf, lastRead, odom, next>>
      PROVE  LgvInv'
  BY <1>2, <1>3 DEF LgvInv, Stream
<1>4. ASSUME LgvInv, NEW b \in BOOLEAN, ControllerSends(b)
      PROVE  LgvInv'
  <2>1. UNCHANGED <<rbuf, lastRead, odom>>
    BY <1>4 DEF ControllerSends
  <2>2. /\ Stream(tty)' /\ next' \in [pkt : Nat \ {0}, at : 1 .. PktLen]
        /\ tty'[Len(tty')].at = 1 => next'.at = 2
    BY <1>4, SendKeepsStream
  <2>3. DOMAIN rbuf' = 0 .. BufLen - 1
    BY <1>4, <2>1 DEF LgvInv
  <2> QED
    BY <1>2, <1>4, <2>1, <2>2, <2>3 DEF LgvInv
<1>5. ASSUME LgvInv, Read
      PROVE  LgvInv'
  <2> DEFINE n == Len(tty)
             buf == [i \in DOMAIN rbuf |-> IF i < n THEN tty[i + 1] ELSE rbuf[i]]
  <2>1. /\ n > 0 /\ tty' = <<>> /\ UNCHANGED next
        /\ \/ n > BufLen /\ UNCHANGED <<rbuf, lastRead, odom>>
           \/ /\ n <= BufLen /\ rbuf' = buf /\ lastRead' = tty
              /\ \E beyond \in BOOLEAN :
                   odom' = IF Headers(buf, n, beyond) = {} THEN None
                           ELSE PayloadAt(buf, FirstHeader(buf, n, beyond))
    BY <1>5 DEF Read
  <2>2. Stream(tty) /\ DOMAIN rbuf = 0 .. BufLen - 1 /\ next \in [pkt : Nat \ {0}, at : 1 .. PktLen]
    BY <1>5 DEF LgvInv
  <2>3. Stream(tty)' /\ next' \in [pkt : Nat \ {0}, at : 1 .. PktLen]
    BY <2>1, <2>2 DEF Stream
  <2>4. CASE n > BufLen /\ UNCHANGED <<rbuf, lastRead, odom>>
    BY <1>2, <1>5, <2>1, <2>2, <2>3, <2>4 DEF LgvInv
  <2>5. CASE /\ n <= BufLen /\ rbuf' = buf /\ lastRead' = tty
             /\ \E beyond \in BOOLEAN :
                  odom' = IF Headers(buf, n, beyond) = {} THEN None
                          ELSE PayloadAt(buf, FirstHeader(buf, n, beyond))
    <3>1. PICK beyond \in BOOLEAN :
            odom' = IF Headers(buf, n, beyond) = {} THEN None
                    ELSE PayloadAt(buf, FirstHeader(buf, n, beyond))
      BY <2>5
    <3>2. tty # <<>>
      BY <2>1
    <3>3. buf = [i \in 0 .. BufLen - 1 |-> IF i < n THEN tty[i + 1] ELSE rbuf[i]]
      BY <2>2
    <3> HIDE DEF buf
    <3>4. PublishesFirstWholePacket'
      BY <2>2, <2>5, <3>1, <3>2, <3>3, ReadPublishes
    <3>5. DOMAIN rbuf' = 0 .. BufLen - 1
      BY <2>5, <3>3
    <3>6. Stream(lastRead)' /\ Len(lastRead') <= BufLen
      BY <2>2, <2>5 DEF Stream
    <3> QED
      BY <2>1, <2>3, <3>4, <3>5, <3>6 DEF LgvInv
  <2> QED
    BY <2>1, <2>4, <2>5
<1>6. LgvInv /\ [LgvNext]_lgvVars => LgvInv'
  <2> SUFFICES ASSUME LgvInv, LgvNext \/ UNCHANGED lgvVars
               PROVE  LgvInv'
    OBVIOUS
  <2>1. CASE \/ OpenSerial \/ UNCHANGED lgvVars
             \/ \E v \in Velocities : SerialCallback(v)
             \/ \E how \in {"closed", "thrown"} : EndLgv(how)
    BY <1>3, <2>1 DEF OpenSerial, SerialCallback, EndLgv, lgvVars
  <2> QED
    BY <1>4, <1>5, <2>1 DEF LgvNext
<1> QED
  BY <1>1, <1>6

\* The chassis node and its controller keep to their types.
LEMMA LgvTyped ==
  /\ LgvInit => LgvTypeOK
  /\ LgvInv /\ LgvTypeOK /\ [LgvNext]_lgvVars => LgvTypeOK'
<1>1. /\ PktLen \in Nat /\ PktLen >= 2 /\ BufLen \in Nat \ {0} /\ MaxPkt \in Nat
      /\ Half \in Nat \ {0} /\ Velocities \subseteq Int
  BY LgvAssumption
<1>2. LgvInit => LgvTypeOK
  BY <1>1 DEF LgvInit, LgvTypeOK, Told
<1>3. ASSUME LgvTypeOK, OpenSerial
      PROVE  LgvTypeOK'
  BY <1>1, <1>3, SMTT(30) DEF OpenSerial, LgvTypeOK, Told
<1>4. ASSUME LgvInv, LgvTypeOK, NEW b \in BOOLEAN, ControllerSends(b)
      PROVE  LgvTypeOK'
  <2>1. /\ next \in [pkt : Nat \ {0}, at : 1 .. PktLen] /\ tty \in Seq(Bytes)
    BY <1>4 DEF LgvInv, Stream
  <2>2. Len(tty') = Len(tty) + 1 /\ Len(tty) <= BufLen /\ Len(tty) \in Nat
    BY <1>4, <2>1 DEF ControllerSends
  <2>3. next'.pkt \in 1 .. MaxPkt + 1 /\ next'.at \in 1 .. PktLen
    <3>1. /\ next.pkt \in Nat \ {0} /\ next.at \in 1 .. PktLen /\ next.pkt <= MaxPkt
          /\ next' = IF next.at < PktLen THEN [next EXCEPT !.at = @ + 1]
                     ELSE [pkt |-> next.pkt + 1, at |-> 1]
      BY <1>4, <2>1 DEF ControllerSends
    <3>2. CASE next.at < PktLen
      <4>1. next'.pkt = next.pkt /\ next'.at = next.at + 1
        BY <2>1, <3>1, <3>2
      <4> QED
        BY <1>1, <3>1, <3>2, <4>1
    <3>3. CASE ~(next.at < PktLen)
      <4>1. next'.pkt = next.pkt + 1 /\ next'.at = 1
        BY <3>1, <3>3
      <4> QED
        BY <1>1, <3>1, <4>1
    <3> QED
      BY <3>2, <3>3
  <2> QED
    BY <1>1, <1>4, <2>2, <2>3 DEF ControllerSends, LgvTypeOK
<1>5. ASSUME LgvTypeOK, NEW v \in Velocities, SerialCallback(v)
      PROVE  LgvTypeOK'
  <2>1. \A x \in Int, m \in Nat \ {0} : x % m \in 0 .. m - 1
    OBVIOUS
  <2>2. (v + Half) % (2 * Half) \in 0 .. 2 * Half - 1
    BY <1>1, <2>1
  <2>3. Int16(v) \in -Half .. Half - 1
    BY <1>1, <2>2 DEF Int16
  <2> QED
    BY <1>5, <2>3 DEF SerialCallback, LgvTypeOK, Told
<1>6. ASSUME LgvInv, LgvTypeOK, Read
      PROVE  LgvTypeOK'
  <2>1. /\ lgvPc' \in {"loop", "overrun"} /\ tty' = <<>> /\ UNCHANGED <<next, told>>
        /\ odom' \in {None, odom} \/ \E buf, i : odom' = PayloadAt(buf, i)
    BY <1>6 DEF Read
  <2>2. Len(lastRead') <= BufLen /\ DOMAIN rbuf' = 0 .. BufLen - 1
    BY <1>6 DEF Read, LgvTypeOK
  <2>3. \A buf, i : Len(PayloadAt(buf, i)) = PktLen - 2
    BY <1>1 DEF PayloadAt
  <2>4. odom' = None \/ Len(odom') = PktLen - 2
    BY <1>6, <2>1, <2>3 DEF LgvTypeOK
  <2> QED
    BY <1>1, <1>6, <2>1, <2>2, <2>4 DEF LgvTypeOK
<1>7. ASSUME LgvTypeOK, \E how \in {"closed", "thrown"} : EndLgv(how)
      PROVE  LgvTypeOK'
  BY <1>7 DEF EndLgv, LgvTypeOK
<1>8. ASSUME LgvTypeOK, UNCHANGED lgvVars
      PROVE  LgvTypeOK'
  BY <1>8 DEF lgvVars, LgvTypeOK
<1> QED
  BY <1>2, <1>3, <1>4, <1>5, <1>6, <1>7, <1>8 DEF LgvNext

\* Each read of the chassis node that holds a whole packet publishes the first
\* one as it was sent, unless a pair FF FF that is no header stands before it:
\* for every length of packet and buffer, whatever older reads left in r_buffer
\* and whatever lies behind it.
THEOREM FirstWholePacket == Spec => []PublishesFirstWholePacket
<1>1. LgvInv => PublishesFirstWholePacket
  BY DEF LgvInv
<1> QED
  BY LgvInductive, <1>1, PartsOfInit, PartsOfNext, PTL DEF Spec
-----------------------------------------------------------------------------
\* The IMU node.

Values == 0 .. Mod - 1

ImuTypes ==
  /\ buff \in Seq(Values) /\ Len(buff) < Size
  /\ readings \in [Types -> Nat]
  /\ sentOf \in 0 .. Size - 1 /\ turn \in Nat \ {0} /\ type \in Types
  /\ lost \in Nat /\ missed \in Nat /\ joined \in BOOLEAN /\ clean \in BOOLEAN

\* The packet under way, in which only the first byte looks like a header as
\* long as the bytes are clean; a window begins with what looks like one.
Sending ==
  /\ Idle => sentOf = 0
  /\ ~Idle => \E p \in Payloads : packet = PacketOf(type, p)
  /\ clean /\ ~Idle => \A i \in 2 .. Size : packet[i] # Header
  /\ buff # <<>> => buff[1] = Header

\* The window holds what has been sent of the packet, and nothing else.
InStep == Len(buff) = sentOf /\ \A i \in 1 .. sentOf : buff[i] = packet[i]

\* The packets still to be missed if no other byte is lost: a window that is
\* open but behind ends in the next packet and spoils that one too.
Debt == IF InStep THEN 0 ELSE IF 0 < Len(buff) /\ Len(buff) < sentOf THEN 2 ELSE 1

Budget == clean => missed + Debt <= 2 * lost + (IF joined THEN 1 ELSE 0)

\* As long as nothing is missed, the window is in step or behind, the types
\* before this one have been read in this turn and the magnetic field in the
\* one before.
Untouched ==
  clean /\ missed = 0 =>
    /\ InStep \/ Len(buff) < sentOf
    /\ turn > 1 => /\ \A t \in Types : t < type => readings[t] = turn
                   /\ readings[Magnetic] = turn - 1
    /\ imuMsg # NoMsg /\ imuMsg[Angle] > 1 =>
         /\ imuMsg[Acceleration] = imuMsg[Angle]
         /\ imuMsg[AngularVelocity] = imuMsg[Angle]
         /\ imuMsg[Magnetic] = imuMsg[Angle] - 1

\* The bounds: what is read and published is of a turn that was sent.
Turns == 0 .. MaxTurn
ImuBounds ==
  /\ imuPc \in {"run", "exit"} /\ lost <= MaxLost
  /\ turn <= MaxTurn + 1 /\ (~Idle => turn <= MaxTurn)
  /\ readings \in [Types -> Turns]
  /\ imuMsg = NoMsg \/ imuMsg \in [Types -> Turns]

ImuInv == ImuTypes /\ Sending /\ Budget /\ Untouched

\* Front and Last of a sequence that is not empty.
LEMMA FrontFacts ==
  ASSUME NEW S, NEW s \in Seq(S), s # <<>>
  PROVE  /\ Front(s) \in Seq(S) /\ Len(Front(s)) = Len(s) - 1
         /\ \A i \in 1 .. Len(s) - 1 : Front(s)[i] = s[i]
         /\ Last(s) = s[Len(s)]
<1>1. Len(s) \in Nat \ {0} /\ \A i \in 1 .. Len(s) - 1 : s[i] \in S
  OBVIOUS
<1> DEFINE F == SubSeq(s, 1, Len(s) - 1)
<1>2. /\ F \in Seq(S) /\ Len(F) = IF 1 <= Len(s) - 1 THEN Len(s) - 1 - 1 + 1 ELSE 0
      /\ \A i \in 1 .. Len(s) - 1 - 1 + 1 : F[i] = s[1 + i - 1]
  BY ONLY <1>1, SubSeqProperties
<1> HIDE DEF F
<1>3. /\ Len(F) = Len(s) - 1 /\ Len(s) - 1 - 1 + 1 = Len(s) - 1
      /\ \A i \in 1 .. Len(s) - 1 : 1 + i - 1 = i
  <2>1. Len(F) = Len(s) - 1
    <3>1. \A m \in Nat \ {0} : (IF 1 <= m - 1 THEN m - 1 - 1 + 1 ELSE 0) = m - 1
      OBVIOUS
    <3> QED
      BY <1>1, <1>2, <3>1, Zenon
  <2>2. \A m \in Nat : m - 1 - 1 + 1 = m - 1 /\ \A i \in 1 .. m - 1 : 1 + i - 1 = i
    OBVIOUS
  <2> QED
    BY <1>1, <2>1, <2>2
<1>4. \A i \in 1 .. Len(s) - 1 : F[i] = s[i]
  BY ONLY <1>2, <1>3
<1>5. Front(s) = F /\ Last(s) = s[Len(s)]
  BY DEF Front, Last, F
<1> QED
  BY ONLY <1>2, <1>3, <1>4, <1>5

\* The sum behind the check byte is a number.
LEMMA SumInt ==
  ASSUME NEW s \in Seq(Int)
  PROVE  SumOf(s) \in Int
<1> DEFINE N == Len(s)
           F == [x \in (1 .. N) \X Int |-> x[2] + s[x[1]]]
           sum(f) == f = [n \in 0 .. N |-> IF n = 0 THEN 0 ELSE f[n - 1] + s[n]]
<1>1. N \in Nat /\ F \in [(1 .. N) \X Int -> Int]
  OBVIOUS
<1>2. \A n \in 1 .. N, v \in Int : F[<<n, v>>] = v + s[n]
  OBVIOUS
<1>3. SumOf(s) = (CHOOSE f : sum(f))[N]
  BY DEF SumOf
<1> HIDE DEF F, N
<1>4. PICK f \in [0 .. N -> Int] : f[0] = 0 /\ \A n \in 1 .. N : f[n] = F[<<n, f[n - 1]>>]
  <2>1. 0 \in Int
    OBVIOUS
  <2>2. \E f : Follows(f, N, Int, 0, F)
    BY <1>1, <2>1, Recursion
  <2> QED
    BY <2>2 DEF Follows
<1>5. \A n \in 1 .. N : f[n] = f[n - 1] + s[n]
  <2>1. \A n \in 1 .. N : n - 1 \in 0 .. N
    BY <1>1
  <2> QED
    BY <1>2, <1>4, <2>1
<1>6. f = [n \in 0 .. N |-> IF n = 0 THEN 0 ELSE f[n - 1] + s[n]]
  BY <1>1, <1>4, <1>5
<1> DEFINE g == CHOOSE g : sum(g)
<1>7. sum(g)
  <2>1. sum(f)
    BY <1>6
  <2> HIDE DEF sum
  <2> QED
    BY <2>1, Zenon
<1> HIDE DEF g
<1>8. \A n \in 0 .. N : g[n] \in Int
  <2> DEFINE R == {n \in 0 .. N : g[n] \in Int}
  <2>1. 0 \in R /\ \A n \in 1 .. N : n - 1 \in R => n \in R
    BY <1>1, <1>7, SMTT(30) DEF N
  <2> HIDE DEF R
  <2>2. \A n \in 0 .. N : n \in R
    BY <1>1, <2>1, Induction
  <2> QED
    BY <2>2 DEF R
<1> QED
  BY <1>1, <1>3, <1>8 DEF g

\* A packet has the header, its type, and a check byte that checks.
LEMMA PacketFacts ==
  /\ Size \in Nat /\ Size >= 3
  /\ \A t \in Types, p \in Payloads :
       /\ PacketOf(t, p) \in Seq(Values) /\ Len(PacketOf(t, p)) = Size
       /\ PacketOf(t, p)[1] = Header /\ PacketOf(t, p)[2] = t
       /\ CheckSum(PacketOf(t, p))
<1>1. PICK n \in Nat : \A p \in Payloads : p \in Seq(0 .. Mod - 1) /\ Len(p) = n
  <2>1. PICK q \in Payloads : TRUE
    BY ImuAssumption
  <2>2. \A p \in Payloads : p \in Seq(0 .. Mod - 1) /\ Len(p) = Len(q)
    BY ImuAssumption
  <2> QED
    BY <2>2
<1>2. ASSUME NEW t \in Types, NEW p \in Payloads
      PROVE  /\ PacketOf(t, p) \in Seq(Values) /\ Len(PacketOf(t, p)) = n + 3
             /\ PacketOf(t, p)[1] = Header /\ PacketOf(t, p)[2] = t
             /\ CheckSum(PacketOf(t, p))
  <2> DEFINE s == <<Header, t>> \o p
             c == CheckByte(s)
             w == Append(s, c)
  <2>1. Header \in Values /\ t \in Values
    BY ImuAssumption DEF Types, Values
  <2>2. p \in Seq(Values) /\ Len(p) = n
    BY <1>1 DEF Values
  <2>3. s \in Seq(Values) /\ Len(s) = n + 2 /\ s[1] = Header /\ s[2] = t
    BY ONLY <2>1, <2>2, n \in Nat
  <2>4. c \in Values
    <3>1. Values \subseteq Int /\ Mod \in Nat /\ Mod > 0
      BY ImuAssumption DEF Values
    <3>2. s \in Seq(Int)
      BY <2>3, <3>1, SeqMonotonic, Zenon
    <3> HIDE DEF s
    <3>3. SumOf(s) \in Int
      BY <3>2, SumInt
    <3> QED
      BY <3>1, <3>3 DEF CheckByte, Values
  <2>6. PacketOf(t, p) = w
    BY DEF PacketOf
  <2> HIDE DEF s, c
  <2>7. /\ w \in Seq(Values) /\ Len(w) = n + 3 /\ w[1] = Header /\ w[2] = t /\ w # <<>>
        /\ \A i \in 1 .. n + 2 : w[i] = s[i]
        /\ w[n + 3] = c
    BY ONLY <2>3, <2>4, n \in Nat
  <2> HIDE DEF w
  <2>8. /\ Front(w) \in Seq(Values) /\ Len(Front(w)) = Len(w) - 1 /\ Last(w) = w[Len(w)]
        /\ \A i \in 1 .. Len(w) - 1 : Front(w)[i] = w[i]
    BY <2>7, FrontFacts
  <2>9. Len(w) - 1 = n + 2
    BY <2>7
  <2>10. Front(w) = s
    BY <2>3, <2>7, <2>8, <2>9, SeqEqual
  <2>11. CheckSum(w)
    BY <2>7, <2>8, <2>10 DEF CheckSum, c
  <2> QED
    BY <2>6, <2>7, <2>11
<1>3. Size = n + 3
  <2>1. 1 \in Types /\ (CHOOSE p \in Payloads : TRUE) \in Payloads
    BY ImuAssumption DEF Types
  <2> QED
    BY <1>2, <2>1 DEF Size
<1> QED
  BY <1>2, <1>3

\* The three things a byte may do: it is no header and no window is open; it
\* makes the window longer; it fills the window, which is read and dropped.
LEMMA WindowFacts ==
  ASSUME ImuTypes, buff # <<>> => buff[1] = Header,
         NEW b \in Values, NEW whole \in BOOLEAN, HandleSerialData(b, whole)
  PROVE  /\ buff' \in Seq(Values) /\ Len(buff') < Size /\ readings' \in [Types -> Nat]
         /\ buff' # <<>> => buff'[1] = Header
         /\ \/ /\ buff = <<>> /\ b # Header
               /\ buff' = <<>> /\ UNCHANGED <<readings, imuMsg>>
            \/ /\ buff # <<>> \/ b = Header
               /\ Len(buff) + 1 < Size
               /\ Len(buff') = Len(buff) + 1 /\ buff'[Len(buff) + 1] = b
               /\ \A i \in 1 .. Len(buff) : buff'[i] = buff[i]
               /\ UNCHANGED <<readings, imuMsg>>
            \/ /\ Len(buff) + 1 = Size /\ buff' = <<>>
               /\ LET w == Append(buff, b)
                  IN /\ w[2] \in Types /\ CheckSum(w) =>
                          /\ readings' = [readings EXCEPT ![w[2]] = IF whole THEN turn ELSE 0]
                          /\ imuMsg' = IF w[2] = Angle THEN readings' ELSE imuMsg
                     /\ ~(w[2] \in Types /\ CheckSum(w)) => UNCHANGED <<readings, imuMsg>>
<1> DEFINE w == Append(buff, b)
           full == w[1] = Header /\ Len(w) = Size
           accepted == full /\ w[2] \in Types /\ CheckSum(w)
<1>1. /\ buff \in Seq(Values) /\ Len(buff) \in Nat /\ Len(buff) < Size /\ Size \in Nat /\ Size >= 3
      /\ readings \in [Types -> Nat] /\ turn \in Nat
  BY PacketFacts DEF ImuTypes
<1>2. /\ w \in Seq(Values) /\ Len(w) = Len(buff) + 1 /\ w[Len(buff) + 1] = b
      /\ \A i \in 1 .. Len(buff) : w[i] = buff[i]
  BY ONLY <1>1, b \in Values
<1>3. /\ buff' = IF w[1] # Header \/ full THEN <<>> ELSE w
      /\ readings' = IF accepted
                      THEN [readings EXCEPT ![w[2]] = IF whole THEN turn ELSE 0]
                      ELSE readings
      /\ imuMsg' = IF accepted /\ w[2] = Angle THEN readings' ELSE imuMsg
  BY DEF HandleSerialData
<1> HIDE DEF w
<1>4. readings' \in [Types -> Nat]
  <2>1. (IF whole THEN turn ELSE 0) \in Nat
    BY <1>1
  <2> QED
    BY <1>1, <1>3, <2>1
<1>5. w[1] = IF buff = <<>> THEN b ELSE Header
  <2>1. CASE buff = <<>>
    BY <1>1, <1>2, <2>1
  <2>2. CASE buff # <<>>
    <3>1. 1 \in 1 .. Len(buff)
      BY <1>1, <2>2
    <3> QED
      BY <1>2, <2>2, <3>1
  <2> QED
    BY <2>1, <2>2
<1>6. CASE buff = <<>> /\ b # Header
  <2>1. ~full /\ ~accepted /\ buff' = <<>>
    BY <1>3, <1>5, <1>6
  <2>2. Len(<<>>) = 0 /\ <<>> \in Seq(Values)
    OBVIOUS
  <2> QED
    BY <1>1, <1>3, <1>4, <1>6, <2>1, <2>2
<1>7. CASE ~(buff = <<>> /\ b # Header) /\ Len(buff) + 1 < Size
  <2>1. w[1] = Header /\ ~full /\ ~accepted
    BY <1>1, <1>2, <1>5, <1>7
  <2> QED
    BY <1>1, <1>2, <1>3, <1>4, <1>7, <2>1
<1>8. CASE ~(buff = <<>> /\ b # Header) /\ Len(buff) + 1 = Size
  <2>1. full /\ (accepted <=> w[2] \in Types /\ CheckSum(w))
    BY <1>1, <1>2, <1>5, <1>8
  <2>2. buff' = <<>>
    BY <1>3, <2>1
  <2>3. Len(<<>>) = 0 /\ <<>> \in Seq(Values)
    OBVIOUS
  <2>4. /\ w[2] \in Types /\ CheckSum(w) =>
             /\ readings' = [readings EXCEPT ![w[2]] = IF whole THEN turn ELSE 0]
             /\ imuMsg' = IF w[2] = Angle THEN readings' ELSE imuMsg
        /\ ~(w[2] \in Types /\ CheckSum(w)) => UNCHANGED <<readings, imuMsg>>
    BY <1>3, <2>1
  <2> QED
    BY <1>1, <1>4, <1>8, <2>2, <2>3, <2>4 DEF w
<1>9. Len(buff) + 1 < Size \/ Len(buff) + 1 = Size
  BY <1>1
<1> QED
  BY <1>6, <1>7, <1>8, <1>9

\* The packet under way, and that the window holds all of it but its last byte
\* just when it is in step there.
LEMMA SendingFacts ==
  ASSUME ImuTypes, Sending, ~Idle
  PROVE  /\ packet \in Seq(Values) /\ Len(packet) = Size /\ packet[1] = Header
         /\ packet[2] = type /\ CheckSum(packet) /\ packet[sentOf + 1] \in Values
         /\ sentOf = Size - 1 /\ buff = Front(packet) <=> InStep /\ sentOf = Size - 1
         /\ InStep /\ sentOf = Size - 1 => Append(buff, packet[sentOf + 1]) = packet
<1>1. /\ packet \in Seq(Values) /\ Len(packet) = Size /\ packet[1] = Header
      /\ packet[2] = type /\ CheckSum(packet) /\ Size \in Nat /\ Size >= 3
  BY PacketFacts DEF Sending, ImuTypes
<1>2. sentOf \in Nat /\ sentOf + 1 \in 1 .. Size /\ buff \in Seq(Values)
  BY <1>1 DEF ImuTypes
<1>3. packet[sentOf + 1] \in Values
  BY <1>1, <1>2
<1>4. packet # <<>>
  BY DEF Idle
<1>5. /\ Front(packet) \in Seq(Values) /\ Len(Front(packet)) = Size - 1
      /\ \A i \in 1 .. Size - 1 : Front(packet)[i] = packet[i]
  BY <1>1, <1>4, FrontFacts
<1>6. ASSUME sentOf = Size - 1, buff = Front(packet)
      PROVE  InStep
  BY <1>5, <1>6 DEF InStep
<1>7. ASSUME sentOf = Size - 1, InStep
      PROVE  buff = Front(packet) /\ Append(buff, packet[sentOf + 1]) = packet
  <2>1. Len(buff) = Size - 1 /\ \A i \in 1 .. Size - 1 : buff[i] = packet[i]
    BY <1>7 DEF InStep
  <2>2. buff = Front(packet)
    BY <1>2, <1>5, <2>1, SeqEqual
  <2> DEFINE w == Append(buff, packet[sentOf + 1])
  <2>3. w \in Seq(Values) /\ Len(w) = Size
    BY <1>1, <1>2, <1>3, <2>1
  <2>4. \A i \in 1 .. Size : w[i] = packet[i]
    <3>1. \A i \in 1 .. Size - 1 : w[i] = buff[i]
      BY <1>1, <1>2, <1>3, <2>1
    <3>2. w[Size] = packet[Size]
      BY <1>1, <1>2, <1>3, <1>7, <2>1
    <3> HIDE DEF w
    <3>3. \A i \in 1 .. Size : i \in 1 .. Size - 1 \/ i = Size
      BY <1>1
    <3> QED
      BY <2>1, <3>1, <3>2, <3>3
  <2> HIDE DEF w
  <2>5. w = packet
    BY <1>1, <2>3, <2>4, SeqEqual
  <2> QED
    BY <2>2, <2>5 DEF w
<1> QED
  BY <1>1, <1>3, <1>6, <1>7

\* The sensor goes on to the next byte, or to the next packet.
LEMMA AdvanceFacts ==
  ASSUME ImuTypes, NEW taken \in BOOLEAN, Advance(taken)
  PROVE  /\ sentOf' \in 0 .. Size - 1 /\ turn' \in Nat \ {0} /\ type' \in Types /\ missed' \in Nat
         /\ missed' >= missed
         /\ \/ sentOf + 1 < Size /\ sentOf' = sentOf + 1 /\ UNCHANGED <<packet, turn, type, missed>>
            \/ /\ sentOf + 1 = Size /\ sentOf' = 0 /\ packet' = <<>>
               /\ turn' = (IF type = Magnetic THEN turn + 1 ELSE turn)
               /\ type' = (IF type = Magnetic THEN 1 ELSE type + 1)
               /\ taken => missed' = missed
               /\ ~taken => missed' = missed + 1
<1>1. /\ Size \in Nat /\ Size >= 3 /\ sentOf \in 0 .. Size - 1 /\ turn \in Nat \ {0}
      /\ type \in 1 .. 4 /\ missed \in Nat
  BY PacketFacts DEF ImuTypes, Types
<1>2. CASE sentOf + 1 < Size
  BY <1>1, <1>2 DEF Advance, Types
<1>3. CASE ~(sentOf + 1 < Size)
  <2>1. /\ sentOf + 1 = Size /\ sentOf' = 0 /\ packet' = <<>>
        /\ turn' = (IF type = Magnetic THEN turn + 1 ELSE turn)
        /\ type' = (IF type = Magnetic THEN 1 ELSE type + 1)
        /\ missed' = IF taken THEN missed ELSE missed + 1
    BY <1>1, <1>3 DEF Advance
  <2> QED
    BY <1>1, <2>1 DEF Types, Magnetic
<1> QED
  BY <1>2, <1>3

\* The debt is none in step, and two at most.
LEMMA DebtFacts ==
  ASSUME ImuTypes
  PROVE  /\ Debt \in {0, 1, 2} /\ (InStep => Debt = 0)
         /\ 0 < Len(buff) /\ Len(buff) < sentOf => Debt = 2
         /\ ~InStep => Debt >= 1
         /\ ~(0 < Len(buff) /\ Len(buff) < sentOf) => Debt <= 1
         /\ Len(buff) \in Nat /\ sentOf \in Nat /\ Size \in Nat /\ Size >= 3
<1>1. Len(buff) \in Nat /\ sentOf \in Nat /\ Size \in Nat /\ Size >= 3
  BY PacketFacts DEF ImuTypes
<1>2. InStep => Len(buff) = sentOf
  BY DEF InStep
<1> QED
  BY <1>1, <1>2 DEF Debt

\* A packet sent to a window that is in step ends in step, and is taken; one
\* sent to a window that is not is the last it misses, or the last but one.
LEMMA DeliverStep ==
  ASSUME ImuInv, Deliver
  PROVE  ImuInv'
<1> DEFINE whole == sentOf = Size - 1 /\ buff = Front(packet)
           taken == whole /\ readings'[type] = turn
           b == packet[sentOf + 1]
<1>1. /\ ImuTypes /\ Sending /\ Budget /\ Untouched /\ ~Idle
      /\ HandleSerialData(b, whole) /\ Advance(taken)
      /\ UNCHANGED <<lost, joined, clean>>
  BY DEF ImuInv, Deliver
<1>2. /\ packet \in Seq(Values) /\ Len(packet) = Size /\ packet[1] = Header
      /\ packet[2] = type /\ CheckSum(packet) /\ b \in Values
      /\ whole <=> InStep /\ sentOf = Size - 1
      /\ InStep /\ sentOf = Size - 1 => Append(buff, b) = packet
  BY <1>1, SendingFacts
<1>3. whole \in BOOLEAN /\ taken \in BOOLEAN
  OBVIOUS
<1>4. buff # <<>> => buff[1] = Header
  BY <1>1 DEF Sending
<1>5. taken => whole
  OBVIOUS
<1>6. whole /\ readings' = [readings EXCEPT ![type] = turn] => taken
  BY <1>1 DEF ImuTypes
<1> HIDE DEF whole, taken, b
<1>7. /\ buff' \in Seq(Values) /\ Len(buff') < Size /\ readings' \in [Types -> Nat]
      /\ buff' # <<>> => buff'[1] = Header
      /\ \/ /\ buff = <<>> /\ b # Header
            /\ buff' = <<>> /\ UNCHANGED <<readings, imuMsg>>
         \/ /\ buff # <<>> \/ b = Header
            /\ Len(buff) + 1 < Size
            /\ Len(buff') = Len(buff) + 1 /\ buff'[Len(buff) + 1] = b
            /\ \A i \in 1 .. Len(buff) : buff'[i] = buff[i]
            /\ UNCHANGED <<readings, imuMsg>>
         \/ /\ Len(buff) + 1 = Size /\ buff' = <<>>
            /\ LET w == Append(buff, b)
               IN /\ w[2] \in Types /\ CheckSum(w) =>
                       /\ readings' = [readings EXCEPT ![w[2]] = IF whole THEN turn ELSE 0]
                       /\ imuMsg' = IF w[2] = Angle THEN readings' ELSE imuMsg
                  /\ ~(w[2] \in Types /\ CheckSum(w)) => UNCHANGED <<readings, imuMsg>>
  BY <1>1, <1>2, <1>3, <1>4, WindowFacts, ZenonT(40)
<1>8. /\ sentOf' \in 0 .. Size - 1 /\ turn' \in Nat \ {0} /\ type' \in Types /\ missed' \in Nat
      /\ missed' >= missed
      /\ \/ sentOf + 1 < Size /\ sentOf' = sentOf + 1 /\ UNCHANGED <<packet, turn, type, missed>>
         \/ /\ sentOf + 1 = Size /\ sentOf' = 0 /\ packet' = <<>>
            /\ turn' = (IF type = Magnetic THEN turn + 1 ELSE turn)
            /\ type' = (IF type = Magnetic THEN 1 ELSE type + 1)
            /\ taken => missed' = missed
            /\ ~taken => missed' = missed + 1
  BY <1>1, <1>3, AdvanceFacts
<1>10. ImuTypes'
  BY <1>1, <1>7, <1>8 DEF ImuTypes
<1>11. Sending'
  <2>1. CASE sentOf + 1 < Size /\ sentOf' = sentOf + 1 /\ UNCHANGED <<packet, turn, type, missed>>
    <3>1. \E p \in Payloads : packet = PacketOf(type, p)
      BY <1>1 DEF Sending
    <3>2. \E p \in Payloads : packet' = PacketOf(type', p)
      BY <2>1, <3>1
    <3>3. packet' # <<>> /\ (clean' => \A i \in 2 .. Size : packet'[i] # Header)
      BY <1>1, <2>1 DEF Sending, Idle
    <3> QED
      BY <1>7, <3>2, <3>3 DEF Sending, Idle
  <2>2. CASE sentOf' = 0 /\ packet' = <<>>
    BY <1>7, <2>2 DEF Sending, Idle
  <2> QED
    BY <1>8, <2>1, <2>2
<1>12. /\ Debt \in {0, 1, 2} /\ (InStep => Debt = 0) /\ (~InStep => Debt >= 1)
       /\ 0 < Len(buff) /\ Len(buff) < sentOf => Debt = 2
       /\ Len(buff) \in Nat /\ sentOf \in Nat /\ Size \in Nat /\ Size >= 3
  BY <1>1, DebtFacts
<1>13. /\ Debt' \in {0, 1, 2} /\ (InStep' => Debt' = 0)
       /\ ~(0 < Len(buff') /\ Len(buff') < sentOf') => Debt' <= 1
  <2>1. InStep' => Len(buff') = sentOf'
    BY DEF InStep
  <2>2. Len(buff') \in Nat /\ sentOf' \in Nat
    BY <1>7, <1>8, <1>12
  <2> QED
    BY <2>1, <2>2 DEF Debt
<1>14. buff = <<>> <=> Len(buff) = 0
  BY <1>1 DEF ImuTypes
<1>15. Len(<<>>) = 0
  OBVIOUS
<1>16. clean /\ sentOf > 0 => b # Header
  <2>1. sentOf > 0 => sentOf + 1 \in 2 .. Size
    BY <1>8, <1>12
  <2> QED
    BY <1>1, <2>1 DEF Sending, b
\* In step, within a packet.
<1>17. ASSUME InStep, sentOf + 1 < Size
       PROVE  InStep' /\ UNCHANGED <<readings, imuMsg>>
  <2>1. Len(buff) = sentOf /\ \A i \in 1 .. sentOf : buff[i] = packet[i]
    BY <1>17 DEF InStep
  <2>2. sentOf = 0 => b = Header
    BY <1>2 DEF b
  <2>3. /\ Len(buff') = Len(buff) + 1 /\ buff'[Len(buff) + 1] = b
        /\ \A i \in 1 .. Len(buff) : buff'[i] = buff[i]
        /\ UNCHANGED <<readings, imuMsg>>
    BY <1>7, <1>12, <1>14, <1>17, <2>1, <2>2
  <2>4. sentOf' = sentOf + 1 /\ packet' = packet
    BY <1>8, <1>12, <1>17
  <2>5. \A i \in 1 .. sentOf + 1 : buff'[i] = packet[i]
    <3>1. buff'[sentOf + 1] = packet[sentOf + 1]
      BY <2>1, <2>3 DEF b
    <3>2. \A i \in 1 .. sentOf + 1 : i \in 1 .. sentOf \/ i = sentOf + 1
      BY <1>12
    <3> QED
      BY <2>1, <2>3, <3>1, <3>2
  <2> QED
    BY <2>1, <2>3, <2>4, <2>5 DEF InStep
\* In step, with the last byte of a packet.
<1>18. ASSUME InStep, sentOf + 1 = Size
       PROVE  /\ InStep' /\ missed' = missed
              /\ readings' = [readings EXCEPT ![type] = turn]
              /\ imuMsg' = IF type = Angle THEN readings' ELSE imuMsg
  <2>1. Len(buff) + 1 = Size /\ sentOf = Size - 1 /\ whole /\ Append(buff, b) = packet
    BY <1>2, <1>12, <1>18 DEF InStep
  <2>2. buff' = <<>> /\ packet[2] \in Types
    BY <1>1, <1>2, <1>7, <1>12, <1>14, <2>1 DEF ImuTypes
  <2>3. /\ readings' = [readings EXCEPT ![type] = turn]
        /\ imuMsg' = IF type = Angle THEN readings' ELSE imuMsg
    BY <1>2, <1>7, <1>12, <1>14, <2>1, <2>2
  <2>4. missed' = missed /\ sentOf' = 0
    BY <1>6, <1>8, <1>12, <1>18, <2>1, <2>3
  <2>5. InStep'
    BY <1>15, <2>2, <2>4 DEF InStep
  <2> QED
    BY <2>3, <2>4, <2>5
\* Out of step.
<1>19. ASSUME ~InStep, clean
       PROVE  /\ missed' + Debt' <= missed + Debt
              /\ Len(buff) < sentOf /\ sentOf + 1 < Size =>
                   Len(buff') < sentOf' /\ UNCHANGED <<readings, imuMsg>>
              /\ sentOf + 1 = Size => missed' = missed + 1
  <2>1. ~taken
    BY <1>2, <1>5, <1>19
  <2>2. sentOf + 1 = Size => missed' = missed + 1 /\ sentOf' = 0
    BY <1>8, <1>12, <2>1
  <2>3. sentOf + 1 < Size => missed' = missed /\ sentOf' = sentOf + 1
    BY <1>8, <1>12
  <2>4. sentOf + 1 = Size \/ sentOf + 1 < Size
    BY <1>8, <1>12
  <2>5. missed \in Nat /\ Debt \in Nat /\ Debt >= 1 /\ Debt' \in Nat
    BY <1>1, <1>12, <1>13, <1>19 DEF ImuTypes
  <2>6. CASE Len(buff) = 0
    <3>1. sentOf > 0
      <4>1. sentOf = 0 => InStep
        BY <2>6 DEF InStep
      <4> QED
        BY <1>12, <1>19, <4>1
    <3>2. buff = <<>> /\ b # Header
      BY <1>14, <1>16, <1>19, <2>6, <3>1
    <3>3. Len(buff') = 0 /\ UNCHANGED <<readings, imuMsg>>
      BY <1>7, <1>12, <1>15, <2>6, <3>2
    <3>4. sentOf + 1 = Size => InStep'
      BY <1>13, <2>2, <3>3 DEF InStep
    <3>5. missed' + Debt' <= missed + Debt
      <4>1. sentOf + 1 < Size => missed' = missed /\ Debt' <= 1
        BY <1>13, <2>3, <3>3
      <4>2. sentOf + 1 = Size => missed' = missed + 1 /\ Debt' = 0
        BY <1>13, <2>2, <3>4
      <4> QED
        BY ONLY <2>4, <2>5, <4>1, <4>2
    <3> QED
      BY <1>12, <2>2, <2>3, <3>3, <3>5
  <2>7. CASE 0 < Len(buff) /\ Len(buff) < sentOf
    <3>1. Len(buff') = Len(buff) + 1 /\ UNCHANGED <<readings, imuMsg>>
      BY <1>7, <1>8, <1>12, <1>14, <2>7
    <3>2. missed' + Debt' <= missed + Debt
      <4>1. Debt = 2 /\ Debt' <= 2
        BY <1>12, <1>13, <2>7
      <4>2. sentOf + 1 = Size => missed' = missed + 1 /\ Debt' <= 1
        BY <1>12, <1>13, <2>2, <3>1
      <4> QED
        BY ONLY <2>3, <2>4, <2>5, <4>1, <4>2
    <3> QED
      BY <1>12, <2>2, <2>3, <2>7, <3>1, <3>2
  <2>8. CASE 0 < Len(buff) /\ Len(buff) >= sentOf
    <3>1. CASE Len(buff) + 1 < Size
      <4>1. Len(buff') = Len(buff) + 1
        BY <1>7, <1>12, <1>14, <2>8, <3>1
      <4>2. missed' + Debt' <= missed + Debt
        <5>1. sentOf + 1 < Size
          BY <1>12, <2>4, <2>8, <3>1
        <5>2. missed' = missed /\ Debt' <= 1
          BY <1>12, <1>13, <2>3, <2>8, <4>1, <5>1
        <5>3. \A m, d, x \in Nat : d >= 1 /\ x <= 1 => m + x <= m + d
          OBVIOUS
        <5>4. missed + Debt' <= missed + Debt
          BY <2>5, <5>2, <5>3
        <5> QED
          BY <5>2, <5>4
      <4> QED
        BY <1>12, <2>2, <2>8, <4>2
    <3>2. CASE Len(buff) + 1 = Size
      <4>1. Len(buff') = 0
        BY <1>7, <1>12, <1>14, <1>15, <2>8, <3>2
      <4>2. sentOf + 1 = Size => InStep'
        BY <1>13, <2>2, <4>1 DEF InStep
      <4>3. missed' + Debt' <= missed + Debt
        <5>1. sentOf + 1 < Size => missed' = missed /\ Debt' <= 1
          BY <1>13, <2>3, <4>1
        <5>2. sentOf + 1 = Size => missed' = missed + 1 /\ Debt' = 0
          BY <1>13, <2>2, <4>2
        <5> QED
          BY ONLY <2>4, <2>5, <5>1, <5>2
      <4> QED
        BY <1>12, <2>2, <2>8, <4>3
    <3> QED
      BY <1>7, <1>12, <1>14, <2>8, <3>1, <3>2
  <2> QED
    BY <1>12, <2>6, <2>7, <2>8
<1>20. sentOf + 1 < Size \/ sentOf + 1 = Size
  BY <1>8, <1>12
<1>21. Budget'
  <2>1. SUFFICES ASSUME clean
                 PROVE  missed' + Debt' <= missed + Debt
    <3>1. missed \in Nat /\ missed' \in Nat /\ lost \in Nat
      BY <1>1, <1>8 DEF ImuTypes
    <3>2. clean => missed' + Debt' <= 2 * lost + (IF joined THEN 1 ELSE 0)
      <4> DEFINE allowed == 2 * lost + (IF joined THEN 1 ELSE 0)
      <4>1. allowed \in Int /\ Debt \in Int /\ Debt' \in Int
        BY <1>12, <1>13, <3>1
      <4>2. clean => missed + Debt <= allowed
        BY <1>1 DEF Budget
      <4> HIDE DEF allowed
      <4>3. \A x, y, z \in Int : x <= y /\ y <= z => x <= z
        OBVIOUS
      <4>4. missed + Debt \in Int /\ missed' + Debt' \in Int
        BY <3>1, <4>1
      <4>5. clean => missed' + Debt' <= allowed
        BY <2>1, <4>1, <4>2, <4>3, <4>4, Zenon
      <4> QED
        BY <4>5 DEF allowed
    <3> QED
      BY <1>1, <3>2 DEF Budget
  <2>2. InStep => missed' = missed /\ Debt' = 0
    BY <1>8, <1>12, <1>13, <1>17, <1>18, <1>20
  <2> QED
    BY <1>1, <1>12, <1>19, <2>1, <2>2 DEF ImuTypes
<1>22. Untouched'
  <2>1. SUFFICES ASSUME clean, missed' = 0
                 PROVE  Untouched'
    BY <1>1 DEF Untouched
  <2>2. missed = 0
    BY <1>1, <1>8, <2>1 DEF ImuTypes
  <2>3. /\ InStep \/ Len(buff) < sentOf
        /\ turn > 1 => /\ \A t \in Types : t < type => readings[t] = turn
                       /\ readings[Magnetic] = turn - 1
        /\ imuMsg # NoMsg /\ imuMsg[Angle] > 1 =>
             /\ imuMsg[Acceleration] = imuMsg[Angle]
             /\ imuMsg[AngularVelocity] = imuMsg[Angle]
             /\ imuMsg[Magnetic] = imuMsg[Angle] - 1
    BY <1>1, <2>1, <2>2 DEF Untouched
  <2>4. CASE sentOf + 1 < Size
    <3>1. UNCHANGED <<turn, type, readings, imuMsg>>
      BY <1>8, <1>12, <1>17, <1>19, <2>1, <2>3, <2>4
    <3>2. InStep' \/ Len(buff') < sentOf'
      BY <1>17, <1>19, <2>1, <2>3, <2>4
    <3> QED
      BY <2>3, <3>1, <3>2 DEF Untouched
  <2>5. CASE sentOf + 1 = Size
    <3>1. InStep
      BY <1>19, <2>1, <2>2, <2>5
    <3>2. /\ InStep' /\ readings' = [readings EXCEPT ![type] = turn]
          /\ imuMsg' = IF type = Angle THEN readings' ELSE imuMsg
      BY <1>18, <2>5, <3>1
    <3>3. /\ turn' = (IF type = Magnetic THEN turn + 1 ELSE turn)
          /\ type' = (IF type = Magnetic THEN 1 ELSE type + 1)
      BY <1>8, <1>12, <2>5
    <3>4. /\ readings \in [Types -> Nat] /\ type \in Types /\ turn \in Nat \ {0}
          /\ Types = 1 .. 4 /\ Magnetic = 4 /\ Angle = 3 /\ Acceleration = 1 /\ AngularVelocity = 2
      BY <1>1 DEF ImuTypes, Types, Magnetic, Angle, Acceleration, AngularVelocity
    <3>5. turn' > 1 => /\ \A t \in Types : t < type' => readings'[t] = turn'
                       /\ readings'[Magnetic] = turn' - 1
      BY ONLY <2>3, <3>2, <3>3, <3>4
    <3>6. imuMsg' # NoMsg /\ imuMsg'[Angle] > 1 =>
             /\ imuMsg'[Acceleration] = imuMsg'[Angle]
             /\ imuMsg'[AngularVelocity] = imuMsg'[Angle]
             /\ imuMsg'[Magnetic] = imuMsg'[Angle] - 1
      <4>1. CASE type = Angle
        BY ONLY <2>3, <3>2, <3>4, <4>1
      <4>2. CASE type # Angle
        BY ONLY <2>3, <3>2, <4>2
      <4> QED
        BY <4>1, <4>2
    <3> QED
      BY <3>2, <3>5, <3>6 DEF Untouched
  <2> QED
    BY <1>20, <2>4, <2>5
<1> QED
  BY <1>10, <1>11, <1>21, <1>22 DEF ImuInv

\* A lost byte costs the packet it is lost from and, if a window stays open, the
\* next one.
LEMMA LoseStep ==
  ASSUME ImuInv, Lose
  PROVE  ImuInv'
<1>1. /\ ImuTypes /\ Sending /\ Budget /\ Untouched /\ ~Idle /\ Advance(FALSE)
      /\ lost' = lost + 1 /\ UNCHANGED <<buff, readings, imuMsg, joined, clean>>
  BY DEF ImuInv, Lose
<1>2. /\ sentOf' \in 0 .. Size - 1 /\ turn' \in Nat \ {0} /\ type' \in Types /\ missed' \in Nat
      /\ missed' >= missed
      /\ \/ sentOf + 1 < Size /\ sentOf' = sentOf + 1 /\ UNCHANGED <<packet, turn, type, missed>>
         \/ sentOf + 1 = Size /\ sentOf' = 0 /\ packet' = <<>> /\ missed' = missed + 1
  BY <1>1, AdvanceFacts
<1>3. ImuTypes'
  BY <1>1, <1>2 DEF ImuTypes
<1>4. Sending'
  <2>1. CASE sentOf + 1 < Size /\ sentOf' = sentOf + 1 /\ UNCHANGED <<packet, turn, type, missed>>
    <3>1. \E p \in Payloads : packet = PacketOf(type, p)
      BY <1>1 DEF Sending
    <3>2. \E p \in Payloads : packet' = PacketOf(type', p)
      BY <2>1, <3>1
    <3>3. packet' # <<>> /\ (clean' => \A i \in 2 .. Size : packet'[i] # Header)
      BY <1>1, <2>1 DEF Sending, Idle
    <3> QED
      BY <1>1, <3>2, <3>3 DEF Sending, Idle
  <2>2. CASE sentOf' = 0 /\ packet' = <<>>
    BY <1>1, <2>2 DEF Sending, Idle
  <2> QED
    BY <1>2, <2>1, <2>2
<1>5. /\ Debt \in {0, 1, 2} /\ (InStep => Debt = 0)
      /\ Len(buff) \in Nat /\ sentOf \in Nat /\ Size \in Nat /\ Size >= 3
  BY <1>1, DebtFacts
<1>6. missed' + Debt' <= missed + 2 /\ Debt' \in Nat
  <2>1. Debt' \in {0, 1, 2} /\ (sentOf' = 0 => Debt' <= 1)
    BY <1>1, <1>5 DEF Debt
  <2>2. missed \in Nat
    BY <1>1 DEF ImuTypes
  <2>3. \/ missed' = missed /\ Debt' <= 2
        \/ missed' = missed + 1 /\ Debt' <= 1
    BY <1>2, <2>1
  <2>4. \A m \in Nat, d \in {0, 1, 2} : /\ m + d <= m + 2
                                      /\ d <= 1 => m + 1 + d <= m + 2
    OBVIOUS
  <2> QED
    BY <2>1, <2>2, <2>3, <2>4
<1>7. Budget'
  <2> DEFINE extra == IF joined THEN 1 ELSE 0
  <2>1. /\ missed \in Nat /\ missed' \in Nat /\ lost \in Nat /\ extra \in Nat /\ Debt \in Nat
    BY <1>1, <1>2, <1>5 DEF ImuTypes
  <2>2. clean => missed + Debt <= 2 * lost + extra
    BY <1>1 DEF Budget
  <2> HIDE DEF extra
  <2>3. clean => missed <= 2 * lost + extra
    BY ONLY <2>1, <2>2
  <2>4. clean => missed' + Debt' <= 2 * (lost + 1) + extra
    <3>1. \A m, l, x, y \in Int : m <= 2 * l + x /\ y <= m + 2 => y <= 2 * (l + 1) + x
      OBVIOUS
    <3>2. missed' + Debt' \in Int /\ missed \in Int /\ lost \in Int /\ extra \in Int
      BY <1>6, <2>1
    <3> QED
      BY <1>6, <2>3, <3>1, <3>2, Zenon
  <2> QED
    BY <1>1, <2>4 DEF Budget, extra
<1>8. Untouched'
  <2>1. SUFFICES ASSUME clean, missed' = 0
                 PROVE  Untouched'
    BY <1>1 DEF Untouched
  <2>2. missed = 0
    BY <1>1, <1>2, <2>1 DEF ImuTypes
  <2>3. sentOf' = sentOf + 1 /\ UNCHANGED <<turn, type>>
    BY <1>2, <2>1, <2>2
  <2>4. InStep \/ Len(buff) < sentOf
    BY <1>1, <2>1, <2>2 DEF Untouched
  <2>5. Len(buff') < sentOf'
    BY <1>1, <1>5, <2>3, <2>4 DEF InStep
  <2> QED
    BY <1>1, <2>1, <2>2, <2>3, <2>5 DEF Untouched
<1> QED
  BY <1>3, <1>4, <1>7, <1>8 DEF ImuInv

\* A packet begins with the window as it is: empty, when it is in step.
LEMMA BeginStep ==
  ASSUME ImuInv, NEW p \in Payloads, BeginPacket(p)
  PROVE  ImuInv'
<1>1. /\ ImuTypes /\ Sending /\ Budget /\ Untouched /\ sentOf = 0
      /\ packet' = PacketOf(type, p) /\ sentOf' = 0
      /\ clean' = (clean /\ \A i \in 2 .. Size : packet'[i] # Header)
      /\ UNCHANGED <<buff, readings, imuMsg, turn, type, lost, joined, missed>>
  BY DEF ImuInv, BeginPacket, Sending
<1>2. /\ Size \in Nat /\ Size >= 3 /\ packet' \in Seq(Values) /\ Len(packet') = Size
  BY <1>1, PacketFacts DEF ImuTypes
<1>3. clean' \in BOOLEAN /\ (clean' => clean) /\ (clean' => \A i \in 2 .. Size : packet'[i] # Header)
  BY <1>1
<1>4. ImuTypes'
  BY <1>1, <1>2, <1>3 DEF ImuTypes
<1>5. packet' # <<>>
  BY <1>2
<1>6. Sending'
  BY <1>1, <1>3, <1>5 DEF Sending, Idle
<1>7. InStep' <=> InStep
  BY <1>1 DEF InStep
<1>8. Debt' = Debt
  BY <1>1, <1>7 DEF Debt
<1>9. Budget' /\ Untouched'
  BY <1>1, <1>3, <1>7, <1>8 DEF Budget, Untouched
<1> QED
  BY <1>4, <1>6, <1>9 DEF ImuInv

\* The invariant of the IMU node.
LEMMA ImuInductive ==
  /\ ImuInit => ImuInv
  /\ ImuInv /\ [ImuNext]_imuVars => ImuInv'
<1>1. ImuInit => ImuInv
  <2> SUFFICES ASSUME ImuInit
               PROVE  ImuInv
    OBVIOUS
  <2>1. /\ buff = <<>> /\ imuMsg = NoMsg /\ lost = 0 /\ readings = [t \in Types |-> 0]
        /\ turn = 1 /\ type \in Types /\ missed = 0
    BY DEF ImuInit
  <2>2. PICK p \in Payloads : \E n \in 0 .. Size - 1 :
          /\ packet = (IF n = 0 THEN <<>> ELSE PacketOf(type, p))
          /\ sentOf = n
          /\ joined = (n > 0)
          /\ clean = (n = 0 \/ \A i \in 2 .. Size : PacketOf(type, p)[i] # Header)
    BY DEF ImuInit
  <2>3. /\ packet = (IF sentOf = 0 THEN <<>> ELSE PacketOf(type, p))
        /\ sentOf \in 0 .. Size - 1
        /\ joined = (sentOf > 0)
        /\ clean = (sentOf = 0 \/ \A i \in 2 .. Size : PacketOf(type, p)[i] # Header)
    BY <2>2
  <2>4. Size \in Nat /\ Size >= 3 /\ PacketOf(type, p) # <<>>
    <3>1. Size \in Nat /\ Size >= 3 /\ Len(PacketOf(type, p)) = Size
      BY <2>1, PacketFacts
    <3> QED
      BY <3>1
  <2>5. Len(buff) = 0 /\ buff \in Seq(Values)
    BY <2>1
  <2>6. joined \in BOOLEAN /\ clean \in BOOLEAN /\ (sentOf > 0 => joined)
    <3> DEFINE begun == sentOf > 0
               unlike == sentOf = 0 \/ \A i \in 2 .. Size : PacketOf(type, p)[i] # Header
    <3>1. begun \in BOOLEAN /\ unlike \in BOOLEAN
      OBVIOUS
    <3>2. joined = begun /\ clean = unlike
      BY <2>3
    <3> HIDE DEF begun, unlike
    <3>3. joined \in BOOLEAN /\ clean \in BOOLEAN /\ (begun => joined)
      BY ONLY <3>1, <3>2, Zenon
    <3> QED
      BY <3>3 DEF begun
  <2>7. ImuTypes
    BY <2>1, <2>3, <2>4, <2>5, <2>6 DEF ImuTypes
  <2>8. Sending
    BY <2>1, <2>3, <2>4 DEF Sending, Idle
  <2>9. Debt <= (IF joined THEN 1 ELSE 0) /\ Debt \in Nat
    <3>1. Debt = IF InStep THEN 0 ELSE 1
      BY <2>5 DEF Debt
    <3>2. sentOf = 0 => InStep
      BY <2>5 DEF InStep
    <3> QED
      BY <2>3, <2>4, <2>6, <3>1, <3>2
  <2>10. Budget
    BY <2>1, <2>9 DEF Budget
  <2>11. InStep \/ Len(buff) < sentOf
    BY <2>3, <2>4, <2>5 DEF InStep
  <2>12. Untouched
    BY <2>1, <2>11 DEF Untouched
  <2> QED
    BY <2>7, <2>8, <2>10, <2>12 DEF ImuInv
<1>2. ASSUME ImuInv, Disconnected \/ UNCHANGED imuVars
      PROVE  ImuInv'
  <2>1. UNCHANGED <<buff, readings, imuMsg, packet, sentOf, turn, type, lost, joined, clean, missed>>
    BY <1>2 DEF Disconnected, imuVars
  <2>2. InStep' <=> InStep
    BY <2>1 DEF InStep
  <2>3. Debt' = Debt
    BY <2>1, <2>2 DEF Debt
  <2>4. ImuTypes'
    BY <1>2, <2>1 DEF ImuInv, ImuTypes
  <2>5. Sending'
    BY <1>2, <2>1 DEF ImuInv, Sending, Idle
  <2>6. Budget' /\ Untouched'
    BY <1>2, <2>1, <2>2, <2>3 DEF ImuInv, Budget, Untouched
  <2> QED
    BY <2>4, <2>5, <2>6 DEF ImuInv
<1>3. ImuInv /\ [ImuNext]_imuVars => ImuInv'
  BY <1>2, BeginStep, DeliverStep, LoseStep DEF ImuNext
<1> QED
  BY <1>1, <1>3

\* The search for packets of the IMU node falls into step again: as long as no
\* byte but the headers looks like one, n lost bytes cost it at most 2 n packets,
\* and joining within a packet that one; and a message mixes turns only when a
\* packet was missed.  For every sum that may be the check byte, every length of
\* payload and any number of lost bytes.
THEOREM LossIsBounded == Spec => []LossCostsTwoPackets
<1>1. ImuInv => LossCostsTwoPackets
  <2> SUFFICES ASSUME ImuInv, clean
               PROVE  /\ missed <= 2 * lost + (IF joined THEN 1 ELSE 0)
                      /\ imuMsg # NoMsg /\ missed = 0 /\ imuMsg[Angle] > 1 =>
                           /\ imuMsg[Acceleration] = imuMsg[Angle]
                           /\ imuMsg[AngularVelocity] = imuMsg[Angle]
                           /\ imuMsg[Magnetic] = imuMsg[Angle] - 1
    BY DEF LossCostsTwoPackets
  <2> DEFINE allowed == 2 * lost + (IF joined THEN 1 ELSE 0)
  <2>1. ImuTypes /\ Budget /\ Untouched
    BY DEF ImuInv
  <2>2. Debt \in Nat /\ missed \in Nat /\ lost \in Nat
    BY <2>1, DebtFacts DEF ImuTypes
  <2>3. allowed \in Int /\ missed + Debt <= allowed
    BY <2>1, <2>2 DEF Budget
  <2> HIDE DEF allowed
  <2>4. missed <= allowed
    BY ONLY <2>2, <2>3
  <2> QED
    BY <2>1, <2>4 DEF Untouched, allowed
<1> QED
  BY ImuInductive, <1>1, PartsOfInit, PartsOfNext, PTL DEF Spec

\* The IMU node keeps to the bounds.
LEMMA ImuBoundsInductive ==
  /\ ImuInit => ImuBounds
  /\ ImuInv /\ ImuBounds /\ [ImuNext]_imuVars => ImuBounds'
<1>1. MaxTurn \in Nat \ {0} /\ MaxLost \in Nat
  BY ImuAssumption
<1>2. ImuInit => ImuBounds
  BY <1>1 DEF ImuInit, ImuBounds, Turns
<1>3. ASSUME ImuInv, ImuBounds, NEW p \in Payloads, BeginPacket(p)
      PROVE  ImuBounds'
  BY <1>3 DEF BeginPacket, ImuBounds
<1>4. ASSUME ImuInv, ImuBounds, NEW taken, Advance(taken), ~Idle
      PROVE  turn' <= MaxTurn + 1 /\ (~Idle' => turn' <= MaxTurn)
  <2>1. turn \in Nat /\ turn <= MaxTurn
    BY <1>4 DEF ImuInv, ImuTypes, ImuBounds
  <2>2. CASE sentOf + 1 < Size
    BY <1>1, <1>4, <2>1, <2>2 DEF Advance
  <2>3. CASE ~(sentOf + 1 < Size)
    BY <1>1, <1>4, <2>1, <2>3 DEF Advance, Idle
  <2> QED
    BY <2>2, <2>3
<1>5. ASSUME ImuInv, ImuBounds, Deliver
      PROVE  ImuBounds'
  <2> DEFINE whole == sentOf = Size - 1 /\ buff = Front(packet)
             w == Append(buff, packet[sentOf + 1])
             reading == [readings EXCEPT ![w[2]] = IF whole THEN turn ELSE 0]
             accepted == w[1] = Header /\ Len(w) = Size /\ w[2] \in Types /\ CheckSum(w)
  <2>1. /\ ~Idle /\ UNCHANGED <<imuPc, lost>> /\ Advance(whole /\ readings'[type] = turn)
        /\ readings' = (IF accepted THEN reading ELSE readings)
        /\ imuMsg' = (IF accepted /\ w[2] = Angle THEN readings' ELSE imuMsg)
    BY <1>5 DEF Deliver, HandleSerialData
  <2>2. (IF whole THEN turn ELSE 0) \in Turns
    BY <1>1, <1>5, <2>1 DEF ImuInv, ImuTypes, ImuBounds, Turns
  <2>3. readings' \in [Types -> Turns]
    BY <1>5, <2>1, <2>2 DEF ImuBounds
  <2> HIDE DEF w, accepted, reading
  <2>4. imuMsg' = NoMsg \/ imuMsg' \in [Types -> Turns]
    BY <1>5, <2>1, <2>3 DEF ImuBounds
  <2>5. turn' <= MaxTurn + 1 /\ (~Idle' => turn' <= MaxTurn)
    BY <1>4, <1>5, <2>1
  <2> QED
    BY <1>5, <2>1, <2>3, <2>4, <2>5 DEF ImuBounds
<1>6. ASSUME ImuInv, ImuBounds, Lose
      PROVE  ImuBounds'
  <2>1. ~Idle /\ Advance(FALSE) /\ lost' = lost + 1 /\ lost < MaxLost /\ lost \in Nat
        /\ UNCHANGED <<imuPc, readings, imuMsg>>
    BY <1>6 DEF Lose, ImuInv, ImuTypes
  <2>2. turn' <= MaxTurn + 1 /\ (~Idle' => turn' <= MaxTurn)
    BY <1>4, <1>6, <2>1
  <2> QED
    BY <1>1, <1>6, <2>1, <2>2 DEF ImuBounds
<1>7. ASSUME ImuBounds, Disconnected \/ UNCHANGED imuVars
      PROVE  ImuBounds'
  BY <1>7 DEF Disconnected, imuVars, ImuBounds, Idle
<1> QED
  BY <1>2, <1>3, <1>5, <1>6, <1>7 DEF ImuNext

\* The types of the IMU node follow from the invariant and the bounds.
LEMMA ImuTyped == ImuInv /\ ImuBounds => ImuTypeOK
BY ImuAssumption, SMTT(30) DEF ImuInv, ImuTypes, ImuBounds, ImuTypeOK, Turns, Values

-----------------------------------------------------------------------------
\* Every variable of the four parts keeps its type, and the bounds hold.
THEOREM NodesTyped == Spec => []NodesTypeOK
<1> DEFINE Inv == /\ InitInfoTypeOK /\ NodeInv
                  /\ LgvInv /\ LgvTypeOK
                  /\ ImuInv /\ ImuBounds
<1>1. Init => Inv
  BY PartsOfInit, InfoTyped, NodeInductive, LgvInductive, LgvTyped, ImuInductive,
     ImuBoundsInductive
<1>2. Inv /\ [Next]_vars => Inv'
  BY PartsOfNext, InfoTyped, NodeInductive, LgvInductive, LgvTyped, ImuInductive,
     ImuBoundsInductive
<1>3. Inv => NodesTypeOK
  BY ImuTyped DEF NodesTypeOK, NodeInv
<1> HIDE DEF Inv
<1> QED
  BY <1>1, <1>2, <1>3, PTL DEF Spec

=============================================================================
