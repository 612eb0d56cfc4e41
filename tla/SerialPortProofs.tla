--------------------------- MODULE SerialPortProofs ---------------------------
(***************************************************************************)
(* Theorems about SerialPort, for every set of threads, of operations they *)
(* use, of names and of settings, and every bound.                         *)
(*                                                                         *)
(* The invariant has a part for each owner of the state: where a thread    *)
(* may be in which call (Places), which locks it holds there (Held), what  *)
(* the owner's progress makes of the descriptors (Descriptors) and of the  *)
(* line (Settings).                                                        *)
(***************************************************************************)
EXTENDS SerialPort, WellFoundedInduction, TLAPS

OwnersOps    == {"open", "close", "setPort"}
ReadLockers  == Reads \union {"flushInput", "setPort", "flush"}
WriteLockers == {"write", "flushOutput", "setPort", "flush"}
MaxSize      == SizeMax - 1
BeforeLocks  == {"idle", "rlock", "wlock"}

\* The labels at which the owner may change the descriptors.
Opening  == {"openfd", "configure", "opened", "closefd", "forget", "moved", "reopen"}

Lines == [speed : Baudrates \union {9600, 38400}, data : 5..8,
          parity : SUBSET {"PARENB", "PARODD", "CMSPAR"}, stop : {1, 2}, flow : Flows,
          termios2 : BOOLEAN]
Outputs == [unsent : BOOLEAN, held : BOOLEAN]
CallRecords == [op : {"none"} \union UNION {Calls[u] : u \in Threads},
                n : 0..MaxSize, got : 0..SizeMax, fd : 1..MaxFd \union {NoFd},
                left : 0..WaitTime, port : Ports, wasOpen : BOOLEAN]

\* Thread t may be at l of operation op.
Place(t, l, op) ==
  /\ op \in OwnersOps => t = Owner
  /\ l \in {"openfd", "configure", "opened"} => op \in {"open", "setPort"}
  /\ l \in {"closefd", "forget"} => op \in {"close", "setPort"}
  /\ l \in {"moved", "reopen"} => op = "setPort"
  /\ l = "sys" => op \in Transfers
  /\ l = "unlock" => op \in Reads
  /\ l \in {"fdset", "loop", "select", "ready"} => op = "waitfordata"
  /\ l = "drain" => op = "flush"
  /\ l = "miwait" => op = "waitForChange"
  /\ l = "rlock" => op \in ReadLockers
  /\ l = "wlock" => op \in WriteLockers

Places == /\ call \in [Threads -> CallRecords]
          /\ \A t \in Threads : Place(t, pc[t], call[t].op)

\* The locks a thread holds at l of op.
HasRead(l, op)  == op \in ReadLockers /\ l \notin {"idle", "rlock"}
HasWrite(l, op) == op \in WriteLockers /\ l \notin BeforeLocks

Held == \A t \in Threads : /\ rmutex = t <=> HasRead(pc[t], call[t].op)
                           /\ wmutex = t <=> HasWrite(pc[t], call[t].op)

Closed == ~impl.isOpen /\ fds = {} /\ impl.fd = NoFd
OpenOn == fds = {impl.fd} /\ impl.fd # NoFd

\* What the owner's progress makes of the descriptors.
Descriptors ==
  /\ pc[Owner] \notin Opening => Closed \/ (impl.isOpen /\ OpenOn)
  /\ pc[Owner] \in {"openfd", "moved", "reopen"} => Closed
  /\ pc[Owner] \in {"configure", "opened"} => ~impl.isOpen /\ OpenOn
  /\ pc[Owner] = "closefd" => Closed \/ (~impl.isOpen /\ OpenOn)
  /\ pc[Owner] = "forget" => ~impl.isOpen /\ fds = {}

\* The speed v of a line is the rate b, or 38400 for a custom rate that its
\* driver did not take.
RateInForce(v, b, termios2, f) ==
  v = b \/ (~IsStandardBaudrate(b) /\ v = 38400 /\ (termios2 => f > 0))
ParityInForce(flags, p) ==
  ParityOf(flags) = p \/ (p \in {"even", "odd"} /\ "CMSPAR" \in flags)

InForce(line, c, f) ==
  /\ RateInForce(line.speed, c.baudrate, line.termios2, f)
  /\ line.data = c.bytesize
  /\ line.stop = c.stopbits \/ (c.stopbits = OnePointFive /\ line.stop = 1)
  /\ line.flow = c.flowcontrol /\ ParityInForce(line.parity, c.parity)

Settings ==
  /\ tty \in Lines
  /\ pc[Owner] = "opened" \/ (impl.isOpen /\ ~unapplied) => InForce(tty, cfg, faults)

IInv == TypeOK /\ Places /\ Held /\ Descriptors /\ Settings

-----------------------------------------------------------------------------
\* The least number of a set of naturals exists.
LEMMA LeastExists ==
  ASSUME NEW S \in SUBSET Nat, S # {}
  PROVE  Min(S) \in S /\ \A m \in S : Min(S) <= m
<1> DEFINE R == OpToRel(<, Nat)
<1>1. IsWellFoundedOn(R, Nat)
  BY NatLessThanWellFounded
<1>2. \A a, b \in Nat : a < b => <<a, b>> \in R
  BY DEF OpToRel
<1> HIDE DEF R
<1>3. PICK x \in S : \A y \in S : ~(<<y, x>> \in R)
  BY <1>1, WFMin, Zenon
<1>4. \A m \in S : m \in Nat /\ x \in Nat /\ ~(m < x)
  BY <1>2, <1>3, Zenon
<1>5. \E n \in S : \A m \in S : n <= m
  BY <1>4
<1> QED
  BY <1>5, Zenon DEF Min

\* The sizes asked for are below the number that stands for (size_t)-1.
LEMMA SizeFacts ==
  /\ MaxSize \in Nat /\ SizeMax \in Nat /\ SizeMax > MaxSize
  /\ \A op \in Sized : Sizes[op] \subseteq 0..MaxSize
BY SerialAssumption, SizesAssumption, SMTT(30) DEF MaxSize

\* Which locks an operation takes, and in which order: the read lock first.
LEMMA PathFacts ==
  ASSUME NEW op
  PROVE  /\ Path(op)[1] = IF op \in ReadLockers THEN "rlock"
                          ELSE IF op \in WriteLockers THEN "wlock" ELSE "body"
         /\ op \in ReadLockers =>
              After(op, "rlock") = IF op \in WriteLockers THEN "wlock" ELSE "body"
         /\ op \in WriteLockers => After(op, "wlock") = "body"
<1> USE DEF ReadLockers, WriteLockers, Reads
<1>1. CASE op \in Reads \union {"flushInput"}
  <2>1. Path(op) = <<"rlock", "body">>
    BY <1>1 DEF Path
  <2> QED
    BY <1>1, <2>1 DEF After
<1>2. CASE op \in {"write", "flushOutput"}
  <2>1. Path(op) = <<"wlock", "body">>
    BY <1>2 DEF Path
  <2> QED
    BY <1>2, <2>1 DEF After
<1>3. CASE op \in {"setPort", "flush"}
  <2>1. Path(op) = <<"rlock", "wlock", "body">>
    BY <1>3 DEF Path
  <2>2. /\ \A i \in 2..Len(Path(op)) : Path(op)[i - 1] = "rlock" <=> i = 2
        /\ \A i \in 2..Len(Path(op)) : Path(op)[i - 1] = "wlock" <=> i = 3
        /\ 2 \in 2..Len(Path(op)) /\ 3 \in 2..Len(Path(op))
        /\ Path(op)[1] = "rlock" /\ Path(op)[2] = "wlock" /\ Path(op)[3] = "body"
    BY <2>1
  <2>3. After(op, "rlock") = "wlock" /\ After(op, "wlock") = "body"
    BY <2>2 DEF After
  <2> QED
    BY <1>3, <2>2, <2>3
<1>4. CASE op \notin ReadLockers \union WriteLockers
  <2>1. Path(op) = <<"body">>
    BY <1>4 DEF Path
  <2> QED
    BY <1>4, <2>1
<1> QED
  BY <1>1, <1>2, <1>3, <1>4

-----------------------------------------------------------------------------
\* A thread goes on in its call, or leaves it.
GoesOn(t, l) ==
  /\ Goto(t, l) /\ UNCHANGED Locks
  /\ call' \in [Threads -> CallRecords]
  /\ call'[t].op = call[t].op /\ \A u \in Threads \ {t} : call'[u] = call[u]

\* The types of what belongs to the threads.
ThreadTypes ==
  /\ {rmutex, wmutex} \subseteq Threads \union {NoThread}
  /\ pc \in [Threads -> Labels]

\* The end of a call is either.
LEMMA ReturnFacts ==
  ASSUME Places, NEW t \in Threads, NEW got, Return(t, got),
         call[t].op \in Reads => got \in 0..SizeMax
  PROVE  Leave(t) \/ (call[t].op \in Reads /\ GoesOn(t, "unlock"))
<1>1. CASE call[t].op \notin Reads
  BY <1>1 DEF Return
<1>2. CASE call[t].op \in Reads
  <2>1. /\ Goto(t, "unlock") /\ UNCHANGED Locks
        /\ call' = [call EXCEPT ![t].got = got]
    BY <1>2 DEF Return
  <2>2. call \in [Threads -> CallRecords] /\ got \in 0..SizeMax
    BY <1>2 DEF Places
  <2>3. [call[t] EXCEPT !.got = got] \in CallRecords
    BY <2>2 DEF CallRecords
  <2>4. /\ call' \in [Threads -> CallRecords]
        /\ call'[t].op = call[t].op /\ \A u \in Threads \ {t} : call'[u] = call[u]
    BY <2>1, <2>2, <2>3 DEF CallRecords
  <2> QED
    BY <1>2, <2>1, <2>4 DEF GoesOn
<1> QED
  BY <1>1, <1>2

\* Both keep the threads in their places, and the locks with their holders.
LEMMA Moves ==
  ASSUME ThreadTypes, Places, Held, NEW t \in Threads, pc[t] \notin BeforeLocks,
         NEW l \in Labels \ BeforeLocks,
         Leave(t) \/ (Place(t, l, call[t].op) /\ GoesOn(t, l))
  PROVE  /\ ThreadTypes' /\ Places' /\ Held'
         /\ pc'[t] \in {"idle", l} /\ \A u \in Threads \ {t} : pc'[u] = pc[u]
<1>1. pc \in [Threads -> Labels] /\ call \in [Threads -> CallRecords]
  BY DEF ThreadTypes, Places
<1>2. CASE Leave(t)
  <2>1. NoCall \in CallRecords /\ NoCall.op = "none"
    BY SerialAssumption, SizeFacts DEF NoCall, CallRecords
  <2>2. /\ pc' \in [Threads -> Labels] /\ pc'[t] = "idle"
        /\ \A u \in Threads \ {t} : pc'[u] = pc[u]
    BY <1>1, <1>2 DEF Leave, Goto, Labels
  <2>3. /\ call' \in [Threads -> CallRecords] /\ call'[t].op = "none"
        /\ \A u \in Threads \ {t} : call'[u] = call[u]
    BY <1>1, <1>2, <2>1 DEF Leave
  <2>4. /\ rmutex' = IF rmutex = t THEN NoThread ELSE rmutex
        /\ wmutex' = IF wmutex = t THEN NoThread ELSE wmutex
    BY <1>2 DEF Leave
  <2>5. ThreadTypes'
    BY <2>2, <2>4 DEF ThreadTypes
  <2>6. Places'
    BY <2>2, <2>3 DEF Places, Place, OwnersOps
  <2>7. Held'
    <3> SUFFICES ASSUME NEW u \in Threads
                 PROVE  /\ (rmutex' = u) <=> HasRead(pc'[u], call'[u].op)
                        /\ (wmutex' = u) <=> HasWrite(pc'[u], call'[u].op)
      BY DEF Held
    <3>1. u # NoThread
      BY SerialAssumption DEF NoThread
    <3>2. CASE u = t
      BY <2>2, <2>4, <3>1, <3>2 DEF HasRead, HasWrite, BeforeLocks
    <3>3. CASE u # t
      BY <2>2, <2>3, <2>4, <3>1, <3>3 DEF Held
    <3> QED
      BY <3>2, <3>3
  <2> QED
    BY <2>2, <2>5, <2>6, <2>7
<1>3. CASE Place(t, l, call[t].op) /\ GoesOn(t, l)
  <2>1. /\ pc' \in [Threads -> Labels] /\ pc'[t] = l
        /\ \A u \in Threads \ {t} : pc'[u] = pc[u]
    BY <1>1, <1>3 DEF GoesOn, Goto
  <2>2. /\ call' \in [Threads -> CallRecords] /\ call'[t].op = call[t].op
        /\ \A u \in Threads \ {t} : call'[u] = call[u]
        /\ rmutex' = rmutex /\ wmutex' = wmutex
    BY <1>3 DEF GoesOn, Locks
  <2>3. ThreadTypes'
    BY <2>1, <2>2 DEF ThreadTypes
  <2>4. Places'
    BY <1>3, <2>1, <2>2 DEF Places
  <2>5. Held'
    BY <2>1, <2>2 DEF Held, HasRead, HasWrite, BeforeLocks
  <2> QED
    BY <2>1, <2>3, <2>4, <2>5
<1> QED
  BY <1>2, <1>3

-----------------------------------------------------------------------------
\* Types of the port's fields and of the environment.
PortTypes ==
  /\ impl \in [port : Ports, isOpen : BOOLEAN, fd : 1..MaxFd \union {NoFd}]
  /\ cfg \in [baudrate : Baudrates, bytesize : Bytesizes, parity : Parities,
              stopbits : Stopbits, flowcontrol : Flows]
  /\ fds \subseteq 1..MaxFd /\ pending \in 0..MaxPending
  /\ faults \in 0..MaxFaults /\ unapplied \in BOOLEAN /\ output \in Outputs

\* TypeOK, in the parts the steps preserve each in its own way.
LEMMA Parts ==
  /\ IInv => ThreadTypes /\ PortTypes /\ Places /\ Held /\ Descriptors /\ Settings
  /\ ThreadTypes' /\ PortTypes' /\ Places' /\ Held' /\ Descriptors' /\ Settings' => IInv'
<1>1. IInv => ThreadTypes /\ PortTypes /\ Places /\ Held /\ Descriptors /\ Settings
  BY DEF IInv, TypeOK, ThreadTypes, PortTypes, Outputs
<1>2. ASSUME ThreadTypes', PortTypes', Places', Settings' PROVE TypeOK'
  <2>1. \A t \in Threads : call'[t].got \in 0..SizeMax /\ call'[t].left \in 0..WaitTime
    BY <1>2 DEF Places, CallRecords
  <2>2. tty'.parity \subseteq {"PARENB", "PARODD", "CMSPAR"} /\ tty'.termios2 \in BOOLEAN
    BY <1>2 DEF Settings, Lines
  <2> QED
    BY <1>2, <2>1, <2>2 DEF TypeOK, ThreadTypes, PortTypes, Outputs
<1> QED
  BY <1>1, <1>2 DEF IInv

\* A setting in force stays so when more system calls fail.
LEMMA InForceStays ==
  ASSUME NEW line, NEW c, NEW f \in Nat, NEW g \in Nat, f <= g, InForce(line, c, f)
  PROVE  InForce(line, c, g)
<1>1. (line.termios2 => f > 0) => (line.termios2 => g > 0)
  OBVIOUS
<1> QED
  BY <1>1 DEF InForce, RateInForce

\* The port is left alone, but for the output queue.
PortStays == UNCHANGED Device /\ output' \in Outputs

\* Steps that leave the port alone while the owner is where it was, or neither
\* comes to open or close it nor was about to.
LEMMA PortKept ==
  ASSUME IInv, UNCHANGED Port \/ PortStays, faults' \in faults..MaxFaults,
         pc'[Owner] = pc[Owner] \/ {pc[Owner], pc'[Owner]} \cap Opening = {}
  PROVE  Descriptors' /\ Settings'
<1>1. impl' = impl /\ cfg' = cfg /\ tty' = tty /\ fds' = fds /\ (unapplied' <=> unapplied)
  BY DEF Port, PortStays, Device
<1>2. Descriptors'
  BY <1>1 DEF IInv, Descriptors, Closed, OpenOn, Opening
<1>3. pc'[Owner] = "opened" \/ (impl'.isOpen /\ ~unapplied') => InForce(tty, cfg, faults)
  BY <1>1 DEF IInv, Settings, Opening
<1>4. faults \in Nat /\ faults' \in Nat /\ faults <= faults'
  BY SerialAssumption DEF IInv, TypeOK
<1>5. pc'[Owner] = "opened" \/ (impl'.isOpen /\ ~unapplied') => InForce(tty', cfg', faults')
  BY <1>1, <1>3, <1>4, InForceStays
<1> QED
  BY <1>1, <1>2, <1>5 DEF IInv, Settings

\* The same with the threads' part: transfers, flushes, waits, modem lines.
LEMMA QuietStep ==
  ASSUME IInv, NEW t \in Threads, pc[t] \notin BeforeLocks \union Opening,
         UNCHANGED Port \/ PortStays,
         pending' \in 0..MaxPending, faults' \in faults..MaxFaults,
         NEW l \in Labels \ (BeforeLocks \union Opening),
         Leave(t) \/ (Place(t, l, call[t].op) /\ GoesOn(t, l))
  PROVE  IInv'
<1>1. ThreadTypes /\ PortTypes /\ Places /\ Held
  BY Parts
<1>2. /\ ThreadTypes' /\ Places' /\ Held'
      /\ pc'[t] \in {"idle", l} /\ \A u \in Threads \ {t} : pc'[u] = pc[u]
  BY <1>1, Moves
<1>3. Descriptors' /\ Settings'
  BY <1>2, PortKept, SerialAssumption DEF Opening, BeforeLocks
<1>4. PortTypes'
  <2>1. /\ impl' = impl /\ cfg' = cfg /\ fds' = fds /\ unapplied' = unapplied
        /\ output' = output \/ output' \in Outputs
    BY DEF Port, PortStays, Device
  <2>2. faults' \in 0..MaxFaults
    BY <1>1, SerialAssumption DEF PortTypes
  <2>3. output' \in Outputs
    BY <1>1, <2>1 DEF PortTypes
  <2> QED
    BY <1>1, <2>1, <2>2, <2>3 DEF PortTypes
<1> QED
  BY <1>2, <1>3, <1>4, Parts

\* A quiet step that ends the call.
LEMMA QuietReturn ==
  ASSUME IInv, NEW t \in Threads, pc[t] \notin BeforeLocks \union Opening,
         UNCHANGED Port \/ PortStays,
         pending' \in 0..MaxPending, faults' \in faults..MaxFaults,
         NEW got, Return(t, got), call[t].op \in Reads => got \in 0..SizeMax
  PROVE  IInv'
<1>1. Leave(t) \/ (call[t].op \in Reads /\ GoesOn(t, "unlock"))
  BY Parts, ReturnFacts
<1>2. call[t].op \in Reads => Place(t, "unlock", call[t].op)
  BY Parts DEF Place, OwnersOps, Reads
<1>3. "unlock" \in Labels \ (BeforeLocks \union Opening)
  BY DEF Labels, BeforeLocks, Opening
<1> QED
  BY <1>1, <1>2, <1>3, QuietStep

\* A quiet step to another place in the call.
LEMMA QuietGoto ==
  ASSUME IInv, NEW t \in Threads, pc[t] \notin BeforeLocks \union Opening,
         UNCHANGED Port \/ PortStays,
         pending' \in 0..MaxPending, faults' \in faults..MaxFaults,
         NEW l \in Labels \ (BeforeLocks \union Opening), Place(t, l, call[t].op),
         Goto(t, l), UNCHANGED Locks,
         call' = call \/ \E c \in CallRecords :
                            c.op = call[t].op /\ call' = [call EXCEPT ![t] = c]
  PROVE  IInv'
<1>1. call \in [Threads -> CallRecords]
  BY Parts DEF Places
<1>2. /\ call' \in [Threads -> CallRecords]
      /\ call'[t].op = call[t].op /\ \A u \in Threads \ {t} : call'[u] = call[u]
  BY <1>1
<1>3. GoesOn(t, l)
  BY <1>2 DEF GoesOn
<1> QED
  BY <1>3, QuietStep

-----------------------------------------------------------------------------
\* What a step of a thread in its call may use.
LEMMA ThreadFacts ==
  ASSUME IInv, NEW t \in Threads
  PROVE  /\ call[t] \in CallRecords /\ pc[t] \in Labels /\ Place(t, pc[t], call[t].op)
         /\ call[t].got \in 0..SizeMax /\ call[t].n \in 0..MaxSize
         /\ call[t].left \in 0..WaitTime /\ pending \in 0..MaxPending
         /\ faults \in 0..MaxFaults /\ impl.fd \in 1..MaxFd \union {NoFd}
         /\ faults \in faults..MaxFaults
         /\ \A got \in 0..SizeMax : [call[t] EXCEPT !.got = got] \in CallRecords
         /\ \A fd \in 1..MaxFd \union {NoFd} : [call[t] EXCEPT !.fd = fd] \in CallRecords
         /\ call[t].left > 0 => [call[t] EXCEPT !.left = @ - 1] \in CallRecords
<1>1. /\ call[t] \in CallRecords /\ pc[t] \in Labels /\ Place(t, pc[t], call[t].op)
      /\ pending \in 0..MaxPending /\ faults \in 0..MaxFaults
      /\ impl.fd \in 1..MaxFd \union {NoFd}
  BY Parts DEF ThreadTypes, PortTypes, Places
<1>2. SerialAssumption
  BY SerialAssumption
<1> QED
  BY <1>1, <1>2 DEF CallRecords

\* The count of failed system calls stays within its bound.
LEMMA FaultFacts ==
  ASSUME IInv, SysFails \/ Fault \/ UNCHANGED faults
  PROVE  faults' \in faults..MaxFaults /\ faults' \in 0..MaxFaults
<1>1. faults \in 0..MaxFaults /\ MaxFaults \in Nat
  BY SerialAssumption, Parts DEF PortTypes
<1> QED
  BY <1>1 DEF SysFails, Fault

\* The output queue and the hold on the line are Booleans.
LEMMA OutputFacts ==
  ASSUME IInv
  PROVE  /\ output \in Outputs
         /\ \A b : [output EXCEPT !.unsent = @ \/ b] \in Outputs
         /\ \A b : [output EXCEPT !.unsent = @ /\ b] \in Outputs
         /\ \A b : [output EXCEPT !.held = @ /\ b] \in Outputs
         /\ \A b \in BOOLEAN : [output EXCEPT !.unsent = b] \in Outputs
         /\ \A b \in BOOLEAN : [output EXCEPT !.held = b] \in Outputs
<1>1. output \in Outputs
  BY Parts DEF PortTypes
<1> QED
  BY <1>1, Zenon DEF Outputs

\* Transfers: the test of is_open_, the system call, the release of the lock.
LEMMA TransferSteps ==
  ASSUME IInv, NEW t \in Threads,
         CheckOpen(t) \/ ReadSys(t) \/ ReadByte(t) \/ WriteSys(t) \/ ReleaseRead(t)
  PROVE  IInv'
<1>0. /\ call[t].got \in 0..SizeMax /\ call[t].n \in 0..MaxSize /\ call[t].left \in 0..WaitTime
      /\ pending \in 0..MaxPending /\ faults \in 0..MaxFaults
      /\ {SizeMax, MaxPending, WaitTime} \subseteq Nat
      /\ MaxSize \in Nat /\ SizeMax > MaxSize
  BY ThreadFacts, SizeFacts, SerialAssumption
<1> USE ThreadFacts, SerialAssumption DEF Labels, BeforeLocks, Opening
<1>1. CASE ReleaseRead(t)
  BY <1>1, QuietStep DEF ReleaseRead
<1>2. CASE CheckOpen(t)
  <2> USE <1>2 DEF CheckOpen, At
  <2>1. CASE Return(t, call[t].got)
    BY <2>1, QuietReturn
  <2>2. CASE Goto(t, "sys") /\ UNCHANGED <<Locks, call>>
    <3>1. Place(t, "sys", call[t].op)
      BY DEF Place
    <3> QED
      BY <2>2, <3>1, QuietGoto
  <2> QED
    BY <2>1, <2>2
<1>3. CASE ReadSys(t)
  <2>1. /\ pc[t] = "sys" /\ call[t].op = "read" /\ UNCHANGED Port
        /\ pending' \in 0..MaxPending /\ faults' \in faults..MaxFaults
        /\ \E got \in 0..SizeMax : Return(t, got)
    <3> DEFINE k == Min({call[t].n, pending})
    <3>1. {call[t].n, pending} \in SUBSET Nat /\ {call[t].n, pending} # {}
      BY ONLY <1>0
    <3>2. k \in {call[t].n, pending} /\ k <= pending /\ k <= call[t].n
      BY ONLY <3>1, LeastExists
    <3> HIDE DEF k
    <3>3. k \in 0..SizeMax /\ pending - k \in 0..MaxPending
      BY ONLY <1>0, <3>2
    <3>4. /\ pc[t] = "sys" /\ call[t].op = "read" /\ UNCHANGED Port
          /\ SysFails \/ UNCHANGED faults
          /\ \/ pending' = pending - k /\ Return(t, k)
             \/ UNCHANGED pending /\ Return(t, SizeMax)
      BY <1>3 DEF ReadSys, At, k
    <3>5. pending' \in 0..MaxPending /\ \E got \in 0..SizeMax : Return(t, got)
      BY ONLY <1>0, <3>3, <3>4
    <3> QED
      BY <3>4, <3>5, FaultFacts
  <2> QED
    BY <2>1, QuietReturn
<1>4. CASE ReadByte(t)
  <2>1. /\ pc[t] = "sys" /\ UNCHANGED Port
        /\ pending' \in 0..MaxPending /\ faults' \in faults..MaxFaults
    <3>1. /\ pc[t] = "sys" /\ UNCHANGED Port /\ (SysFails \/ UNCHANGED faults)
          /\ pending' = pending \/ (pending > 0 /\ pending' = pending - 1)
      BY <1>4 DEF ReadByte, At
    <3>2. pending' \in 0..MaxPending
      BY ONLY <1>0, <3>1
    <3> QED
      BY <3>1, <3>2, FaultFacts
  <2>2. \/ \E got \in 0..SizeMax : Return(t, got)
        \/ /\ Goto(t, "body") /\ UNCHANGED Locks
           /\ \E got \in 0..SizeMax : call' = [call EXCEPT ![t].got = got]
    <3>1. \A r : Count(call[t].got, r) = (call[t].got + r) % (SizeMax + 1)
      BY DEF Count
    <3>2. Count(call[t].got, 1) \in 0..SizeMax /\ Count(call[t].got, SizeMax) \in 0..SizeMax
      <4>1. \A a \in Nat : a % (SizeMax + 1) \in 0..SizeMax
        BY ONLY SerialAssumption
      <4>2. call[t].got + 1 \in Nat /\ call[t].got + SizeMax \in Nat
        BY ONLY <1>0
      <4> QED
        BY ONLY <3>1, <4>1, <4>2
    <3> QED
      BY <1>4, <3>2 DEF ReadByte
  <2>3. CASE \E got \in 0..SizeMax : Return(t, got)
    BY <2>1, <2>3, QuietReturn
  <2>4. CASE /\ Goto(t, "body") /\ UNCHANGED Locks
             /\ \E got \in 0..SizeMax : call' = [call EXCEPT ![t].got = got]
    <3>1. PICK got \in 0..SizeMax : call' = [call EXCEPT ![t].got = got]
      BY <2>4
    <3>2. [call[t] EXCEPT !.got = got].op = call[t].op
      BY DEF CallRecords
    <3>3. Place(t, "body", call[t].op)
      BY DEF Place
    <3> QED
      BY <2>1, <2>4, <3>1, <3>2, <3>3, QuietGoto
  <2> QED
    BY <2>2, <2>3, <2>4
<1>5. CASE WriteSys(t)
  <2>1. /\ pc[t] = "sys" /\ call[t].op = "write" /\ UNCHANGED <<Device, pending>>
        /\ SysFails \/ UNCHANGED faults
        /\ \E got : Return(t, got)
        /\ output' = output \/ \E k : output' = [output EXCEPT !.unsent = @ \/ k > 0]
    BY <1>5 DEF WriteSys, At
  <2>2. call[t].op \notin Reads /\ pending' \in 0..MaxPending
    BY <2>1 DEF Reads
  <2>3. PortStays
    BY <2>1, OutputFacts DEF PortStays
  <2> QED
    BY <2>1, <2>2, <2>3, FaultFacts, QuietReturn
<1> QED
  BY <1>1, <1>2, <1>3, <1>4, <1>5

\* Flushes and modem lines.
LEMMA LineSteps ==
  ASSUME IInv, NEW t \in Threads,
         \/ FlushBody(t) \/ Drained(t) \/ DrainInterrupted(t)
         \/ SetModemLine(t) \/ GetModemLine(t) \/ WaitForChange(t) \/ ModemChange(t)
  PROVE  IInv'
<1>0. /\ call[t].got \in 0..SizeMax /\ call[t].n \in 0..MaxSize /\ call[t].left \in 0..WaitTime
      /\ pending \in 0..MaxPending /\ faults \in 0..MaxFaults
      /\ {SizeMax, MaxPending, WaitTime} \subseteq Nat
      /\ MaxSize \in Nat /\ SizeMax > MaxSize
  BY ThreadFacts, SizeFacts, SerialAssumption
<1> USE ThreadFacts, SerialAssumption DEF Labels, BeforeLocks, Opening, Reads
<1>1. CASE FlushBody(t)
  <2>1. /\ pc[t] = "body" /\ UNCHANGED <<Device, faults>>
        /\ call[t].op \in {"flush", "flushInput", "flushOutput"}
        /\ \/ Return(t, 0)
           \/ call[t].op = "flush" /\ Goto(t, "drain") /\ UNCHANGED <<Locks, call>>
        /\ pending' = 0 \/ pending' = pending
        /\ \E b : output' = [output EXCEPT !.unsent = @ /\ b]
    BY <1>1 DEF FlushBody, At
  <2>2. /\ pending' \in 0..MaxPending /\ faults' \in faults..MaxFaults /\ 0 \in 0..SizeMax
    BY <1>0, <2>1
  <2>3. PortStays
    BY <2>1, OutputFacts DEF PortStays
  <2>4. CASE Return(t, 0)
    BY <2>1, <2>2, <2>3, <2>4, QuietReturn
  <2>5. CASE call[t].op = "flush" /\ Goto(t, "drain") /\ UNCHANGED <<Locks, call>>
    <3>1. Place(t, "drain", call[t].op)
      BY <2>5 DEF Place, OwnersOps
    <3> QED
      BY <2>1, <2>2, <2>3, <2>5, <3>1, QuietGoto
  <2> QED
    BY <2>1, <2>4, <2>5
<1>6. CASE Drained(t) \/ DrainInterrupted(t)
  <2>1. /\ pc[t] = "drain" /\ UNCHANGED <<Port, pending>> /\ Return(t, 0)
        /\ Fault \/ UNCHANGED faults
    BY <1>6 DEF Drained, DrainInterrupted
  <2>2. /\ faults' \in faults..MaxFaults /\ pending' \in 0..MaxPending
        /\ call[t].op \notin Reads
    BY <2>1, FaultFacts DEF Place
  <2> QED
    BY <2>1, <2>2, QuietReturn
<1>2. CASE SetModemLine(t)
  BY <1>2, QuietReturn DEF SetModemLine, At
<1>3. CASE GetModemLine(t)
  BY <1>3, QuietReturn DEF GetModemLine, At
<1>4. CASE WaitForChange(t)
  <2> USE <1>4 DEF WaitForChange, At
  <2>1. CASE Return(t, 0)
    BY <2>1, QuietReturn
  <2>2. CASE Goto(t, "miwait") /\ UNCHANGED <<Locks, call>>
    <3>1. Place(t, "miwait", call[t].op)
      BY DEF Place, OwnersOps
    <3> QED
      BY <2>2, <3>1, QuietGoto
  <2> QED
    BY <2>1, <2>2
<1>5. CASE ModemChange(t)
  BY <1>5, QuietReturn DEF ModemChange, Place
<1> QED
  BY <1>1, <1>2, <1>3, <1>4, <1>5, <1>6

\* waitfordata and waitReadable.
LEMMA WaitSteps ==
  ASSUME IInv, NEW t \in Threads,
         \/ WaitStart(t) \/ WaitSet(t) \/ WaitLoop(t) \/ WaitSelect(t)
         \/ WaitReady(t) \/ WaitReadable(t)
  PROVE  IInv'
<1>0. /\ call[t].got \in 0..SizeMax /\ call[t].n \in 0..MaxSize /\ call[t].left \in 0..WaitTime
      /\ pending \in 0..MaxPending /\ faults \in 0..MaxFaults
      /\ {SizeMax, MaxPending, WaitTime} \subseteq Nat
      /\ MaxSize \in Nat /\ SizeMax > MaxSize
  BY ThreadFacts, SizeFacts, SerialAssumption
<1> USE ThreadFacts, SerialAssumption DEF Labels, BeforeLocks, Opening, Reads
<1>1. \/ \E got : Return(t, got)
      \/ \E l \in {"fdset", "loop", "select", "ready"} :
           /\ Goto(t, l) /\ UNCHANGED Locks /\ call[t].op = "waitfordata"
           /\ \/ call' = call
              \/ call' = [call EXCEPT ![t].fd = impl.fd]
              \/ call[t].left # 0 /\ call' = [call EXCEPT ![t].left = @ - 1]
  <2>1. CASE WaitStart(t)
    BY <2>1 DEF WaitStart, At
  <2>2. CASE WaitLoop(t)
    BY <2>2 DEF WaitLoop, Place
  <2>3. CASE WaitSelect(t)
    BY <2>3 DEF WaitSelect, Place
  <2>4. CASE WaitReady(t)
    BY <2>4 DEF WaitReady, Place
  <2>5. CASE WaitReadable(t)
    BY <2>5 DEF WaitReadable
  <2>6. CASE WaitSet(t)
    BY <2>6 DEF WaitSet, Place
  <2> QED
    BY <2>1, <2>2, <2>3, <2>4, <2>5, <2>6
<1>2. /\ UNCHANGED <<Port, pending>> /\ (Fault \/ UNCHANGED faults)
      /\ pc[t] \in {"body", "fdset", "loop", "select", "ready"}
      /\ call[t].op \in {"waitfordata", "waitReadable"}
  BY DEF WaitStart, WaitSet, WaitLoop, WaitSelect, WaitReady, WaitReadable, At, Place
<1>3. faults' \in faults..MaxFaults /\ call[t].op \notin Reads /\ pending' \in 0..MaxPending
  BY <1>2, FaultFacts
<1>4. CASE \E got : Return(t, got)
  BY <1>2, <1>3, <1>4, QuietReturn
<1>5. ASSUME NEW l \in {"fdset", "loop", "select", "ready"}, Goto(t, l), UNCHANGED Locks,
             call[t].op = "waitfordata",
             \/ call' = call
             \/ call' = [call EXCEPT ![t].fd = impl.fd]
             \/ call[t].left # 0 /\ call' = [call EXCEPT ![t].left = @ - 1]
      PROVE  IInv'
  <2>1. Place(t, l, call[t].op)
    BY <1>5 DEF Place, OwnersOps
  <2>2. /\ [call[t] EXCEPT !.fd = impl.fd].op = call[t].op
        /\ [call[t] EXCEPT !.left = @ - 1].op = call[t].op
    BY DEF CallRecords
  <2>3. CASE call' = call
    BY <1>2, <1>3, <1>5, <2>1, <2>3, QuietGoto
  <2>4. CASE call' = [call EXCEPT ![t].fd = impl.fd]
    <3>1. [call[t] EXCEPT !.fd = impl.fd] \in CallRecords
      BY ThreadFacts
    <3>2. call' = [call EXCEPT ![t] = [call[t] EXCEPT !.fd = impl.fd]]
      BY <2>4
    <3> QED
      BY <1>2, <1>3, <1>5, <2>1, <2>2, <3>1, <3>2, QuietGoto
  <2>5. CASE call[t].left # 0 /\ call' = [call EXCEPT ![t].left = @ - 1]
    <3>1. [call[t] EXCEPT !.left = @ - 1] \in CallRecords
      BY <1>0, <2>5, ThreadFacts, SMTT(30)
    <3>2. call' = [call EXCEPT ![t] = [call[t] EXCEPT !.left = @ - 1]]
      BY <2>5
    <3> QED
      BY <1>2, <1>3, <1>5, <2>1, <2>2, <3>1, <3>2, QuietGoto, ZenonT(40)
  <2> QED
    BY <1>5, <2>3, <2>4, <2>5
<1> QED
  BY <1>1, <1>4, <1>5

-----------------------------------------------------------------------------
\* The settings of a line.

\* set_parity puts the parity in force, but for a CMSPAR left on the line.
LEMMA ParityFacts ==
  ASSUME NEW flags \in SUBSET {"PARENB", "PARODD", "CMSPAR"}, NEW p \in Parities
  PROVE  /\ ParityFlags(flags, p) \in SUBSET {"PARENB", "PARODD", "CMSPAR"}
         /\ ParityInForce(ParityFlags(flags, p), p)
<1>1. p \in {"none", "odd", "even", "mark", "space"}
  BY SerialAssumption
<1>2. ParityFlags(flags, p) =
        IF p = "none" THEN flags \ {"PARENB"}
        ELSE IF p = "even" THEN (flags \ {"PARODD"}) \union {"PARENB"}
        ELSE IF p = "odd" THEN flags \union {"PARENB", "PARODD"}
        ELSE IF p = "mark" THEN flags \union {"PARENB", "CMSPAR", "PARODD"}
        ELSE (flags \ {"PARODD"}) \union {"PARENB", "CMSPAR"}
  BY <1>1 DEF ParityFlags
<1> QED
  BY <1>1, <1>2, SMTT(30) DEF ParityOf, ParityInForce

\* set_stopbits puts the stop bits in force, but for one and a half.
LEMMA StopFacts ==
  ASSUME NEW n \in Stopbits
  PROVE  /\ StopBits(n) \in {1, 2}
         /\ StopBits(n) = n \/ (n = OnePointFive /\ StopBits(n) = 1)
BY SerialAssumption DEF StopBits, OnePointFive

\* setBaudrate puts the rate in force, or 38400.
LEMMA SpeedFacts ==
  ASSUME IInv, NEW b \in Baudrates, NEW v, SpeedSet(b, v)
  PROVE  /\ v \in Baudrates \union {9600, 38400}
         /\ RateInForce(v, b, tty.termios2, faults')
         /\ Fault \/ UNCHANGED faults
<1>1. faults \in Nat
  BY SerialAssumption, Parts DEF PortTypes
<1> QED
  BY <1>1 DEF SpeedSet, RateInForce, Fault

\* What open() writes to the line puts the fields of the object in force.
LEMMA LineForFacts ==
  ASSUME PortTypes, tty \in Lines, NEW v \in Baudrates \union {9600, 38400}
  PROVE  /\ LineFor(cfg, v) \in Lines
         /\ \A f : RateInForce(v, cfg.baudrate, tty.termios2, f) => InForce(LineFor(cfg, v), cfg, f)
<1>1. /\ cfg.bytesize \in 5..8 /\ cfg.parity \in Parities
      /\ cfg.flowcontrol \in Flows /\ cfg.stopbits \in Stopbits
      /\ tty.parity \ {"PARENB"} \in SUBSET {"PARENB", "PARODD", "CMSPAR"}
  <2>1. /\ cfg.stopbits \in Stopbits
        /\ cfg.parity \in Parities /\ cfg.flowcontrol \in Flows
    BY DEF PortTypes
  <2>2. tty.parity \in SUBSET {"PARENB", "PARODD", "CMSPAR"}
    BY DEF Lines
  <2>3. \A b \in Bytesizes : b \in 5..8
    BY SerialAssumption
  <2>4. tty.parity \ {"PARENB"} \in SUBSET {"PARENB", "PARODD", "CMSPAR"}
    BY ONLY <2>2
  <2>5. cfg.bytesize \in 5..8
    BY <2>3 DEF PortTypes
  <2> QED
    BY ONLY <2>1, <2>4, <2>5
<1> DEFINE flags == ParityFlags(tty.parity \ {"PARENB"}, cfg.parity)
           stop  == StopBits(cfg.stopbits)
<1>2. DataBits(cfg.bytesize) = cfg.bytesize
  BY <1>1 DEF DataBits
<1>3. flags \in SUBSET {"PARENB", "PARODD", "CMSPAR"} /\ ParityInForce(flags, cfg.parity)
  BY <1>1, ParityFacts
<1>4. stop \in {1, 2} /\ (stop = cfg.stopbits \/ (cfg.stopbits = OnePointFive /\ stop = 1))
  BY <1>1, StopFacts
<1>5. LineFor(cfg, v) = [speed |-> v, data |-> cfg.bytesize, parity |-> flags,
                         stop |-> stop, flow |-> cfg.flowcontrol, termios2 |-> tty.termios2]
  BY <1>2 DEF LineFor
<1> HIDE DEF flags, stop
<1>6. /\ LineFor(cfg, v) \in Lines
      /\ LineFor(cfg, v).speed = v /\ LineFor(cfg, v).data = cfg.bytesize
      /\ LineFor(cfg, v).parity = flags /\ LineFor(cfg, v).stop = stop
      /\ LineFor(cfg, v).flow = cfg.flowcontrol /\ LineFor(cfg, v).termios2 = tty.termios2
  <2>1. tty.termios2 \in BOOLEAN
    BY DEF Lines
  <2> QED
    BY <1>1, <1>3, <1>4, <1>5, <2>1, SMTT(30) DEF Lines
<1> QED
  BY <1>3, <1>4, <1>6 DEF InForce

\* A setter changes the line as it changes its field.
LEMMA LineWithFacts ==
  ASSUME PortTypes, tty \in Lines, NEW s \in Setters, NEW v \in Values(s)
  PROVE  /\ LineWith(tty, s, v) \in Lines
         /\ [cfg EXCEPT ![Field(s)] = v] \in
              [baudrate : Baudrates, bytesize : Bytesizes, parity : Parities,
               stopbits : Stopbits, flowcontrol : Flows]
         /\ \A f : InForce(tty, cfg, f)
                    => InForce(LineWith(tty, s, v), [cfg EXCEPT ![Field(s)] = v], f)
<1> USE DEF PortTypes, Lines, InForce
<1>1. CASE s = "setBytesize"
  <2>1. /\ LineWith(tty, s, v) = [tty EXCEPT !.data = DataBits(v)]
        /\ Field(s) = "bytesize" /\ v \in Bytesizes
    BY <1>1 DEF LineWith, Field, Values
  <2>2. DataBits(v) = v /\ v \in 5..8
    BY <2>1, SerialAssumption DEF DataBits
  <2> QED
    BY <2>1, <2>2, SMTT(30)
<1>2. CASE s = "setParity"
  <2>1. /\ LineWith(tty, s, v) = [tty EXCEPT !.parity = ParityFlags(tty.parity, v)]
        /\ Field(s) = "parity" /\ v \in Parities
    BY <1>2 DEF LineWith, Field, Values
  <2>2. tty.parity \in SUBSET {"PARENB", "PARODD", "CMSPAR"}
    OBVIOUS
  <2>3. /\ ParityFlags(tty.parity, v) \in SUBSET {"PARENB", "PARODD", "CMSPAR"}
        /\ ParityInForce(ParityFlags(tty.parity, v), v)
    BY ONLY <2>1, <2>2, ParityFacts
  <2> QED
    BY <2>1, <2>3, SMTT(30)
<1>3. CASE s = "setStopbits"
  <2>1. /\ LineWith(tty, s, v) = [tty EXCEPT !.stop = StopBits(v)]
        /\ Field(s) = "stopbits" /\ v \in Stopbits
    BY <1>3 DEF LineWith, Field, Values
  <2>2. StopBits(v) \in {1, 2} /\ (StopBits(v) = v \/ (v = OnePointFive /\ StopBits(v) = 1))
    BY <2>1, StopFacts
  <2> QED
    BY <2>1, <2>2, SMTT(30)
<1>4. CASE s = "setFlowcontrol"
  <2>1. /\ LineWith(tty, s, v) = [tty EXCEPT !.flow = v]
        /\ Field(s) = "flowcontrol" /\ v \in Flows
    BY <1>4 DEF LineWith, Field, Values
  <2> QED
    BY <2>1, SMTT(30)
<1> QED
  BY <1>1, <1>2, <1>3, <1>4 DEF Setters

-----------------------------------------------------------------------------
\* The threads' part of a step of the owner in open, close or setPort.
LEMMA OwnerMoves ==
  ASSUME IInv, NEW t \in Threads, pc[t] \notin BeforeLocks, call[t].op \in OwnersOps,
         NEW l \in Labels \ BeforeLocks,
         \/ Return(t, 0)
         \/ /\ Goto(t, l) /\ UNCHANGED Locks /\ Place(t, l, call[t].op)
            /\ call' = call \/ \E b \in BOOLEAN : call' = [call EXCEPT ![t].wasOpen = b]
  PROVE  /\ t = Owner /\ ThreadTypes' /\ Places' /\ Held'
         /\ Return(t, 0) => pc'[Owner] = "idle"
         /\ Goto(t, l) => pc'[Owner] = l
<1>1. ThreadTypes /\ Places /\ Held /\ call[t] \in CallRecords /\ t = Owner
  BY Parts, ThreadFacts DEF Place
<1>2. call[t].op \notin Reads
  BY DEF OwnersOps, Reads
<1>3. pc \in [Threads -> Labels] /\ call \in [Threads -> CallRecords]
  BY <1>1 DEF ThreadTypes, Places
<1>4. Return(t, 0) => Leave(t) /\ pc'[t] = "idle"
  BY <1>2, <1>3 DEF Return, Leave, Goto
<1>5. Goto(t, l) => pc'[t] = l
  BY <1>3 DEF Goto
<1>6. CASE Return(t, 0)
  BY <1>1, <1>4, <1>5, <1>6, Moves
<1>7. CASE /\ Goto(t, l) /\ UNCHANGED Locks /\ Place(t, l, call[t].op)
           /\ call' = call \/ \E b \in BOOLEAN : call' = [call EXCEPT ![t].wasOpen = b]
  <2>1. \A b \in BOOLEAN : /\ [call[t] EXCEPT !.wasOpen = b] \in CallRecords
                           /\ [call[t] EXCEPT !.wasOpen = b].op = call[t].op
    BY <1>1 DEF CallRecords
  <2>2. /\ call' \in [Threads -> CallRecords]
        /\ call'[t].op = call[t].op /\ \A u \in Threads \ {t} : call'[u] = call[u]
    BY <1>3, <1>7, <2>1
  <2>3. GoesOn(t, l)
    BY <1>7, <2>2 DEF GoesOn
  <2> QED
    BY <1>1, <1>4, <1>5, <1>7, <2>3, Moves
<1> QED
  BY <1>6, <1>7

\* The steps of open() keep the invariant.
LEMMA OpenSteps ==
  ASSUME IInv, NEW t \in Threads,
         OpenStart(t) \/ OpenDescriptor(t) \/ OpenConfigure(t) \/ OpenDone(t)
  PROVE  IInv'
<1> USE DEF Labels, BeforeLocks
<1>1. PortTypes /\ Descriptors /\ Settings /\ Place(t, pc[t], call[t].op)
  BY Parts, ThreadFacts
<1>2. CASE OpenStart(t)
  <2>1. /\ pc[t] \in {"body", "reopen"} /\ call[t].op \in {"open", "setPort"}
        /\ UNCHANGED <<Port, pending, faults>>
        /\ \/ Return(t, 0)
           \/ Goto(t, "openfd") /\ UNCHANGED <<Locks, call>> /\ ~impl.isOpen
    BY <1>2 DEF OpenStart, At
  <2>2. Place(t, "openfd", call[t].op)
    BY <1>1, <2>1 DEF Place
  <2>3. /\ t = Owner /\ ThreadTypes' /\ Places' /\ Held'
        /\ pc'[Owner] = "idle" \/ (pc'[Owner] = "openfd" /\ ~impl.isOpen)
    BY <2>1, <2>2, OwnerMoves DEF OwnersOps
  <2>4. PortTypes' /\ Descriptors' /\ Settings'
    <3>1. /\ impl' = impl /\ fds' = fds /\ cfg' = cfg /\ tty' = tty /\ output' = output
          /\ (unapplied' <=> unapplied) /\ faults' = faults
      BY <2>1 DEF Port, Device
    <3>2. PortTypes'
      BY <1>1, <2>1, <3>1 DEF PortTypes
    <3>3. Descriptors'
      BY <1>1, <2>1, <2>3, <3>1 DEF Descriptors, Closed, OpenOn, Opening
    <3>4. Settings'
      BY <1>1, <2>3, <3>1 DEF Settings
    <3> QED
      BY <3>2, <3>3, <3>4
  <2> QED
    BY <2>3, <2>4, Parts
<1>3. CASE OpenDescriptor(t)
  <2>1. /\ pc[t] = "openfd" /\ call[t].op \in {"open", "setPort"}
        /\ UNCHANGED <<cfg, tty, pending, output, unapplied>>
    BY <1>1, <1>3 DEF OpenDescriptor, Place
  <2>2. faults' \in 0..MaxFaults /\ faults' \in faults..MaxFaults
    BY <1>3, FaultFacts DEF OpenDescriptor
  <2>3. t = Owner /\ Closed
    BY <1>1, <2>1 DEF Descriptors, Place, OwnersOps
  <2>4. CASE /\ FreeFds # {} /\ impl' = [impl EXCEPT !.fd = Min(FreeFds)]
             /\ fds' = fds \union {Min(FreeFds)}
             /\ Goto(t, "configure") /\ UNCHANGED <<Locks, call>>
    <3>1. FreeFds \in SUBSET Nat
      BY SerialAssumption DEF FreeFds
    <3>2. Min(FreeFds) \in 1..MaxFd
      BY <2>4, <3>1, LeastExists DEF FreeFds
    <3>3. Place(t, "configure", call[t].op)
      BY <2>1, <2>3 DEF Place
    <3>4. /\ ThreadTypes' /\ Places' /\ Held' /\ pc'[Owner] = "configure"
      BY <2>1, <2>4, <3>3, OwnerMoves DEF OwnersOps
    <3>5. /\ impl'.fd = Min(FreeFds) /\ impl'.isOpen = impl.isOpen /\ Min(FreeFds) # NoFd
          /\ impl' \in [port : Ports, isOpen : BOOLEAN, fd : 1..MaxFd \union {NoFd}]
      BY <1>1, <2>4, <3>2, SerialAssumption DEF PortTypes, NoFd
    <3>6. PortTypes'
      BY <1>1, <2>1, <2>2, <2>4, <3>2, <3>5 DEF PortTypes
    <3>7. Descriptors'
      BY <2>3, <2>4, <3>4, <3>5 DEF Descriptors, Closed, OpenOn, Opening
    <3>8. Settings'
      BY <1>1, <2>1, <2>3, <3>4, <3>5 DEF Settings, Closed
    <3> QED
      BY <3>4, <3>6, <3>7, <3>8, Parts
  <2>5. CASE UNCHANGED <<impl, fds, pc, call, Locks>>
    <3>1. PortTypes' /\ ThreadTypes' /\ Places' /\ Held'
      BY <1>1, <2>1, <2>2, <2>5, Parts DEF PortTypes, ThreadTypes, Places, Held, Locks
    <3>2. Descriptors' /\ Settings'
      BY <2>1, <2>2, <2>5, PortKept DEF Port, Device
    <3> QED
      BY <3>1, <3>2, Parts
  <2>6. CASE Return(t, 0) /\ UNCHANGED <<impl, fds>>
    <3>1. ThreadTypes' /\ Places' /\ Held' /\ pc'[Owner] = "idle"
      BY <2>1, <2>6, OwnerMoves DEF OwnersOps
    <3>2. PortTypes' /\ Descriptors' /\ Settings'
      BY <1>1, <2>1, <2>2, <2>3, <2>6, <3>1
         DEF PortTypes, Descriptors, Settings, Closed, OpenOn, Opening
    <3> QED
      BY <3>1, <3>2, Parts
  <2> QED
    BY <1>3, <2>4, <2>5, <2>6 DEF OpenDescriptor
<1>4. CASE OpenConfigure(t)
  <2>1. /\ pc[t] = "configure" /\ call[t].op \in {"open", "setPort"}
        /\ UNCHANGED <<cfg, unapplied>>
    BY <1>1, <1>4 DEF OpenConfigure, Place
  <2>2. t = Owner /\ ~impl.isOpen /\ OpenOn /\ tty \in Lines
    BY <1>1, <2>1 DEF Descriptors, Settings, Place, OwnersOps
  <2>3. \A v \in Baudrates \union {9600, 38400} :
          /\ LineFor(cfg, v) \in Lines
          /\ \A f : RateInForce(v, cfg.baudrate, tty.termios2, f)
                     => InForce(LineFor(cfg, v), cfg, f)
    BY <1>1, <2>2, LineForFacts
  <2>4. CASE /\ \E v \in {cfg.baudrate, 38400} :
                  SpeedSet(cfg.baudrate, v) /\ tty' = LineFor(cfg, v)
             /\ LetFlow(tty') /\ Goto(t, "opened") /\ pending' = 0
             /\ UNCHANGED <<impl, fds, Locks, call>>
    <3>1. Place(t, "opened", call[t].op)
      BY <2>1, <2>2 DEF Place
    <3>2. ThreadTypes' /\ Places' /\ Held' /\ pc'[Owner] = "opened"
      BY <2>1, <2>4, <3>1, OwnerMoves DEF OwnersOps
    <3>3. PICK v : SpeedSet(cfg.baudrate, v) /\ tty' = LineFor(cfg, v)
      BY <2>4
    <3>4. cfg.baudrate \in Baudrates
      BY <1>1 DEF PortTypes
    <3>5. /\ v \in Baudrates \union {9600, 38400}
          /\ RateInForce(v, cfg.baudrate, tty.termios2, faults')
          /\ Fault \/ UNCHANGED faults
      BY <3>3, <3>4, SpeedFacts
    <3>6. faults' \in 0..MaxFaults
      BY <3>5, FaultFacts
    <3>7. output' \in Outputs
      <4>1. output' = [output EXCEPT !.held = @ /\ tty'.flow # "none"]
        BY <2>4 DEF LetFlow
      <4> QED
        BY <4>1, OutputFacts
    <3>8. PortTypes'
      BY <1>1, <2>1, <2>4, <3>6, <3>7, SerialAssumption DEF PortTypes
    <3>9. Descriptors'
      BY <2>2, <2>4, <3>2 DEF Descriptors, OpenOn, Opening
    <3>10. Settings'
      BY <2>1, <2>3, <3>3, <3>5 DEF Settings
    <3> QED
      BY <3>2, <3>8, <3>9, <3>10, Parts
  <2>5. CASE /\ Fault /\ Return(t, 0)
             /\ \/ UNCHANGED <<pending, tty>>
                \/ pending' = 0 /\ UNCHANGED tty
                \/ pending' = 0 /\ tty' = LineFor(cfg, tty.speed)
             /\ fds' = fds \ {impl.fd} /\ LastClose
             /\ impl' = [impl EXCEPT !.fd = NoFd]
    <3>1. ThreadTypes' /\ Places' /\ Held' /\ pc'[Owner] = "idle"
      BY <2>1, <2>5, OwnerMoves DEF OwnersOps
    <3>2. faults' \in 0..MaxFaults
      BY <2>5, FaultFacts
    <3>3. /\ impl'.fd = NoFd /\ impl'.isOpen = impl.isOpen
          /\ impl' \in [port : Ports, isOpen : BOOLEAN, fd : 1..MaxFd \union {NoFd}]
      BY <1>1, <2>5 DEF PortTypes
    <3>4. tty.speed \in Baudrates \union {9600, 38400}
      BY <2>2 DEF Lines
    <3>5. output' \in Outputs
      BY <2>5, OutputFacts DEF LastClose
    <3>6. PortTypes'
      BY <1>1, <2>1, <2>5, <3>2, <3>3, <3>5, SerialAssumption DEF PortTypes
    <3>7. Descriptors'
      BY <2>2, <2>5, <3>1, <3>3 DEF Descriptors, Closed, OpenOn, Opening
    <3>8. Settings'
      BY <2>1, <2>2, <2>3, <2>5, <3>1, <3>3, <3>4 DEF Settings
    <3> QED
      BY <3>1, <3>6, <3>7, <3>8, Parts
  <2> QED
    BY <1>4, <2>4, <2>5 DEF OpenConfigure
<1>5. CASE OpenDone(t)
  <2>1. /\ pc[t] = "opened" /\ call[t].op \in {"open", "setPort"}
        /\ impl' = [impl EXCEPT !.isOpen = TRUE] /\ unapplied' = FALSE /\ Return(t, 0)
        /\ UNCHANGED <<cfg, tty, fds, pending, output, faults>>
    BY <1>1, <1>5 DEF OpenDone, Place
  <2>2. t = Owner /\ OpenOn /\ tty \in Lines /\ InForce(tty, cfg, faults)
    BY <1>1, <2>1 DEF Descriptors, Settings, Place, OwnersOps
  <2>3. ThreadTypes' /\ Places' /\ Held' /\ pc'[Owner] = "idle"
    BY <2>1, OwnerMoves DEF OwnersOps
  <2>4. /\ impl'.fd = impl.fd /\ impl'.isOpen
        /\ impl' \in [port : Ports, isOpen : BOOLEAN, fd : 1..MaxFd \union {NoFd}]
    BY <1>1, <2>1 DEF PortTypes
  <2>5. PortTypes'
    BY <1>1, <2>1, <2>4 DEF PortTypes
  <2>6. Descriptors' /\ Settings'
    BY <2>1, <2>2, <2>3, <2>4 DEF Descriptors, Settings, OpenOn, Opening
  <2> QED
    BY <2>3, <2>5, <2>6, Parts
<1> QED
  BY <1>2, <1>3, <1>4, <1>5

\* close, and the part of setPort that closes and moves.
LEMMA CloseSteps ==
  ASSUME IInv, NEW t \in Threads,
         CloseFlag(t) \/ CloseDescriptor(t) \/ CloseForget(t) \/ MovePort(t)
  PROVE  IInv'
<1> USE DEF Labels, BeforeLocks
<1>1. /\ PortTypes /\ Descriptors /\ Settings /\ Place(t, pc[t], call[t].op)
      /\ call[t] \in CallRecords
  BY Parts, ThreadFacts
<1>2. CASE CloseFlag(t)
  <2>1. /\ pc[t] = "body" /\ call[t].op \in {"close", "setPort"}
        /\ call' = [call EXCEPT ![t].wasOpen = impl.isOpen] /\ impl.isOpen \in BOOLEAN
        /\ UNCHANGED <<cfg, tty, fds, pending, output, Locks, faults, unapplied>>
    BY <1>1, <1>2 DEF CloseFlag, At, PortTypes
  <2>2. t = Owner /\ (Closed \/ (impl.isOpen /\ OpenOn)) /\ tty \in Lines
    BY <1>1, <2>1 DEF Descriptors, Settings, Place, OwnersOps, Opening
  <2>3. CASE impl' = [impl EXCEPT !.isOpen = FALSE] /\ Goto(t, "closefd")
    <3>1. Place(t, "closefd", call[t].op)
      BY <2>1, <2>2 DEF Place
    <3>2. ThreadTypes' /\ Places' /\ Held' /\ pc'[Owner] = "closefd"
      BY <2>1, <2>3, <3>1, OwnerMoves DEF OwnersOps
    <3>3. /\ impl'.fd = impl.fd /\ ~impl'.isOpen
          /\ impl' \in [port : Ports, isOpen : BOOLEAN, fd : 1..MaxFd \union {NoFd}]
      BY <1>1, <2>3 DEF PortTypes
    <3>4. PortTypes'
      BY <1>1, <2>1, <3>3 DEF PortTypes
    <3>5. Descriptors' /\ Settings'
      BY <2>1, <2>2, <3>2, <3>3 DEF Descriptors, Settings, Closed, OpenOn, Opening
    <3> QED
      BY <3>2, <3>4, <3>5, Parts
  <2>4. CASE UNCHANGED impl /\ Goto(t, "moved") /\ call[t].op = "setPort" /\ ~impl.isOpen
    <3>1. Place(t, "moved", call[t].op)
      BY <2>2, <2>4 DEF Place
    <3>2. ThreadTypes' /\ Places' /\ Held' /\ pc'[Owner] = "moved"
      BY <2>1, <2>4, <3>1, OwnerMoves DEF OwnersOps
    <3>3. PortTypes'
      BY <1>1, <2>1, <2>4 DEF PortTypes
    <3>4. Descriptors' /\ Settings'
      BY <2>1, <2>2, <2>4, <3>2 DEF Descriptors, Settings, Closed, OpenOn, Opening
    <3> QED
      BY <3>2, <3>3, <3>4, Parts
  <2> QED
    BY <1>2, <2>1, <2>3, <2>4 DEF CloseFlag
<1>3. CASE CloseDescriptor(t)
  <2>1. /\ pc[t] = "closefd" /\ call[t].op \in {"close", "setPort"}
        /\ fds' = fds \ {impl.fd} /\ Goto(t, "forget") /\ output' \in Outputs
        /\ UNCHANGED <<impl, cfg, tty, pending, Locks, call, faults, unapplied>>
    BY <1>1, <1>3, OutputFacts DEF CloseDescriptor, Place, LastClose
  <2>2. t = Owner /\ (Closed \/ (~impl.isOpen /\ OpenOn)) /\ tty \in Lines
    BY <1>1, <2>1 DEF Descriptors, Settings, Place, OwnersOps, Opening
  <2>3. Place(t, "forget", call[t].op)
    BY <2>1, <2>2 DEF Place
  <2>4. ThreadTypes' /\ Places' /\ Held' /\ pc'[Owner] = "forget"
    BY <2>1, <2>3, OwnerMoves DEF OwnersOps
  <2>5. PortTypes'
    BY <1>1, <2>1 DEF PortTypes
  <2>6. Descriptors' /\ Settings'
    BY <2>1, <2>2, <2>4 DEF Descriptors, Settings, Closed, OpenOn, Opening
  <2> QED
    BY <2>4, <2>5, <2>6, Parts
<1>4. CASE CloseForget(t)
  <2>1. /\ pc[t] = "forget" /\ call[t].op \in {"close", "setPort"}
        /\ impl' = [impl EXCEPT !.fd = NoFd]
        /\ UNCHANGED <<cfg, tty, fds, pending, output, faults, unapplied>>
        /\ \/ Return(t, 0)
           \/ Goto(t, "moved") /\ UNCHANGED <<Locks, call>> /\ call[t].op = "setPort"
    BY <1>1, <1>4 DEF CloseForget, Place
  <2>2. t = Owner /\ ~impl.isOpen /\ fds = {} /\ tty \in Lines
    BY <1>1, <2>1 DEF Descriptors, Settings, Place, OwnersOps, Opening
  <2>3. call[t].op = "setPort" => Place(t, "moved", call[t].op)
    BY <2>2 DEF Place
  <2>4. ThreadTypes' /\ Places' /\ Held' /\ pc'[Owner] \in {"idle", "moved"}
    BY <2>1, <2>3, OwnerMoves DEF OwnersOps
  <2>5. /\ impl'.fd = NoFd /\ impl'.isOpen = impl.isOpen
        /\ impl' \in [port : Ports, isOpen : BOOLEAN, fd : 1..MaxFd \union {NoFd}]
    BY <1>1, <2>1 DEF PortTypes
  <2>6. PortTypes'
    BY <1>1, <2>1, <2>5 DEF PortTypes
  <2>7. Descriptors' /\ Settings'
    BY <2>1, <2>2, <2>4, <2>5 DEF Descriptors, Settings, Closed, OpenOn, Opening
  <2> QED
    BY <2>4, <2>6, <2>7, Parts
<1>5. CASE MovePort(t)
  <2>1. /\ pc[t] = "moved" /\ call[t].op = "setPort"
        /\ impl' = [impl EXCEPT !.port = call[t].port] /\ call[t].port \in Ports
        /\ UNCHANGED <<cfg, tty, fds, pending, output, faults, unapplied>>
        /\ Return(t, 0) \/ (Goto(t, "reopen") /\ UNCHANGED <<Locks, call>>)
    BY <1>1, <1>5 DEF MovePort, Place, CallRecords
  <2>2. t = Owner /\ Closed /\ tty \in Lines
    BY <1>1, <2>1 DEF Descriptors, Settings, Place, OwnersOps, Opening
  <2>3. Place(t, "reopen", call[t].op)
    BY <2>1, <2>2 DEF Place
  <2>4. ThreadTypes' /\ Places' /\ Held' /\ pc'[Owner] \in {"idle", "reopen"}
    BY <2>1, <2>3, OwnerMoves DEF OwnersOps
  <2>5. /\ impl'.fd = impl.fd /\ impl'.isOpen = impl.isOpen
        /\ impl' \in [port : Ports, isOpen : BOOLEAN, fd : 1..MaxFd \union {NoFd}]
    BY <1>1, <2>1 DEF PortTypes
  <2>6. PortTypes'
    BY <1>1, <2>1, <2>5 DEF PortTypes
  <2>7. Descriptors' /\ Settings'
    BY <2>1, <2>2, <2>4, <2>5 DEF Descriptors, Settings, Closed, OpenOn, Opening
  <2> QED
    BY <2>4, <2>6, <2>7, Parts
<1> QED
  BY <1>2, <1>3, <1>4, <1>5

\* Setters and setBaudrate, which the owner calls while it is in no other call.
LEMMA SetterSteps ==
  ASSUME IInv,
         \/ \E s \in Setters : \E v \in Values(s) : SetLine(s, v)
         \/ \E b \in Baudrates : SetBaudrate(b)
  PROVE  IInv'
<1>1. ThreadTypes /\ PortTypes /\ Places /\ Held /\ Descriptors /\ Settings
  BY Parts
<1>2. /\ pc[Owner] = "idle" /\ UNCHANGED <<impl, fds, Locks, pc, call>> /\ pending' = 0
      /\ Fault \/ UNCHANGED faults
  BY DEF SetLine, SetBaudrate, SpeedSet, Fault, Idle
<1>3. ThreadTypes' /\ Places' /\ Held' /\ Descriptors'
  BY <1>1, <1>2 DEF ThreadTypes, Places, Held, Descriptors, Closed, OpenOn, Locks
<1>4. /\ faults' \in 0..MaxFaults /\ pending' \in 0..MaxPending
      /\ faults \in Nat /\ faults' \in Nat /\ faults <= faults'
  BY <1>1, <1>2, FaultFacts, SerialAssumption DEF PortTypes
<1> DEFINE Cfgs == [baudrate : Baudrates, bytesize : Bytesizes, parity : Parities,
                    stopbits : Stopbits, flowcontrol : Flows]
<1>5. /\ cfg' \in Cfgs
      /\ tty' \in Lines /\ unapplied' \in BOOLEAN /\ output' \in Outputs
      /\ impl.isOpen /\ ~unapplied' => InForce(tty', cfg', faults')
  <2>0. /\ cfg \in Cfgs /\ tty \in Lines /\ unapplied \in BOOLEAN /\ output \in Outputs
        /\ impl.isOpen /\ ~unapplied => InForce(tty, cfg, faults)
        /\ InForce(tty, cfg, faults) => InForce(tty, cfg, faults')
    BY <1>1, <1>4, InForceStays DEF PortTypes, Settings
  <2>1. CASE \E s \in Setters : \E v \in Values(s) : SetLine(s, v)
    <3>0. PICK s \in Setters : \E v \in Values(s) : SetLine(s, v)
      BY <2>1
    <3>1. PICK v \in Values(s) : SetLine(s, v)
      BY <3>0
    <3>2. /\ LineWith(tty, s, v) \in Lines
          /\ [cfg EXCEPT ![Field(s)] = v] \in Cfgs
          /\ \A f : InForce(tty, cfg, f)
                     => InForce(LineWith(tty, s, v), [cfg EXCEPT ![Field(s)] = v], f)
      BY <1>1, LineWithFacts DEF Settings
    <3>3. /\ cfg' = [cfg EXCEPT ![Field(s)] = v]
          /\ \/ tty' = LineWith(tty, s, v) /\ unapplied' = unapplied /\ output' \in Outputs
             \/ unapplied' = TRUE /\ tty' = tty /\ output' = output
      BY <3>1, OutputFacts DEF SetLine, LetFlow
    <3> HIDE DEF Cfgs
    <3> QED
      BY <2>0, <3>2, <3>3
  <2>2. CASE \E b \in Baudrates : SetBaudrate(b)
    <3>1. PICK b \in Baudrates : SetBaudrate(b)
      BY <2>2
    <3>2. /\ cfg' = [cfg EXCEPT !.baudrate = b] /\ output' = output
          /\ \/ /\ unapplied' = unapplied
                /\ \E v \in {b, 38400} : SpeedSet(b, v) /\ tty' = [tty EXCEPT !.speed = v]
             \/ unapplied' = TRUE /\ tty' = tty
      BY <3>1 DEF SetBaudrate
    <3>3. /\ cfg' \in Cfgs
          /\ cfg'.baudrate = b /\ cfg'.bytesize = cfg.bytesize /\ cfg'.parity = cfg.parity
          /\ cfg'.stopbits = cfg.stopbits /\ cfg'.flowcontrol = cfg.flowcontrol
      BY ONLY <2>0, <3>2
    <3>4. ASSUME NEW v, SpeedSet(b, v), tty' = [tty EXCEPT !.speed = v], unapplied' = unapplied
          PROVE  tty' \in Lines /\ (impl.isOpen /\ ~unapplied' => InForce(tty', cfg', faults'))
      <4>1. /\ v \in Baudrates \union {9600, 38400}
            /\ RateInForce(v, b, tty.termios2, faults')
        BY <3>4, SpeedFacts
      <4>2. /\ tty' \in Lines /\ tty'.speed = v /\ tty'.data = tty.data
            /\ tty'.parity = tty.parity /\ tty'.stop = tty.stop /\ tty'.flow = tty.flow
            /\ tty'.termios2 = tty.termios2
        BY ONLY <2>0, <3>4, <4>1 DEF Lines
      <4> QED
        BY ONLY <2>0, <3>3, <3>4, <4>1, <4>2 DEF InForce
    <3> HIDE DEF Cfgs
    <3>5. unapplied' \in BOOLEAN
      <4>1. unapplied' = unapplied \/ unapplied' = TRUE
        BY <3>2
      <4> QED
        BY ONLY <2>0, <4>1, Zenon
    <3> QED
      BY <2>0, <3>2, <3>3, <3>4, <3>5
  <2> QED
    BY <2>1, <2>2
<1>6. PortTypes' /\ Settings'
  BY <1>1, <1>2, <1>4, <1>5 DEF PortTypes, Settings
<1> QED
  BY <1>3, <1>6, Parts

-----------------------------------------------------------------------------
\* The start of a call, and its locks.

\* The thread enters its operation.
LEMMA BeginStep ==
  ASSUME IInv, NEW t \in Threads, NEW op \in Calls[t],
         NEW n \in 0..MaxSize, NEW p \in Ports, Begin(t, op, n, p)
  PROVE  IInv'
<1>1. /\ ThreadTypes /\ PortTypes /\ Places /\ Held
      /\ pc \in [Threads -> Labels] /\ call \in [Threads -> CallRecords]
  BY Parts DEF ThreadTypes, Places
<1> DEFINE l == Path(op)[1]
<1>2. /\ l \in {"rlock", "wlock", "body"}
      /\ l = "rlock" <=> op \in ReadLockers
      /\ l = "wlock" <=> op \in WriteLockers /\ op \notin ReadLockers
  BY PathFacts
<1>3. /\ pc[t] = "idle" /\ pc' = [pc EXCEPT ![t] = l] /\ UNCHANGED <<Port, pending, Locks, faults>>
  BY DEF Begin, Idle, Goto
<1> HIDE DEF l
<1>4. call' = [call EXCEPT ![t] = [NoCall EXCEPT !.op = op, !.n = n, !.port = p,
                                     !.left = IF op = "waitfordata" THEN WaitTime ELSE 0]]
  BY DEF Begin
<1>5. /\ call' \in [Threads -> CallRecords] /\ call'[t].op = op
      /\ \A u \in Threads \ {t} : call'[u] = call[u]
  <2> DEFINE left == IF op = "waitfordata" THEN WaitTime ELSE 0
             c == [NoCall EXCEPT !.op = op, !.n = n, !.port = p, !.left = left]
  <2>1. /\ NoCall \in CallRecords /\ left \in 0..WaitTime
        /\ op \in {"none"} \union UNION {Calls[u] : u \in Threads}
    BY SerialAssumption, SizeFacts DEF NoCall, CallRecords
  <2> HIDE DEF left
  <2>2. c \in CallRecords /\ c.op = op
    BY ONLY <2>1, n \in 0..MaxSize, p \in Ports DEF CallRecords
  <2> HIDE DEF c
  <2>3. call' = [call EXCEPT ![t] = c]
    BY <1>4 DEF c, left
  <2> QED
    BY <1>1, <2>2, <2>3
<1>6. /\ pc' \in [Threads -> Labels] /\ pc'[t] = l /\ \A u \in Threads \ {t} : pc'[u] = pc[u]
  BY <1>1, <1>2, <1>3 DEF Labels
<1>7. ThreadTypes' /\ PortTypes'
  BY <1>1, <1>3, <1>6 DEF ThreadTypes, PortTypes, Port, Device, Locks
<1>8. op \in OwnersOps => t = Owner
  BY SerialAssumption DEF OwnersOps
<1>9. Place(t, l, op)
  BY <1>2, <1>8 DEF Place
<1>10. Places'
  BY <1>1, <1>5, <1>6, <1>9 DEF Places
<1>11. Held'
  BY <1>1, <1>2, <1>3, <1>5, <1>6 DEF Held, HasRead, HasWrite, BeforeLocks, Locks
<1>13. faults' \in faults..MaxFaults
  BY <1>1, <1>3, SerialAssumption DEF PortTypes
<1>12. Descriptors' /\ Settings'
  BY <1>2, <1>3, <1>6, <1>13, PortKept, SerialAssumption DEF Opening
<1> QED
  BY <1>7, <1>10, <1>11, <1>12, Parts

\* ScopedReadLock and ScopedWriteLock.
LEMMA AcquireSteps ==
  ASSUME IInv, NEW t \in Threads, AcquireRead(t) \/ AcquireWrite(t)
  PROVE  IInv'
<1>1. /\ ThreadTypes /\ PortTypes /\ Places /\ Held /\ Place(t, pc[t], call[t].op)
      /\ pc \in [Threads -> Labels] /\ call \in [Threads -> CallRecords]
  BY Parts DEF ThreadTypes, Places
<1>2. \A u \in Threads : u # NoThread
  BY SerialAssumption DEF NoThread
<1>3. PICK l \in {"wlock", "body"} :
        /\ pc' = [pc EXCEPT ![t] = l] /\ UNCHANGED <<Port, pending, call, faults>>
        /\ \/ /\ pc[t] = "rlock" /\ rmutex = NoThread /\ rmutex' = t /\ wmutex' = wmutex
              /\ call[t].op \in ReadLockers
              /\ l = "wlock" <=> call[t].op \in WriteLockers
           \/ /\ pc[t] = "wlock" /\ wmutex = NoThread /\ wmutex' = t /\ rmutex' = rmutex
              /\ call[t].op \in WriteLockers /\ l = "body"
  <2>1. CASE AcquireRead(t)
    <3>1. call[t].op \in ReadLockers /\ pc[t] = "rlock"
      BY <1>1, <2>1 DEF AcquireRead, Place
    <3>2. After(call[t].op, "rlock") = IF call[t].op \in WriteLockers THEN "wlock" ELSE "body"
      BY <3>1, PathFacts
    <3> QED
      BY <2>1, <3>1, <3>2 DEF AcquireRead, Goto
  <2>2. CASE AcquireWrite(t)
    <3>1. call[t].op \in WriteLockers /\ pc[t] = "wlock"
      BY <1>1, <2>2 DEF AcquireWrite, Place
    <3>2. After(call[t].op, "wlock") = "body"
      BY <3>1, PathFacts
    <3> QED
      BY <2>2, <3>1, <3>2 DEF AcquireWrite, Goto
  <2> QED
    BY <2>1, <2>2
<1>4. /\ pc' \in [Threads -> Labels] /\ pc'[t] = l /\ \A u \in Threads \ {t} : pc'[u] = pc[u]
  BY <1>1, <1>3 DEF Labels
<1>5. ThreadTypes' /\ PortTypes'
  BY <1>1, <1>3, <1>4 DEF ThreadTypes, PortTypes, Port, Device
<1>6. Places'
  <2>1. Place(t, l, call[t].op)
    BY <1>1, <1>3 DEF Place
  <2> QED
    BY <1>1, <1>3, <1>4, <2>1 DEF Places
<1>7. Held'
  BY <1>1, <1>2, <1>3, <1>4 DEF Held, HasRead, HasWrite, BeforeLocks
<1>9. faults' \in faults..MaxFaults
  BY <1>1, <1>3, SerialAssumption DEF PortTypes
<1>8. Descriptors' /\ Settings'
  BY <1>3, <1>4, <1>9, PortKept, SerialAssumption DEF Opening
<1> QED
  BY <1>5, <1>6, <1>7, <1>8, Parts

-----------------------------------------------------------------------------
\* The invariant holds at the start: the port is closed, no thread is in a call.
LEMMA Initially == Init => IInv
<1> SUFFICES ASSUME Init PROVE IInv
  OBVIOUS
<1> USE SerialAssumption DEF Init
<1>1. NoCall \in CallRecords /\ NoCall.op = "none" /\ NoCall.got = 0 /\ NoCall.left = 0
  BY SizeFacts DEF NoCall, CallRecords
<1>2. /\ impl \in [port : Ports, isOpen : BOOLEAN, fd : 1..MaxFd \union {NoFd}]
      /\ ~impl.isOpen /\ impl.fd = NoFd /\ ~unapplied /\ unapplied \in BOOLEAN
  <2>1. impl \in [port : Ports \ {NoPort}, isOpen : {FALSE}, fd : {NoFd}]
    BY Zenon
  <2>2. unapplied = FALSE
    OBVIOUS
  <2> QED
    BY ONLY <2>1, <2>2
<1>3. cfg \in [baudrate : Baudrates, bytesize : Bytesizes, parity : Parities,
               stopbits : Stopbits, flowcontrol : Flows]
  OBVIOUS
<1>4. tty \in Lines
  BY DEF Lines
<1>5. /\ pc = [u \in Threads |-> "idle"] /\ call = [u \in Threads |-> NoCall]
      /\ fds = {} /\ rmutex = NoThread /\ wmutex = NoThread
  OBVIOUS
<1>6. TypeOK
  BY <1>1, <1>2, <1>3, <1>4, <1>5 DEF TypeOK, Labels, Lines
<1>7. Places
  BY <1>1, <1>5 DEF Places, Place, OwnersOps
<1>8. Held
  BY <1>1, <1>5 DEF Held, HasRead, HasWrite, BeforeLocks, NoThread
<1>9. Descriptors /\ Settings
  BY <1>2, <1>4, <1>5 DEF Descriptors, Settings, Closed, Opening
<1> QED
  BY <1>6, <1>7, <1>8, <1>9 DEF IInv

\* Every step keeps the invariant.
LEMMA Inductive == IInv /\ [Next]_vars => IInv'
<1> SUFFICES ASSUME IInv, [Next]_vars PROVE IInv'
  OBVIOUS
<1>1. ASSUME NEW t \in Threads, Step(t) \/ ModemChange(t) \/ DrainInterrupted(t)
      PROVE  IInv'
  BY <1>1, AcquireSteps, OpenSteps, CloseSteps, TransferSteps, LineSteps, WaitSteps DEF Step
<1>2. ASSUME NEW t \in Threads, NEW op \in Calls[t],
             NEW n \in IF op \in Sized THEN Sizes[op] ELSE {0},
             NEW p \in IF op = "setPort" THEN Ports ELSE {NoPort}, Begin(t, op, n, p)
      PROVE  IInv'
  <2>1. n \in 0..MaxSize /\ p \in Ports
    BY SerialAssumption, SizeFacts
  <2> QED
    BY <1>2, <2>1, BeginStep
<1>3. CASE \/ \E s \in Setters : \E v \in Values(s) : SetLine(s, v)
           \/ \E b \in Baudrates : SetBaudrate(b)
  BY <1>3, SetterSteps
<1>4. CASE Arrive \/ Transmit \/ Hold \/ LetGo \/ UNCHANGED vars
  <2>1. /\ ThreadTypes /\ PortTypes /\ Places /\ Held
        /\ UNCHANGED <<Device, Locks, pc, call, faults>>
        /\ pending' = pending \/ (pending < MaxPending /\ pending' = pending + 1)
    BY <1>4, Parts DEF Arrive, Transmit, Hold, LetGo, vars, Port, Device, Locks
  <2>2. output' \in Outputs
    BY <1>4, OutputFacts DEF Arrive, Transmit, Hold, LetGo, vars, Port
  <2>3. ThreadTypes' /\ Places' /\ Held'
    BY <2>1 DEF ThreadTypes, Places, Held, Locks
  <2>4. PortTypes'
    BY <2>1, <2>2, SerialAssumption DEF PortTypes, Device
  <2>5. PortStays /\ faults' \in faults..MaxFaults
    BY <2>1, <2>2, SerialAssumption DEF PortStays, PortTypes
  <2>6. Descriptors' /\ Settings'
    BY <2>1, <2>5, PortKept
  <2> QED
    BY <2>3, <2>4, <2>6, Parts
<1> QED
  BY <1>1, <1>2, <1>3, <1>4 DEF Next

\* The invariant holds in every reachable state.
LEMMA Invariance == Spec => []IInv
BY Initially, Inductive, PTL DEF Spec

-----------------------------------------------------------------------------
\* Types of the port, the line, the locks and the calls, whatever the threads do.
THEOREM TypeCorrect == Spec => []TypeOK
<1>1. IInv => TypeOK
  BY DEF IInv
<1> QED
  BY Invariance, <1>1, PTL

\* Between the owner's calls an open port holds exactly the descriptor fd_ and a
\* closed one none, whichever system call of open() failed.
THEOREM DescriptorsAccounted == Spec => []DescriptorAccounted
<1>1. IInv => DescriptorAccounted
  BY DEF IInv, Descriptors, DescriptorAccounted, Idle, Closed, OpenOn, Opening
<1> QED
  BY Invariance, <1>1, PTL

\* No two threads wait for each other's scoped lock, however many threads there
\* are and whichever operations they use.
THEOREM NoLockDeadlock == Spec => []NoLockCycle
<1>1. IInv => NoLockCycle
  <2> SUFFICES ASSUME IInv, NEW t \in Threads, NEW u \in Threads,
                      pc[t] = "rlock", wmutex = t
               PROVE  FALSE
    BY DEF NoLockCycle
  <2>1. HasWrite(pc[t], call[t].op)
    BY DEF IInv, Held
  <2> QED
    BY <2>1 DEF HasWrite, BeforeLocks
<1> QED
  BY Invariance, <1>1, PTL

\* What the getters return is what the line does, when no setter failed half way
\* since the last open(), but for the exceptions the property lists: a custom
\* rate its driver does not take, one and a half stop bits, a CMSPAR left behind.
THEOREM SettingsInForce == Spec => []ReportedSettingsInForce
<1>1. IInv => ReportedSettingsInForce
  <2> SUFFICES ASSUME IInv, impl.isOpen, ~unapplied PROVE ReportedSettingsInForce
    BY DEF ReportedSettingsInForce
  <2>1. InForce(tty, cfg, faults)
    BY DEF IInv, Settings
  <2> QED
    BY <2>1 DEF InForce, RateInForce, ParityInForce, ReportedSettingsInForce
<1> QED
  BY Invariance, <1>1, PTL

\* setPort never closes the descriptor under a thread about to read or write it,
\* nor under one that drains it.
THEOREM SetPortWaits == Spec => SetPortSparesTransfers
<1>1. IInv /\ [Next]_vars =>
        [\A t \in Threads :
           (pc[Owner] = "closefd" /\ call[Owner].op = "setPort" /\ fds' # fds)
             => pc[t] \notin {"sys", "drain"}]_vars
  <2> SUFFICES ASSUME IInv, NEW t \in Threads, pc[t] \in {"sys", "drain"},
                      pc[Owner] = "closefd", call[Owner].op = "setPort"
               PROVE  FALSE
    OBVIOUS
  <2>1. Owner \in Threads
    BY SerialAssumption
  <2>2. rmutex = Owner /\ wmutex = Owner
    BY <2>1 DEF IInv, Held, HasRead, HasWrite, BeforeLocks, ReadLockers, WriteLockers
  <2>3. call[t].op \in Transfers \union {"flush"}
    BY ThreadFacts DEF Place
  <2>4. rmutex = t \/ wmutex = t
    BY <2>3 DEF IInv, Held, HasRead, HasWrite, BeforeLocks, ReadLockers, WriteLockers, Transfers
  <2> QED
    BY <2>2, <2>4
<1> QED
  BY Invariance, <1>1, PTL DEF Spec, SetPortSparesTransfers
=============================================================================
