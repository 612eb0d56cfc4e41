---------------------------- MODULE LockFileProofs ----------------------------
(***************************************************************************)
(* The safety of the lock file for every number of clients and processes,  *)
(* crashes and faults: what TLC checks for three clients holds for all.    *)
(***************************************************************************)
EXTENDS LockFile, TLAPS

\* A file that was read held what its creator writes.  One that is about to be
\* removed was empty or a dead process's (unlink), or empty or the client's own
\* (remove).
SeenFiles ==
  \A c \in Clients :
    /\ seen[c] # NoFile => seen[c].pid \in {Empty, ProcessOf[seen[c].by]}
    /\ pc[c] = "unlink" => seen[c].pid = Empty \/ seen[c].pid \notin alive
    /\ pc[c] = "remove" => seen[c].pid = Empty \/ seen[c].pid \in Own(c)

\* Between open() and the end of close() the field pid is set.
Registered == \A c \in Clients : pc[c] # "idle" => c \in pidSet

\* From the creation of its lock file on a client has it, unless robbed.
Created == {"write", "opendev", "held"}
CreatorHasLock ==
  ~robbed => \A c \in Clients :
    Alive(c) /\ pc[c] \in Created => lock # NoFile /\ lock.by = c

-----------------------------------------------------------------------------
\* What the records and the two placeholders are.
LEMMA FileFacts ==
  /\ \A c, p : File(c, p).by = c /\ File(c, p).pid = p
  /\ \A c \in Clients : \A p : File(c, p) # NoFile
  /\ \A c \in Clients : \A p \in Processes \union {Empty} : File(c, p) \in Files
  /\ \A f \in Files : f.by \in Clients /\ f.pid \in Processes \union {Empty}
  /\ \A f \in Files : f # NoFile
<1>1. \A c, p : File(c, p).by = c /\ File(c, p).pid = p
  BY DEF File
<1>2. \A c \in Clients : \A p : File(c, p) # NoFile
  <2> SUFFICES ASSUME NEW c \in Clients, NEW p, File(c, p) = NoFile PROVE FALSE
    OBVIOUS
  <2>1. File(c, p).by = c
    BY <1>1
  <2>2. NoFile.by = Nobody
    BY <1>1 DEF NoFile
  <2> QED
    BY <2>1, <2>2, LockAssumption
<1>3. \A c \in Clients : \A p \in Processes \union {Empty} : File(c, p) \in Files
  BY DEF File, Files
<1>4. \A f \in Files : f.by \in Clients /\ f.pid \in Processes \union {Empty}
  BY DEF Files
<1>5. \A f \in Files : f # NoFile
  <2> SUFFICES ASSUME NEW f \in Files, f = NoFile PROVE FALSE
    OBVIOUS
  <2>1. NoFile.by = Nobody
    BY <1>1 DEF NoFile
  <2> QED
    BY <2>1, <1>4, LockAssumption
<1> QED
  BY <1>1, <1>2, <1>3, <1>4, <1>5

\* Type correctness of the initial states.
LEMMA InitType == Init => TypeOK
<1> SUFFICES ASSUME Init PROVE TypeOK
  OBVIOUS
<1>1. lock \in Files \union {NoFile} /\ (lock # NoFile => lock.pid \in {Empty, ProcessOf[lock.by]})
  BY DEF Init
<1>2. foreign \in BOOLEAN /\ alive \subseteq Processes
  BY Zenon DEF Init
<1>3. pc \in [Clients -> Labels] /\ pidSet \subseteq Clients
  BY DEF Init, Labels
<1>4. seen \in [Clients -> Files \union {NoFile}]
  BY DEF Init
<1>5. style \in Styles /\ faults \in 0..MaxFaults
  BY LockAssumption DEF Init
<1>6. robbed \in BOOLEAN
  BY Zenon DEF Init
<1> QED
  BY <1>1, <1>2, <1>3, <1>4, <1>5, <1>6 DEF TypeOK

\* Type correctness is inductive; the Boolean-valued variables come apart from
\* the rest, one step per action in both.
LEMMA TypeStep == TypeOK /\ [Next]_vars => TypeOK'
<1> SUFFICES ASSUME TypeOK, [Next]_vars PROVE TypeOK'
  OBVIOUS
<1>1. foreign' \in BOOLEAN /\ robbed' \in BOOLEAN
  <2> DEFINE Flags == foreign' \in BOOLEAN /\ robbed' \in BOOLEAN
  <2>1. foreign \in BOOLEAN /\ robbed \in BOOLEAN
    BY DEF TypeOK
  <2>2. CASE UNCHANGED vars
    BY Zenon, <2>1, <2>2 DEF vars
  <2>3. ASSUME NEW c \in Clients, Open(c) PROVE Flags
    BY Zenon, <2>1, <2>3 DEF Open
  <2>4. ASSUME NEW c \in Clients, Close(c) PROVE Flags
    BY Zenon, <2>1, <2>4 DEF Close
  <2>5. ASSUME NEW c \in Clients, CheckStatus(c) PROVE Flags
    BY Zenon, <2>1, <2>5 DEF CheckStatus
  <2>6. ASSUME NEW c \in Clients, StatLock(c) PROVE Flags
    BY Zenon, <2>1, <2>6 DEF StatLock
  <2>7. ASSUME NEW c \in Clients, ReadPid(c) PROVE Flags
    BY Zenon, <2>1, <2>7 DEF ReadPid
  <2>8. ASSUME NEW c \in Clients, KillTest(c) PROVE Flags
    BY Zenon, <2>1, <2>8 DEF KillTest
  <2>9. ASSUME NEW c \in Clients, UnlinkStale(c) PROVE Flags
    BY Zenon, <2>1, <2>9 DEF UnlinkStale
  <2>10. ASSUME NEW c \in Clients, CreateLock(c) PROVE Flags
    BY Zenon, <2>1, <2>10 DEF CreateLock
  <2>11. ASSUME NEW c \in Clients, CreateProbed(c) PROVE Flags
    BY Zenon, <2>1, <2>11 DEF CreateProbed
  <2>12. ASSUME NEW c \in Clients, WritePid(c) PROVE Flags
    BY Zenon, <2>1, <2>12 DEF WritePid
  <2>13. ASSUME NEW c \in Clients, OpenDevice(c) PROVE Flags
    BY Zenon, <2>1, <2>13 DEF OpenDevice
  <2>14. ASSUME NEW c \in Clients, CheckPid(c) PROVE Flags
    BY Zenon, <2>1, <2>14 DEF CheckPid
  <2>15. ASSUME NEW c \in Clients, RemoveLock(c) PROVE Flags
    BY Zenon, <2>1, <2>15 DEF RemoveLock
  <2>16. ASSUME NEW p \in Processes, Crash(p) PROVE Flags
    BY Zenon, <2>1, <2>16 DEF Crash
  <2>17. CASE ForeignComesOrGoes
    BY Zenon, <2>1, <2>17 DEF ForeignComesOrGoes
  <2> QED
    BY <2>2, <2>3, <2>4, <2>5, <2>6, <2>7, <2>8, <2>9, <2>10, <2>11, <2>12, <2>13, <2>14, <2>15, <2>16, <2>17 DEF Next, Step
<1> DEFINE Rest ==
      /\ lock' \in Files \union {NoFile}
      /\ lock' # NoFile => lock'.pid \in {Empty, ProcessOf[lock'.by]}
      /\ alive' \subseteq Processes
      /\ pc' \in [Clients -> Labels] /\ pidSet' \subseteq Clients
      /\ seen' \in [Clients -> Files \union {NoFile}]
      /\ style' \in Styles /\ faults' \in 0..MaxFaults
<1> USE FileFacts, LockAssumption DEF TypeOK, Labels, Goto
<1>2. CASE UNCHANGED vars
  BY <1>2 DEF vars
<1>3. ASSUME NEW c \in Clients, Open(c) PROVE Rest
  BY <1>3 DEF Open
<1>4. ASSUME NEW c \in Clients, Close(c) PROVE Rest
  BY <1>4 DEF Close, Holds
<1>5. ASSUME NEW c \in Clients, CheckStatus(c) PROVE Rest
  BY <1>5, SMTT(30) DEF CheckStatus, TrialFileFails, LockedElsewhere, Fault, LockFails
<1>6. ASSUME NEW c \in Clients, StatLock(c) PROVE Rest
  BY <1>6 DEF StatLock
<1>7. ASSUME NEW c \in Clients, ReadPid(c) PROVE Rest
  BY <1>7 DEF ReadPid, LockFails, Remember
<1>8. ASSUME NEW c \in Clients, KillTest(c) PROVE Rest
  BY <1>8 DEF KillTest, Remember
<1>9. ASSUME NEW c \in Clients, UnlinkStale(c) PROVE Rest
  BY <1>9 DEF UnlinkStale, LockFails, Remember
<1>10. ASSUME NEW c \in Clients, CreateLock(c) PROVE Rest
  BY <1>10 DEF CreateLock, LockFails
<1>11. ASSUME NEW c \in Clients, CreateProbed(c) PROVE Rest
  BY <1>11 DEF CreateProbed, LockFails
<1>12. ASSUME NEW c \in Clients, WritePid(c) PROVE Rest
  BY <1>12 DEF WritePid, Fault, LockFails, Stored
<1>13. ASSUME NEW c \in Clients, OpenDevice(c) PROVE Rest
  BY <1>13, SMTT(30) DEF OpenDevice, Fault
<1>14. ASSUME NEW c \in Clients, CheckPid(c) PROVE Rest
  BY <1>14, SMTT(30) DEF CheckPid, Remember
<1>15. ASSUME NEW c \in Clients, RemoveLock(c) PROVE Rest
  BY <1>15 DEF RemoveLock, Remember
<1>16. ASSUME NEW p \in Processes, Crash(p) PROVE Rest
  BY <1>16 DEF Crash
<1>17. CASE ForeignComesOrGoes
  BY <1>17 DEF ForeignComesOrGoes
<1>18. Rest
  BY <1>2, <1>3, <1>4, <1>5, <1>6, <1>7, <1>8, <1>9, <1>10, <1>11, <1>12, <1>13, <1>14, <1>15, <1>16, <1>17 DEF Next, Step
<1> QED
  BY <1>1, <1>18

-----------------------------------------------------------------------------
\* The strengthening that makes the properties inductive.
IInv == TypeOK /\ SeenFiles /\ Registered /\ CreatorHasLock /\ LeftoverReleasable

\* It holds in the initial states: no file, nothing read, no field set.
LEMMA InitInv == Init => IInv
<1> SUFFICES ASSUME Init PROVE IInv
  OBVIOUS
<1>1. TypeOK
  BY InitType
<1>2. SeenFiles /\ Registered
  BY DEF Init, SeenFiles, Registered
<1>3. CreatorHasLock /\ LeftoverReleasable
  BY DEF Init, CreatorHasLock, LeftoverReleasable, Created
<1> QED
  BY <1>1, <1>2, <1>3 DEF IInv

\* What was read stays true: processes only die, and a dead process's clients
\* forget.
LEMMA SeenStep == TypeOK /\ SeenFiles /\ [Next]_vars => SeenFiles'
<1> SUFFICES ASSUME TypeOK, SeenFiles, [Next]_vars PROVE SeenFiles'
  OBVIOUS
<1> USE FileFacts, LockAssumption DEF TypeOK, SeenFiles, Goto, Alive, Own
<1>1. CASE UNCHANGED vars
  BY <1>1 DEF vars
<1>2. ASSUME NEW c \in Clients, Open(c) PROVE SeenFiles'
  BY <1>2 DEF Open
<1>3. ASSUME NEW c \in Clients, Close(c) PROVE SeenFiles'
  BY <1>3 DEF Close, Holds
<1>4. ASSUME NEW c \in Clients, CheckStatus(c) PROVE SeenFiles'
  BY <1>4 DEF CheckStatus, TrialFileFails, LockedElsewhere, Fault, LockFails
<1>5. ASSUME NEW c \in Clients, StatLock(c) PROVE SeenFiles'
  BY <1>5 DEF StatLock
<1>6. ASSUME NEW c \in Clients, ReadPid(c) PROVE SeenFiles'
  BY <1>6 DEF ReadPid, LockFails, Remember
<1>7. ASSUME NEW c \in Clients, KillTest(c) PROVE SeenFiles'
  <2>1. PICK dead \in FoundDead(seen[c]) :
          IF dead THEN Goto(c, "unlink") /\ UNCHANGED seen
          ELSE Goto(c, "create") /\ Remember(c, NoFile)
    BY <1>7 DEF KillTest
  <2>2. dead => seen[c].pid = Empty \/ seen[c].pid \notin alive
    BY Zenon DEF FoundDead
  <2>3. alive' = alive
    BY <1>7 DEF KillTest
  <2>4. CASE dead
    BY <2>1, <2>2, <2>3, <2>4
  <2>5. CASE ~dead
    BY <2>1, <2>3, <2>5 DEF Remember
  <2> QED
    BY <2>4, <2>5
<1>8. ASSUME NEW c \in Clients, UnlinkStale(c) PROVE SeenFiles'
  BY <1>8 DEF UnlinkStale, LockFails, Remember, Robs
<1>9. ASSUME NEW c \in Clients, CreateLock(c) PROVE SeenFiles'
  BY <1>9 DEF CreateLock, LockFails
<1>10. ASSUME NEW c \in Clients, CreateProbed(c) PROVE SeenFiles'
  BY <1>10 DEF CreateProbed, LockFails
<1>11. ASSUME NEW c \in Clients, WritePid(c) PROVE SeenFiles'
  BY <1>11 DEF WritePid, Fault, LockFails, Stored
<1>12. ASSUME NEW c \in Clients, OpenDevice(c) PROVE SeenFiles'
  BY <1>12 DEF OpenDevice, Fault
<1>13. ASSUME NEW c \in Clients, CheckPid(c) PROVE SeenFiles'
  <2>1. PICK ours \in Ours(c) :
          IF ours THEN Goto(c, "remove") /\ Remember(c, lock) /\ UNCHANGED pidSet
          ELSE Goto(c, "idle") /\ pidSet' = pidSet \ {c} /\ UNCHANGED seen
    BY <1>13 DEF CheckPid
  <2>2. ours => lock.pid = Empty \/ lock.pid \in Own(c)
    BY Zenon DEF Ours
  <2>3. alive' = alive
    BY <1>13 DEF CheckPid
  <2>4. CASE ours
    BY <2>1, <2>2, <2>3, <2>4 DEF Remember
  <2>5. CASE ~ours
    BY <2>1, <2>3, <2>5
  <2> QED
    BY <2>4, <2>5
<1>14. ASSUME NEW c \in Clients, RemoveLock(c) PROVE SeenFiles'
  BY <1>14 DEF RemoveLock, Remember, Robs
<1>15. ASSUME NEW p \in Processes, Crash(p) PROVE SeenFiles'
  BY <1>15 DEF Crash
<1>16. CASE ForeignComesOrGoes
  BY <1>16 DEF ForeignComesOrGoes
<1> QED
  BY <1>1, <1>2, <1>3, <1>4, <1>5, <1>6, <1>7, <1>8, <1>9, <1>10, <1>11, <1>12, <1>13, <1>14, <1>15, <1>16 DEF Next, Step

\* The field pid is reset only where a client becomes idle.
LEMMA RegisteredStep == TypeOK /\ Registered /\ [Next]_vars => Registered'
<1> SUFFICES ASSUME TypeOK, Registered, [Next]_vars PROVE Registered'
  OBVIOUS
<1> USE DEF TypeOK, Registered, Goto, Alive
<1>1. CASE UNCHANGED vars
  BY <1>1 DEF vars
<1>2. ASSUME NEW c \in Clients, Open(c) PROVE Registered'
  BY <1>2 DEF Open
<1>3. ASSUME NEW c \in Clients, Close(c) PROVE Registered'
  BY <1>3 DEF Close, Holds
<1>4. ASSUME NEW c \in Clients, CheckStatus(c) PROVE Registered'
  BY <1>4 DEF CheckStatus, TrialFileFails, LockedElsewhere, Fault, LockFails
<1>5. ASSUME NEW c \in Clients, StatLock(c) PROVE Registered'
  BY <1>5 DEF StatLock
<1>6. ASSUME NEW c \in Clients, ReadPid(c) PROVE Registered'
  BY <1>6 DEF ReadPid, LockFails, Remember
<1>7. ASSUME NEW c \in Clients, KillTest(c) PROVE Registered'
  BY <1>7 DEF KillTest, Remember, FoundDead
<1>8. ASSUME NEW c \in Clients, UnlinkStale(c) PROVE Registered'
  BY <1>8 DEF UnlinkStale, LockFails, Remember, Robs
<1>9. ASSUME NEW c \in Clients, CreateLock(c) PROVE Registered'
  BY <1>9 DEF CreateLock, LockFails
<1>10. ASSUME NEW c \in Clients, CreateProbed(c) PROVE Registered'
  BY <1>10 DEF CreateProbed, LockFails
<1>11. ASSUME NEW c \in Clients, WritePid(c) PROVE Registered'
  BY <1>11 DEF WritePid, Fault, LockFails, Stored
<1>12. ASSUME NEW c \in Clients, OpenDevice(c) PROVE Registered'
  BY <1>12 DEF OpenDevice, Fault
<1>13. ASSUME NEW c \in Clients, CheckPid(c) PROVE Registered'
  BY <1>13 DEF CheckPid, Remember, Ours
<1>14. ASSUME NEW c \in Clients, RemoveLock(c) PROVE Registered'
  BY <1>14 DEF RemoveLock, Remember, Robs
<1>15. ASSUME NEW p \in Processes, Crash(p) PROVE Registered'
  BY <1>15 DEF Crash
<1>16. CASE ForeignComesOrGoes
  BY <1>16 DEF ForeignComesOrGoes
<1> QED
  BY <1>1, <1>2, <1>3, <1>4, <1>5, <1>6, <1>7, <1>8, <1>9, <1>10, <1>11, <1>12, <1>13, <1>14, <1>15, <1>16 DEF Next, Step

\* Only O_EXCL on a free name, or a robbery, gives the name to another file.
LEMMA CreatorStep == TypeOK /\ CreatorHasLock /\ [Next]_vars => CreatorHasLock'
<1> SUFFICES ASSUME TypeOK, CreatorHasLock, [Next]_vars PROVE CreatorHasLock'
  OBVIOUS
<1> USE FileFacts, LockAssumption DEF TypeOK, CreatorHasLock, Created, Goto, Alive
<1>1. CASE UNCHANGED vars
  BY <1>1 DEF vars
<1>2. ASSUME NEW c \in Clients, Open(c) PROVE CreatorHasLock'
  BY <1>2 DEF Open
<1>3. ASSUME NEW c \in Clients, Close(c) PROVE CreatorHasLock'
  BY <1>3 DEF Close, Holds
<1>4. ASSUME NEW c \in Clients, CheckStatus(c) PROVE CreatorHasLock'
  BY <1>4 DEF CheckStatus, TrialFileFails, LockedElsewhere, Fault, LockFails
<1>5. ASSUME NEW c \in Clients, StatLock(c) PROVE CreatorHasLock'
  BY <1>5 DEF StatLock
<1>6. ASSUME NEW c \in Clients, ReadPid(c) PROVE CreatorHasLock'
  BY <1>6 DEF ReadPid, LockFails, Remember
<1>7. ASSUME NEW c \in Clients, KillTest(c) PROVE CreatorHasLock'
  BY <1>7 DEF KillTest, Remember, FoundDead
<1>8. ASSUME NEW c \in Clients, UnlinkStale(c) PROVE CreatorHasLock'
  <2>1. CASE lock = NoFile
    BY <1>8, <2>1 DEF UnlinkStale, LockFails
  <2>2. CASE lock # NoFile
    <3>1. ~robbed' => ~robbed /\ ~Robs(c)
      BY Zenon, <1>8, <2>2 DEF UnlinkStale
    <3>2. pc' = [pc EXCEPT ![c] = "create"] /\ alive' = alive
      BY <1>8, <2>2 DEF UnlinkStale
    <3> QED
      BY <2>2, <3>1, <3>2 DEF Robs
  <2> QED
    BY <2>1, <2>2
<1>9. ASSUME NEW c \in Clients, CreateLock(c) PROVE CreatorHasLock'
  BY <1>9 DEF CreateLock, LockFails
<1>10. ASSUME NEW c \in Clients, CreateProbed(c) PROVE CreatorHasLock'
  BY <1>10 DEF CreateProbed, LockFails
<1>11. ASSUME NEW c \in Clients, WritePid(c) PROVE CreatorHasLock'
  BY <1>11 DEF WritePid, Fault, LockFails, Stored
<1>12. ASSUME NEW c \in Clients, OpenDevice(c) PROVE CreatorHasLock'
  BY <1>12 DEF OpenDevice, Fault
<1>13. ASSUME NEW c \in Clients, CheckPid(c) PROVE CreatorHasLock'
  BY <1>13 DEF CheckPid, Remember, Ours
<1>14. ASSUME NEW c \in Clients, RemoveLock(c) PROVE CreatorHasLock'
  BY <1>14, ZenonT(40) DEF RemoveLock, Remember, Robs
<1>15. ASSUME NEW p \in Processes, Crash(p) PROVE CreatorHasLock'
  BY <1>15 DEF Crash
<1>16. CASE ForeignComesOrGoes
  BY <1>16 DEF ForeignComesOrGoes
<1> QED
  BY <1>1, <1>2, <1>3, <1>4, <1>5, <1>6, <1>7, <1>8, <1>9, <1>10, <1>11, <1>12, <1>13, <1>14, <1>15, <1>16 DEF Next, Step

\* A failed LOCK leaves the field pid set; an UNLOCK that resets it has found
\* another's pid in the file, or removed the file.
LEMMA LeftoverStep == TypeOK /\ Registered /\ LeftoverReleasable /\ [Next]_vars => LeftoverReleasable'
<1> SUFFICES ASSUME TypeOK, Registered, LeftoverReleasable, [Next]_vars PROVE LeftoverReleasable'
  OBVIOUS
<1> USE FileFacts, LockAssumption DEF TypeOK, Registered, LeftoverReleasable, Goto, Alive, Own
<1>1. CASE UNCHANGED vars
  BY <1>1 DEF vars
<1>2. ASSUME NEW c \in Clients, Open(c) PROVE LeftoverReleasable'
  BY <1>2 DEF Open
<1>3. ASSUME NEW c \in Clients, Close(c) PROVE LeftoverReleasable'
  BY <1>3 DEF Close, Holds
<1>4. ASSUME NEW c \in Clients, CheckStatus(c) PROVE LeftoverReleasable'
  BY <1>4 DEF CheckStatus, TrialFileFails, LockedElsewhere, Fault, LockFails
<1>5. ASSUME NEW c \in Clients, StatLock(c) PROVE LeftoverReleasable'
  BY <1>5 DEF StatLock
<1>6. ASSUME NEW c \in Clients, ReadPid(c) PROVE LeftoverReleasable'
  BY <1>6 DEF ReadPid, LockFails, Remember
<1>7. ASSUME NEW c \in Clients, KillTest(c) PROVE LeftoverReleasable'
  BY <1>7 DEF KillTest, Remember, FoundDead
<1>8. ASSUME NEW c \in Clients, UnlinkStale(c) PROVE LeftoverReleasable'
  BY <1>8 DEF UnlinkStale, LockFails, Remember, Robs
<1>9. ASSUME NEW c \in Clients, CreateLock(c) PROVE LeftoverReleasable'
  BY <1>9 DEF CreateLock, LockFails
<1>10. ASSUME NEW c \in Clients, CreateProbed(c) PROVE LeftoverReleasable'
  BY <1>10 DEF CreateProbed, LockFails
<1>11. ASSUME NEW c \in Clients, WritePid(c) PROVE LeftoverReleasable'
  BY <1>11 DEF WritePid, Fault, LockFails, Stored
<1>12. ASSUME NEW c \in Clients, OpenDevice(c) PROVE LeftoverReleasable'
  BY <1>12 DEF OpenDevice, Fault
<1>13. ASSUME NEW c \in Clients, CheckPid(c) PROVE LeftoverReleasable'
  BY <1>13, ZenonT(40) DEF CheckPid, Remember, Ours
<1>14. ASSUME NEW c \in Clients, RemoveLock(c) PROVE LeftoverReleasable'
  BY <1>14 DEF RemoveLock, Remember, Robs
<1>15. ASSUME NEW p \in Processes, Crash(p) PROVE LeftoverReleasable'
  BY <1>15 DEF Crash
<1>16. CASE ForeignComesOrGoes
  BY <1>16 DEF ForeignComesOrGoes
<1> QED
  BY <1>1, <1>2, <1>3, <1>4, <1>5, <1>6, <1>7, <1>8, <1>9, <1>10, <1>11, <1>12, <1>13, <1>14, <1>15, <1>16 DEF Next, Step

\* Every step keeps it, part by part.
LEMMA InvStep == IInv /\ [Next]_vars => IInv'
BY TypeStep, SeenStep, RegisteredStep, CreatorStep, LeftoverStep DEF IInv

\* It is an invariant of the specification.
LEMMA Invariance == Spec => []IInv
<1>1. IInv /\ [Next]_vars => IInv'
  BY InvStep
<1> QED
  BY InitInv, <1>1, PTL DEF Spec

-----------------------------------------------------------------------------
\* Types of the lock file, and that a lock file holds nothing or its creator's
\* process id, for every number of clients, crashes and faults.
THEOREM TypeCorrect == Spec => []TypeOK
<1>1. IInv => TypeOK
  BY DEF IInv
<1> QED
  BY Invariance, <1>1, PTL

\* LOCK excludes: as long as nobody removes a living client's file, at most one
\* client has the device open.
THEOREM Exclusive == Spec => []ExclusiveUntilRobbed
<1>1. IInv => ExclusiveUntilRobbed
  BY DEF IInv, ExclusiveUntilRobbed, Holders, CreatorHasLock, Created, Holds
<1> QED
  BY Invariance, <1>1, PTL

\* What an interrupted or failed open leaves behind can be released: the
\* destructor's close() finds the field pid set.
THEOREM Leftover == Spec => []LeftoverReleasable
<1>1. IInv => LeftoverReleasable
  BY DEF IInv
<1> QED
  BY Invariance, <1>1, PTL

\* A living client loses its file only to one that had judged another file of
\* that name, or this one before its pid was written, or that is of its family.
THEOREM LostOnlyInWindow == Spec => LockLostOnlyInWindow
<1> DEFINE Window ==
      \A c, d \in Clients :
        (/\ c # d /\ Alive(d) /\ lock # NoFile /\ lock.by = d /\ lock' = NoFile
         /\ pc[c] \in {"unlink", "remove"} /\ pc'[c] # pc[c])
        => \/ seen[c].by # d \/ seen[c].pid = Empty
           \/ pc[c] = "remove" /\ ProcessOf[d] \in Own(c)
<1>1. IInv => Window
  <2> SUFFICES ASSUME IInv, NEW c \in Clients, NEW d \in Clients, Alive(d),
                      pc[c] \in {"unlink", "remove"}, seen[c].by = d, seen[c].pid # Empty
               PROVE  pc[c] = "remove" /\ ProcessOf[d] \in Own(c)
    OBVIOUS
  <2>1. seen[c] # NoFile
    BY FileFacts, LockAssumption DEF NoFile
  <2>2. seen[c].pid = ProcessOf[d]
    BY <2>1 DEF IInv, SeenFiles
  <2> QED
    BY <2>2 DEF IInv, SeenFiles, Alive
<1>2. Window => [Window]_vars
  OBVIOUS
<1> QED
  BY Invariance, <1>1, PTL DEF LockLostOnlyInWindow
=============================================================================
