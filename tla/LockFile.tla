------------------------------- MODULE LockFile -------------------------------
(***************************************************************************)
(* The lock file of a serial device (lock.c), as SerialImpl::open and      *)
(* SerialImpl::close use it when USE_LOCK_FILE is defined.                 *)
(*                                                                         *)
(* A client is a SerialImpl object; several may live in one process.  Each *)
(* system call on the lock file is a step, for nothing holds the clients   *)
(* apart but these calls.  Processes may die between any two of them.  The *)
(* two styles of lock.c differ in one extra stat() of uucp_lock().         *)
(***************************************************************************)
EXTENDS Naturals, FiniteSets

CONSTANTS
  Clients, Processes,
  ProcessOf,       \* the process of each client
  ParentOf,        \* the parent of each process (its own parent: not a process here)
  Styles,          \* subset of {"fhs", "uucp"}
  MaxCrashes,      \* processes that may die
  MaxFaults        \* interrupted or failed system calls

File(c, p) == [by |-> c, pid |-> p]
Nobody == "nobody"
Empty == "empty"     \* in a lock file that nothing has been written to
NoFile == File(Nobody, "none")

ASSUME LockAssumption ==
  /\ ProcessOf \in [Clients -> Processes]
  /\ Empty \notin Processes /\ Nobody \notin Clients
  /\ Styles \subseteq {"fhs", "uucp"}
  /\ MaxCrashes \in Nat /\ MaxFaults \in Nat

VARIABLES
  lock,      \* the file in LOCKDIR: its creator and the process id in it, or NoFile
  foreign,   \* another program's lock file for the device in one of the other directories
  alive,     \* running processes
  pc,        \* where each client is
  pidSet,    \* clients whose field pid is not -1
  seen,      \* the lock file a client has read, in is_device_locked or check_lock_pid
  style,     \* the style the system was compiled for
  faults,
  robbed     \* history: somebody removed the lock file of another, living client

vars == <<lock, foreign, alive, pc, pidSet, seen, style, faults, robbed>>

Alive(c) == ProcessOf[c] \in alive
Holds(c) == pc[c] = "held"
Goto(c, l) == pc' = [pc EXCEPT ![c] = l]
Remember(c, file) == seen' = [seen EXCEPT ![c] = file]
Fault == faults < MaxFaults /\ faults' = faults + 1

\* Processes that check_lock_pid takes for the client's own.
Own(c) == {ProcessOf[c], ParentOf[ProcessOf[c]]}

Init ==
  /\ lock = NoFile
  /\ foreign \in BOOLEAN
  /\ alive = Processes
  /\ pc = [c \in Clients |-> "idle"]
  /\ pidSet = {}
  /\ seen = [c \in Clients |-> NoFile]
  /\ style \in Styles
  /\ faults = 0 /\ robbed = FALSE

---------------------------------------------------------------------------
\* open(): LOCK

\* open() of a closed port records the process id before it takes the lock;
\* called again after EINTR it does the same.
Open(c) ==
  /\ Alive(c) /\ pc[c] = "idle"
  /\ pidSet' = pidSet \union {c}
  /\ Goto(c, "status")
  /\ UNCHANGED <<lock, foreign, alive, seen, style, faults, robbed>>

\* Mutant of LockFails: open() resets pid when LOCK fails.
LockFailsForgets(c) == Goto(c, "idle") /\ pidSet' = pidSet \ {c}

\* LOCK returns 1: open() returns false at once, pid keeps its value.
LockFails(c) == Goto(c, "idle") /\ UNCHANGED pidSet

\* check_group_uucp() cannot make its trial file in LOCKDIR.
TrialFileFails == Fault

\* is_device_locked finds a lock for the device in a directory it does not expect.
LockedElsewhere == foreign

\* check_lock_status, up to the stale test of is_device_locked.
CheckStatus(c) ==
  /\ Alive(c) /\ pc[c] = "status"
  /\ \/ TrialFileFails /\ LockFails(c)
     \/ LockedElsewhere /\ LockFails(c) /\ UNCHANGED faults
     \/ ~LockedElsewhere /\ Goto(c, "stat") /\ UNCHANGED <<pidSet, faults>>
  /\ UNCHANGED <<lock, foreign, alive, seen, style, robbed>>

\* is_device_locked looks for the lock file in LOCKDIR; without one it is free.
StatLock(c) ==
  /\ Alive(c) /\ pc[c] = "stat"
  /\ Goto(c, IF lock = NoFile THEN "create" ELSE "readpid")
  /\ UNCHANGED <<lock, foreign, alive, pidSet, seen, style, faults, robbed>>

\* It opens and reads it; a file that has gone meanwhile makes the read fail.
ReadPid(c) ==
  /\ Alive(c) /\ pc[c] = "readpid"
  /\ IF lock = NoFile
     THEN LockFails(c) /\ UNCHANGED seen
     ELSE Remember(c, lock) /\ Goto(c, "kill") /\ UNCHANGED pidSet
  /\ UNCHANGED <<lock, foreign, alive, style, faults, robbed>>

\* Mutants of FoundDead: errno is not compared with ESRCH (a process of another
\* user is taken for dead); a dead process is taken for running.
FoundDeadAnyError(file) == BOOLEAN
FoundDeadNever(file) == {FALSE}

\* What kill(pid, 0) may say: the pid of an empty file is an uninitialised
\* variable, so any process, or none, may be asked for.
FoundDead(file) == IF file.pid = Empty THEN BOOLEAN ELSE {file.pid \notin alive}

\* A dead process's file is to be removed.  A living one's is left, and
\* is_device_locked still returns 0: only O_EXCL will stop the client.
KillTest(c) ==
  /\ Alive(c) /\ pc[c] = "kill"
  /\ \E dead \in FoundDead(seen[c]) :
       IF dead THEN Goto(c, "unlink") /\ UNCHANGED seen
       ELSE Goto(c, "create") /\ Remember(c, NoFile)
  /\ UNCHANGED <<lock, foreign, alive, pidSet, style, faults, robbed>>

\* The file of that name goes, whoever made it; none there is an error.
Robs(c) == lock # NoFile /\ lock.by # c /\ Alive(lock.by)
UnlinkStale(c) ==
  /\ Alive(c) /\ pc[c] = "unlink"
  /\ IF lock = NoFile
     THEN LockFails(c) /\ UNCHANGED <<lock, robbed>>
     ELSE lock' = NoFile /\ robbed' = (robbed \/ Robs(c)) /\ Goto(c, "create") /\ UNCHANGED pidSet
  /\ Remember(c, NoFile)
  /\ UNCHANGED <<foreign, alive, style, faults>>

\* Mutant of CreateLock: open() without O_EXCL.
CreateLockShared(c) ==
  /\ Alive(c) /\ pc[c] = "create"
  /\ lock' = File(c, Empty) /\ Goto(c, "write")
  /\ UNCHANGED <<pidSet, seen, foreign, alive, style, faults, robbed>>

\* O_CREAT | O_EXCL makes the file; one that is there ends the attempt.
\* uucp_lock stats the name once more before it.
CreateLock(c) ==
  /\ Alive(c) /\ pc[c] = "create"
  /\ IF lock # NoFile THEN LockFails(c) /\ UNCHANGED lock
     ELSE IF style = "uucp" THEN Goto(c, "probed") /\ UNCHANGED <<lock, pidSet>>
     ELSE lock' = File(c, Empty) /\ Goto(c, "write") /\ UNCHANGED pidSet
  /\ UNCHANGED <<seen, foreign, alive, style, faults, robbed>>

\* uucp_lock between its stat() and the open().
CreateProbed(c) ==
  /\ Alive(c) /\ pc[c] = "probed"
  /\ IF lock # NoFile THEN LockFails(c) /\ UNCHANGED lock
     ELSE lock' = File(c, Empty) /\ Goto(c, "write") /\ UNCHANGED pidSet
  /\ UNCHANGED <<seen, foreign, alive, style, faults, robbed>>

\* Mutant of Stored: the file is opened by its name again to write the pid.
StoredByName(c) == IF lock = NoFile THEN NoFile ELSE File(lock.by, ProcessOf[c])

\* The pid is written to the file the client made, which may have lost its name.
Stored(c) == IF lock # NoFile /\ lock.by = c THEN File(c, ProcessOf[c]) ELSE lock

\* A write() that fails ends LOCK with 1 and leaves the empty file.
WritePid(c) ==
  /\ Alive(c) /\ pc[c] = "write"
  /\ \/ lock' = Stored(c) /\ Goto(c, "opendev") /\ UNCHANGED <<pidSet, faults>>
     \/ Fault /\ LockFails(c) /\ UNCHANGED lock
  /\ UNCHANGED <<seen, foreign, alive, style, robbed>>

\* The device is opened and configured.  EINTR calls open() again, lock file
\* and all; any other failure calls close().
OpenDevice(c) ==
  /\ Alive(c) /\ pc[c] = "opendev"
  /\ \/ Goto(c, "held") /\ UNCHANGED faults
     \/ Fault /\ Goto(c, "status")
     \/ Fault /\ Goto(c, "unlock")
  /\ UNCHANGED <<lock, pidSet, seen, foreign, alive, style, robbed>>

---------------------------------------------------------------------------
\* close(): UNLOCK

\* close() of an open port, or of a closed one (the destructor calls it too).
Close(c) ==
  /\ Alive(c)
  /\ Holds(c) \/ (pc[c] = "idle" /\ c \in pidSet)
  /\ Goto(c, "unlock")
  /\ UNCHANGED <<lock, pidSet, seen, foreign, alive, style, faults, robbed>>

\* What check_lock_pid may answer; an empty file leaves its buffer as it was.
Ours(c) == IF lock.pid = Empty THEN BOOLEAN ELSE {lock.pid \in Own(c)}

\* fhs_unlock and uucp_unlock: a file with another's pid stays; pid is reset.
CheckPid(c) ==
  /\ Alive(c) /\ pc[c] = "unlock"
  /\ \E ours \in Ours(c) :
       IF ours THEN Goto(c, "remove") /\ Remember(c, lock) /\ UNCHANGED pidSet
       ELSE Goto(c, "idle") /\ pidSet' = pidSet \ {c} /\ UNCHANGED seen
  /\ UNCHANGED <<lock, foreign, alive, style, faults, robbed>>

\* The unlink of fhs_unlock, on whatever has the name by now.
RemoveLock(c) ==
  /\ Alive(c) /\ pc[c] = "remove"
  /\ lock' = NoFile /\ robbed' = (robbed \/ Robs(c))
  /\ pidSet' = pidSet \ {c} /\ Goto(c, "idle") /\ Remember(c, NoFile)
  /\ UNCHANGED <<foreign, alive, style, faults>>

---------------------------------------------------------------------------
\* A process dies with all its clients; the lock file stays.
Crash(p) ==
  LET gone == {c \in Clients : ProcessOf[c] = p}
  IN  /\ p \in alive /\ Cardinality(Processes \ alive) < MaxCrashes
      /\ alive' = alive \ {p}
      /\ pc' = [c \in Clients |-> IF c \in gone THEN "idle" ELSE pc[c]]
      /\ seen' = [c \in Clients |-> IF c \in gone THEN NoFile ELSE seen[c]]
      /\ pidSet' = pidSet \ gone
      /\ UNCHANGED <<lock, foreign, style, faults, robbed>>

\* The other program makes its lock file, or takes it away.
ForeignComesOrGoes ==
  /\ foreign' = ~foreign
  /\ UNCHANGED <<lock, alive, pc, pidSet, seen, style, faults, robbed>>

Step(c) ==
  \/ CheckStatus(c) \/ StatLock(c) \/ ReadPid(c) \/ KillTest(c) \/ UnlinkStale(c)
  \/ CreateLock(c) \/ CreateProbed(c) \/ WritePid(c) \/ OpenDevice(c)
  \/ CheckPid(c) \/ RemoveLock(c)

Next ==
  \/ \E c \in Clients : Open(c) \/ Close(c) \/ Step(c)
  \/ \E p \in Processes : Crash(p)
  \/ ForeignComesOrGoes

\* Living clients are scheduled and keep trying to open the port, as the scan
\* node's connection loop does; nobody has to close it, and the other program
\* may keep its lock for ever.
Fairness == \A c \in Clients : WF_vars(Step(c)) /\ WF_vars(Open(c))

Spec == Init /\ [][Next]_vars /\ Fairness

---------------------------------------------------------------------------
Labels == {"idle", "status", "stat", "readpid", "kill", "unlink", "create", "probed",
           "write", "opendev", "held", "unlock", "remove"}
Files == [by : Clients, pid : Processes \union {Empty}]

\* Types, and: a lock file holds nothing or the process id of its creator.
TypeOK ==
  /\ lock \in Files \union {NoFile}
  /\ lock # NoFile => lock.pid \in {Empty, ProcessOf[lock.by]}
  /\ foreign \in BOOLEAN /\ alive \subseteq Processes
  /\ pc \in [Clients -> Labels] /\ pidSet \subseteq Clients
  /\ seen \in [Clients -> Files \union {NoFile}]
  /\ style \in Styles /\ faults \in 0..MaxFaults /\ robbed \in BOOLEAN

\* Living clients that have the device open.
Holders == {c \in Clients : Alive(c) /\ Holds(c)}

\* Until a client's lock file is removed by somebody else, at most one client
\* has the device open, crashes, stale files and interrupted opens included.
ExclusiveUntilRobbed == ~robbed => \A c, d \in Holders : c = d

\* The only ways to lose a lock file while living: the remover judged a file of
\* the same name that was another one, or this one still empty; or it is of the
\* same process or of a child of it, for which check_lock_pid answers "ours".
\* A client that read the pid of another running process never removes the file.
LockLostOnlyInWindow ==
  [][\A c, d \in Clients :
       (/\ c # d /\ Alive(d) /\ lock # NoFile /\ lock.by = d /\ lock' = NoFile
        /\ pc[c] \in {"unlink", "remove"} /\ pc'[c] # pc[c])
       => \/ seen[c].by # d \/ seen[c].pid = Empty
          \/ pc[c] = "remove" /\ ProcessOf[d] \in Own(c)]_vars

\* A written lock file that an attempt to open left behind (interrupted, its
\* device not opened) can still be released: the object's pid is set, so that
\* the next close() or the destructor removes the file.
LeftoverReleasable ==
  \A c \in Clients :
    (Alive(c) /\ pc[c] = "idle" /\ lock # NoFile /\ lock.by = c /\ lock.pid # Empty) => c \in pidSet

\* The written file of a process that died is removed as long as somebody still
\* tries to open the device and no other program keeps a lock in one of the
\* other directories.  That lock is never tested for staleness: while it stands
\* LOCK returns 1, though is_device_locked is said to remove a stale lock among
\* "the many possible lock files".  Nor does this speak of a process that dies
\* between making its file and writing its pid: whether the empty file goes is a
\* matter of chance.
Stale == lock # NoFile /\ lock.pid \in Processes \ alive
StaleLockCleared ==
  <>[](~foreign) => (Stale ~> (~Stale \/ \A c \in Clients : Alive(c) => Holds(c)))
=============================================================================
