----------------------------- MODULE MCLockFile -----------------------------
(* LockFile for TLC: two unrelated processes and a third client in a child of
   the first. *)
EXTENDS LockFile

MCClients   == {"a", "b", "c"}
MCProcesses == {"p1", "p2", "p3"}
MCProcessOf == [a |-> "p1", b |-> "p2", c |-> "p3"]
MCParentOf  == [p1 |-> "shell", p2 |-> "shell", p3 |-> "p1"]
=============================================================================
