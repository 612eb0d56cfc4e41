----------------------------- MODULE ScanSession -----------------------------
(***************************************************************************)
(* What a session with the lidar promises the application about the        *)
(* delivery of scans, whatever the threads of the driver do: a scan is     *)
(* announced only while the driver is connected, a Grab call that succeeds *)
(* uses up one announcement of its channel, and Disconnect withdraws all.  *)
(* A new announcement replaces an older one, and an announcement may be    *)
(* withdrawn or missed: nothing promises that every scan is delivered.     *)
(***************************************************************************)
CONSTANT Channels   \* full circles and single frames

VARIABLES
  open,      \* the driver is connected
  offered,   \* the channels whose latest scan is announced and not taken
  grabbing   \* the channel whose Grab call has taken a scan, none or one

vars == <<open, offered, grabbing>>

\* Before the first Disconnect anything may seem to be announced.
Init ==
  /\ open = FALSE
  /\ offered \in SUBSET Channels
  /\ grabbing = {}

Open ==
  /\ ~open /\ grabbing = {}
  /\ open' = TRUE
  /\ UNCHANGED <<offered, grabbing>>

Close ==
  /\ grabbing = {}
  /\ open' = FALSE
  /\ offered' = {}
  /\ UNCHANGED grabbing

Announce(c) ==
  /\ open
  /\ offered' = offered \cup {c}
  /\ UNCHANGED <<open, grabbing>>

Withdraw(c) ==
  /\ open
  /\ offered' = offered \ {c}
  /\ UNCHANGED <<open, grabbing>>

Take(c) ==
  /\ grabbing = {}
  /\ c \in offered
  /\ offered' = offered \ {c}
  /\ grabbing' = {c}
  /\ UNCHANGED open

Return ==
  /\ grabbing # {}
  /\ grabbing' = {}
  /\ UNCHANGED <<open, offered>>

Next == \/ Open \/ Close \/ Return
        \/ \E c \in Channels : Announce(c) \/ Withdraw(c) \/ Take(c)

Spec == Init /\ [][Next]_vars
=============================================================================
