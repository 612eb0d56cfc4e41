-------------------------------- MODULE Nodes --------------------------------
(***************************************************************************)
(* The parts of the robot's software that handle one stream each: the      *)
(* start-up parser of the lidar driver, the lidar's node, the chassis node *)
(* and the IMU node.  They share nothing, so the behaviours of all are     *)
(* those of one at a time: part says which one runs.  A part that does not *)
(* run stays in one of its initial states.                                 *)
(***************************************************************************)
EXTENDS InitInfo, ScanNode, LgvController, WitImu

VARIABLE part

vars == <<part, infoVars, nodeVars, lgvVars, imuVars>>

Init ==
  /\ part \in {"info", "node", "lgv", "imu"}
  /\ InitInfoInit /\ NodeInit /\ LgvInit /\ ImuInit
  /\ part # "node" => /\ ~ranging /\ ~clockwise /\ ~saturates
                      /\ limits = CHOOSE l \in Limits : TRUE
  /\ part # "lgv" => rbuf = [i \in 0 .. BufLen - 1 |-> Junk(FALSE)]
  /\ part # "imu" => type = 1 /\ Idle

Next ==
  \/ /\ part = "info" /\ InitInfoNext
     /\ UNCHANGED <<part, nodeVars, lgvVars, imuVars>>
  \/ /\ part = "node" /\ NodeNext
     /\ UNCHANGED <<part, infoVars, lgvVars, imuVars>>
  \/ /\ part = "lgv" /\ LgvNext
     /\ UNCHANGED <<part, infoVars, nodeVars, imuVars>>
  \/ /\ part = "imu" /\ ImuNext
     /\ UNCHANGED <<part, infoVars, nodeVars, lgvVars>>

Spec == Init /\ [][Next]_vars

-----------------------------------------------------------------------------
\* The type invariants of the four modules.
NodesTypeOK == InitInfoTypeOK /\ NodeTypeOK /\ LgvTypeOK /\ ImuTypeOK

=============================================================================
