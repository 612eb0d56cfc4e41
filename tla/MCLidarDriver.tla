---------------------------- MODULE MCLidarDriver ----------------------------
(* LidarDriver for TLC.  Three frames let the receive thread overwrite each
   buffer twice while one Grab call is under way. *)
EXTENDS LidarDriver

=============================================================================
