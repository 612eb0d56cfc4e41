------------------------------ MODULE MCRunMode ------------------------------
(* RunMode for TLC: a request below the range, one in it and one above; a
   lidar that first turns at a speed near one request and far from the rest. *)
EXTENDS RunMode

MCRequests  == {3, 10, 20}
MCRotations == {10}
=============================================================================
