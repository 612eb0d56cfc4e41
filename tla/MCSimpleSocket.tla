---------------------------- MODULE MCSimpleSocket ----------------------------
(* SimpleSocket for TLC: the objects of both roles and both protocols. *)
EXTENDS SimpleSocket
=============================================================================
