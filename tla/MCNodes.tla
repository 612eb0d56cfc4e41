------------------------------- MODULE MCNodes -------------------------------
(* Nodes for TLC: the constants that a .cfg cannot say. *)
EXTENDS Nodes

MCNoise      == {<<1, 5>>, <<170, 85>>}
MCDistances  == {1, 3}
MCLimits     == {<<0, 6>>, <<0, 3>>}
MCVelocities == {-9, 3}
MCPayloads   == {<<0, 0>>, <<5, 1>>, <<1, 3>>, <<5, 3>>}

=============================================================================
