---------------------------- MODULE MCTcAttach ----------------------------
(* Instances of TcAttach with two handles, so that they also collide. *)
EXTENDS TcAttach
MCHandles == {1, 2}
=============================================================================
