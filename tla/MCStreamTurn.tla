---------------------------- MODULE MCStreamTurn ----------------------------
(* Instances of StreamTurn for TLC: the sizes are given in the cfg files. *)
EXTENDS StreamTurn
=============================================================================
