----------------------------- MODULE MCVecPool -------------------------------
(* Pools of up to two vectors: all constants are given in the .cfg. *)
EXTENDS VecPool
=============================================================================
