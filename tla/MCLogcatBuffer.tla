--------------------------- MODULE MCLogcatBuffer ----------------------------
(* An instance of LogcatBuffer: all constants are given in the .cfg.       *)
EXTENDS LogcatBuffer
=============================================================================
