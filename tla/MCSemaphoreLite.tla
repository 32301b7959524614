--------------------------- MODULE MCSemaphoreLite ---------------------------
(* SemaphoreLite shared by three threads, each free to make any call.      *)
EXTENDS SemaphoreLite

CONSTANTS t1, t2, t3
=============================================================================
