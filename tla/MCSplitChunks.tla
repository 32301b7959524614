--------------------------- MODULE MCSplitChunks -----------------------------
(* Batches of two messages over two characters, in chunks of two. *)
EXTENDS SplitChunks

CONSTANTS a, b
=============================================================================
