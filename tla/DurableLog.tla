----------------------------- MODULE DurableLog ------------------------------
(***************************************************************************)
(* What the logging pipeline promises about its global file, seen from     *)
(* outside: lines are accepted in some order, and the file on disk only    *)
(* ever grows, by the oldest accepted lines it does not hold yet.  It      *)
(* promises this whatever the threads, contexts, sinks and I/O errors do;  *)
(* that every line gets there is a separate, weaker promise.               *)
(***************************************************************************)
EXTENDS Naturals, Sequences, SequencesExt

VARIABLES accepted,   \* the lines of what was queued so far, oldest first
          stored      \* the lines in the global file on disk

vars == <<accepted, stored>>

Init ==
    /\ accepted = <<>>
    /\ stored = <<>>

(* One call queues entries of any number of lines. *)
Accept ==
    /\ IsPrefix(accepted, accepted')
    /\ UNCHANGED stored

(* The operating system is given some of the oldest lines it lacks. *)
Store ==
    /\ IsPrefix(stored, stored')
    /\ IsPrefix(stored', accepted)
    /\ UNCHANGED accepted

Next == Accept \/ Store

Spec == Init /\ [][Next]_vars
=============================================================================
