--------------------------- MODULE BinarySemaphore ---------------------------
(***************************************************************************)
(* What SemaphoreLite (src/src/semaphore_lite.rs) promises its callers:    *)
(* one token, set by signal() and consumed by the wait() that returns      *)
(* because of it.  Two signals with no wait between them leave one token.  *)
(* A wait_timeout() may give up; it then leaves the token as it was, set   *)
(* or not.  Each call takes effect in one atomic step between its call     *)
(* and its return.                                                         *)
(***************************************************************************)
CONSTANT Threads

VARIABLES token,    \* is a signal pending?
          call      \* what each thread has asked for: a call, or its return

vars == <<token, call>>

Calls == {"signal", "wait", "wait_timeout"}

TypeOK ==
    /\ token \in BOOLEAN
    /\ call \in [Threads -> Calls \cup {"none", "done"}]

Init ==
    /\ token = FALSE
    /\ call = [t \in Threads |-> "none"]

Call(t, c) ==
    /\ call[t] = "none"
    /\ call' = [call EXCEPT ![t] = c]
    /\ UNCHANGED token

Signal(t) ==
    /\ call[t] = "signal"
    /\ token' = TRUE
    /\ call' = [call EXCEPT ![t] = "done"]

Acquire(t) ==
    /\ call[t] \in {"wait", "wait_timeout"}
    /\ token
    /\ token' = FALSE
    /\ call' = [call EXCEPT ![t] = "done"]

TimeOut(t) ==
    /\ call[t] = "wait_timeout"
    /\ call' = [call EXCEPT ![t] = "done"]
    /\ UNCHANGED token

Return(t) ==
    /\ call[t] = "done"
    /\ call' = [call EXCEPT ![t] = "none"]
    /\ UNCHANGED token

Next ==
    \E t \in Threads :
        \/ \E c \in Calls : Call(t, c)
        \/ Signal(t)
        \/ Acquire(t)
        \/ TimeOut(t)
        \/ Return(t)

Spec == Init /\ [][Next]_vars
=============================================================================
