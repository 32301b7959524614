---------------------------- MODULE SemaphoreLite ----------------------------
(***************************************************************************)
(* SemaphoreLite of src/src/semaphore_lite.rs at the granularity of its    *)
(* mutex and condition variable (both parking_lot's, external).            *)
(*                                                                         *)
(* A thread inside a call is at one of these points:                       *)
(*   "lock"    about to take the mutex                                     *)
(*   "store"   signal(): holds the mutex, about to set the flag            *)
(*   "notify"  signal(): flag set, about to notify_all                     *)
(*   "test"    wait*(): holds the mutex, about to evaluate  !*guard        *)
(*   "parked"  in the condition variable's wait set, mutex released        *)
(*   "relock"  woken or timed out, about to take the mutex back            *)
(*   "clear"   wait*(): saw the flag set, about to reset it                *)
(*   "unlock"  about to drop the guard and return                          *)
(***************************************************************************)
CONSTANTS Threads,    \* the threads that share the semaphore
          NoThread    \* the mutex's owner when nobody holds it

ASSUME NoThreadAssumption == NoThread \notin Threads

VARIABLES flag,       \* the bool inside the mutex
          holder,     \* the thread that holds the mutex, or NoThread
          parked,     \* the condition variable's wait set
          pc,         \* where each thread is, "idle" outside a call
          op,         \* the function each thread is in (or was in last)
          timedOut    \* WaitTimeoutResult of the thread's last wait_for

vars == <<flag, holder, parked, pc, op, timedOut>>

Ops == {"signal", "wait", "wait_timeout"}

Points == {"idle", "lock", "store", "notify", "test", "parked", "relock",
           "clear", "unlock"}

(* The points at which a thread owns the mutex. *)
Critical == {"store", "notify", "test", "clear", "unlock"}

TypeOK ==
    /\ flag \in BOOLEAN
    /\ holder \in Threads \cup {NoThread}
    /\ parked \in SUBSET Threads
    /\ pc \in [Threads -> Points]
    /\ op \in [Threads -> Ops]
    /\ timedOut \in [Threads -> BOOLEAN]

(* SemaphoreLite::new: the flag is clear. *)
Init ==
    /\ flag = FALSE
    /\ holder = NoThread
    /\ parked = {}
    /\ pc = [t \in Threads |-> "idle"]
    /\ op = [t \in Threads |-> "wait"]
    /\ timedOut = [t \in Threads |-> FALSE]

Goto(t, point) == pc' = [pc EXCEPT ![t] = point]

(* A thread enters signal(), wait() or wait_timeout(). *)
Call(t, o) ==
    /\ pc[t] = "idle"
    /\ op' = [op EXCEPT ![t] = o]
    /\ Goto(t, "lock")
    /\ UNCHANGED <<flag, holder, parked, timedOut>>

(* let mut guard = self.mutex.lock(); *)
Lock(t) ==
    /\ pc[t] = "lock"
    /\ holder = NoThread
    /\ holder' = t
    /\ Goto(t, IF op[t] = "signal" THEN "store" ELSE "test")
    /\ UNCHANGED <<flag, parked, op, timedOut>>

(* Slip: the flag is set and nobody is notified. *)
StoreSilently(t) ==
    /\ pc[t] = "store"
    /\ flag' = TRUE
    /\ Goto(t, "unlock")
    /\ UNCHANGED <<holder, parked, op, timedOut>>

(* signal():  *guard = true; *)
Store(t) ==
    /\ pc[t] = "store"
    /\ flag' = TRUE
    /\ Goto(t, "notify")
    /\ UNCHANGED <<holder, parked, op, timedOut>>

(* signal():  self.cond_var.notify_all();  every parked thread goes for    *)
(* the mutex again, with a result that is not "timed out".                 *)
NotifyAll(t) ==
    /\ pc[t] = "notify"
    /\ parked' = {}
    /\ pc' = [u \in Threads |-> IF u = t THEN "unlock"
                                ELSE IF u \in parked THEN "relock"
                                ELSE pc[u]]
    /\ timedOut' = [u \in Threads |-> IF u \in parked THEN FALSE ELSE timedOut[u]]
    /\ UNCHANGED <<flag, holder, op>>

(* while !*guard:  the flag is set, leave the loop. *)
TestSet(t) ==
    /\ pc[t] = "test"
    /\ flag
    /\ Goto(t, "clear")
    /\ UNCHANGED <<flag, holder, parked, op, timedOut>>

(* Slip: the wait set is given the mutex's owner instead of the caller. *)
ParkOwner(t) ==
    /\ pc[t] = "test"
    /\ ~flag
    /\ holder' = NoThread
    /\ parked' = parked \cup {holder'}
    /\ Goto(t, "parked")
    /\ UNCHANGED <<flag, op, timedOut>>

(* while !*guard:  the flag is clear; cond_var.wait / wait_for releases    *)
(* the mutex and joins the wait set in one step.                           *)
Park(t) ==
    /\ pc[t] = "test"
    /\ ~flag
    /\ holder' = NoThread
    /\ parked' = parked \cup {t}
    /\ Goto(t, "parked")
    /\ UNCHANGED <<flag, op, timedOut>>

(* wait_for's duration elapses before a notification. *)
TimeOut(t) ==
    /\ pc[t] = "parked"
    /\ op[t] = "wait_timeout"
    /\ parked' = parked \ {t}
    /\ timedOut' = [timedOut EXCEPT ![t] = TRUE]
    /\ Goto(t, "relock")
    /\ UNCHANGED <<flag, holder, op>>

(* Slip: an if in place of the while, the flag is not tested again. *)
RelockNoTest(t) ==
    /\ pc[t] = "relock"
    /\ holder = NoThread
    /\ holder' = t
    /\ Goto(t, IF timedOut[t] THEN "unlock" ELSE "clear")
    /\ UNCHANGED <<flag, parked, op, timedOut>>

(* The condition variable takes the mutex back before it returns; then     *)
(* if result.timed_out() { return; }  or the loop tests the flag again.    *)
Relock(t) ==
    /\ pc[t] = "relock"
    /\ holder = NoThread
    /\ holder' = t
    /\ Goto(t, IF timedOut[t] THEN "unlock" ELSE "test")
    /\ UNCHANGED <<flag, parked, op, timedOut>>

(* wait*():  *guard = false; *)
Clear(t) ==
    /\ pc[t] = "clear"
    /\ flag' = FALSE
    /\ Goto(t, "unlock")
    /\ UNCHANGED <<holder, parked, op, timedOut>>

(* The guard is dropped and the call returns. *)
Unlock(t) ==
    /\ pc[t] = "unlock"
    /\ holder' = NoThread
    /\ timedOut' = [timedOut EXCEPT ![t] = FALSE]
    /\ Goto(t, "idle")
    /\ UNCHANGED <<flag, parked, op>>

(* What a thread does inside a call, apart from timing out. *)
Step(t) ==
    \/ Lock(t)
    \/ Store(t)
    \/ NotifyAll(t)
    \/ TestSet(t)
    \/ Park(t)
    \/ Relock(t)
    \/ Clear(t)
    \/ Unlock(t)

Next ==
    \E t \in Threads :
        \/ \E o \in Ops : Call(t, o)
        \/ Step(t)
        \/ TimeOut(t)

Spec == Init /\ [][Next]_vars

(* A thread inside a call keeps running, and a thread that wants the       *)
(* mutex is not starved: parking_lot's mutex is eventually fair.  Nobody   *)
(* has to call, and a timeout never has to fire.                           *)
Fairness ==
    \A t \in Threads :
        /\ WF_vars(Step(t))
        /\ SF_vars(Lock(t))
        /\ SF_vars(Relock(t))

FairSpec == Spec /\ Fairness

-----------------------------------------------------------------------------

(* No wakeup is lost (src/src/semaphore_lite.rs:25-38): a thread sleeps    *)
(* in the condition variable while the flag is set only in the window      *)
(* between a signaller's store and its notify_all.                         *)
NoLostWakeup ==
    flag /\ parked # {} => \E s \in Threads : pc[s] = "notify"

(* A signal that is pending is consumed as long as somebody waits for it   *)
(* without a timeout: no waiter sleeps on, and none starves on the mutex.  *)
SignalConsumed ==
    \A t \in Threads :
        (flag /\ op[t] = "wait" /\ pc[t] \in {"lock", "test", "parked", "relock"})
            ~> (~flag)

(* What makes NoLostWakeup inductive.  The mutex's owner is the thread     *)
(* between taking the mutex and dropping the guard.                        *)
OwnerConsistent ==
    \A t \in Threads : pc[t] \in Critical <=> holder = t

(* The wait set holds exactly the parked threads, only a timed wait times  *)
(* out, each point belongs to its function, and a wait about to reset the  *)
(* flag has seen it set under the mutex it still holds, so that two        *)
(* waiters woken by one notify_all can not both leave on the one signal.   *)
PointsConsistent ==
    /\ \A t \in Threads : t \in parked <=> pc[t] = "parked"
    /\ \A t \in Threads :
           timedOut[t] => pc[t] \in {"relock", "unlock"} /\ op[t] = "wait_timeout"
    /\ \A t \in Threads : pc[t] \in {"store", "notify"} => op[t] = "signal"
    /\ \A t \in Threads :
           pc[t] \in {"test", "parked", "relock", "clear"} => op[t] # "signal"
    /\ \A t \in Threads : pc[t] = "clear" => flag

IndInv ==
    /\ TypeOK
    /\ OwnerConsistent
    /\ PointsConsistent
    /\ NoLostWakeup

(* The caller's view of a thread: its effect happens at the store, at the  *)
(* reset of the flag, or when the timer fires.                             *)
AbstractCall(t) ==
    IF pc[t] = "idle" THEN "none"
    ELSE IF pc[t] \in {"notify", "unlock"} \/ timedOut[t] THEN "done"
    ELSE op[t]

Abstract == INSTANCE BinarySemaphore
                WITH token <- flag,
                     call <- [t \in Threads |-> AbstractCall(t)]

(* The mutex and condition variable implement an atomic binary semaphore:  *)
(* every step of a call is a step of BinarySemaphore or changes nothing    *)
(* its callers can see.                                                    *)
ImplementsBinarySemaphore == Abstract!Spec
=============================================================================
