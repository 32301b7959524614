------------------------- MODULE SemaphoreLiteProofs -------------------------
(***************************************************************************)
(* Proofs about SemaphoreLite for any set of threads: the inductive        *)
(* invariant, the absence of lost wakeups that it implies, and the         *)
(* refinement of BinarySemaphore.                                          *)
(***************************************************************************)
EXTENDS SemaphoreLite, TLAPS

(* The semaphore that SemaphoreLite::new makes satisfies the invariant. *)
LEMMA InitInv == Init => IndInv
  BY NoThreadAssumption
     DEF Init, IndInv, TypeOK, OwnerConsistent, PointsConsistent, NoLostWakeup,
         Points, Ops, Critical

(* Every step of a thread inside or outside a call preserves the types of  *)
(* the semaphore's state.                                                  *)
LEMMA NextType == TypeOK /\ [Next]_vars => TypeOK'
  <1> SUFFICES ASSUME TypeOK, [Next]_vars
               PROVE  TypeOK'
    OBVIOUS
  <1> USE DEF TypeOK, Points, Ops, Goto
  <1>1. CASE UNCHANGED vars
    BY <1>1 DEF vars
  <1>2. ASSUME NEW t \in Threads, NEW o \in Ops, Call(t, o)
        PROVE  TypeOK'
    BY <1>2 DEF Call
  <1>3. ASSUME NEW t \in Threads, Lock(t) \/ Relock(t)
        PROVE  TypeOK'
    BY <1>3 DEF Lock, Relock
  <1>4. ASSUME NEW t \in Threads, Store(t) \/ Clear(t)
        PROVE  TypeOK'
    BY <1>4 DEF Store, Clear
  <1>5. ASSUME NEW t \in Threads, NotifyAll(t)
        PROVE  TypeOK'
    BY <1>5 DEF NotifyAll
  <1>6. ASSUME NEW t \in Threads, TestSet(t) \/ Park(t)
        PROVE  TypeOK'
    BY <1>6 DEF TestSet, Park
  <1>7. ASSUME NEW t \in Threads, TimeOut(t) \/ Unlock(t)
        PROVE  TypeOK'
    BY <1>7 DEF TimeOut, Unlock
  <1> QED
    BY <1>1, <1>2, <1>3, <1>4, <1>5, <1>6, <1>7 DEF Next, Step

(* Every step preserves the inductive invariant. *)
LEMMA NextInv == IndInv /\ [Next]_vars => IndInv'
  <1> SUFFICES ASSUME IndInv, [Next]_vars
               PROVE  IndInv'
    OBVIOUS
  <1>0. TypeOK'
    BY NextType DEF IndInv
  <1> USE <1>0, NoThreadAssumption
      DEF IndInv, TypeOK, OwnerConsistent, PointsConsistent, NoLostWakeup,
          Points, Ops, Critical, Goto
  <1>1. CASE UNCHANGED vars
    BY <1>1 DEF vars
  <1>2. ASSUME NEW t \in Threads, NEW o \in Ops, Call(t, o)
        PROVE  IndInv'
    BY <1>2 DEF Call
  <1>3. ASSUME NEW t \in Threads, Lock(t)
        PROVE  IndInv'
    BY <1>3 DEF Lock
  <1>4. ASSUME NEW t \in Threads, Store(t)
        PROVE  IndInv'
    BY <1>4 DEF Store
  <1>5. ASSUME NEW t \in Threads, NotifyAll(t)
        PROVE  IndInv'
    BY <1>5 DEF NotifyAll
  <1>6. ASSUME NEW t \in Threads, TestSet(t)
        PROVE  IndInv'
    BY <1>6 DEF TestSet
  <1>7. ASSUME NEW t \in Threads, Park(t)
        PROVE  IndInv'
    BY <1>7 DEF Park
  <1>8. ASSUME NEW t \in Threads, Relock(t)
        PROVE  IndInv'
    BY <1>8 DEF Relock
  <1>9. ASSUME NEW t \in Threads, Clear(t)
        PROVE  IndInv'
    BY <1>9 DEF Clear
  <1>10. ASSUME NEW t \in Threads, Unlock(t)
         PROVE  IndInv'
    BY <1>10 DEF Unlock
  <1>11. ASSUME NEW t \in Threads, TimeOut(t)
         PROVE  IndInv'
    BY <1>11 DEF TimeOut
  <1> QED
    BY <1>1, <1>2, <1>3, <1>4, <1>5, <1>6, <1>7, <1>8, <1>9, <1>10, <1>11
       DEF Next, Step

(* The semaphore's state keeps its types, whatever the callers do. *)
THEOREM TypeCorrect == Spec => []TypeOK
  <1>1. Init => TypeOK
    BY InitInv DEF IndInv
  <1> QED
    BY <1>1, NextType, PTL DEF Spec

(* The inductive invariant holds in every reachable state. *)
THEOREM InvariantHolds == Spec => []IndInv
  BY InitInv, NextInv, PTL DEF Spec

(* No waiter sleeps on a signal: for any number of threads, a parked       *)
(* thread and a set flag mean that a notify_all is on its way.             *)
THEOREM WakeupSafe == Spec => []NoLostWakeup
  <1>1. IndInv => NoLostWakeup
    BY DEF IndInv
  <1> QED
    BY <1>1, InvariantHolds, PTL

-----------------------------------------------------------------------------

(* Every step of a call is, for the callers, a step of the abstract        *)
(* semaphore or no step at all.                                            *)
LEMMA StepRefines ==
  ASSUME IndInv, [Next]_vars
  PROVE  [Abstract!Next]_(Abstract!vars)
  <1> USE DEF IndInv, TypeOK, PointsConsistent, Points, Ops, Goto, AbstractCall,
              Abstract!vars
  <1>1. CASE UNCHANGED vars
    BY <1>1 DEF vars
  <1>2. ASSUME NEW t \in Threads, NEW o \in Ops, Call(t, o)
        PROVE  Abstract!Call(t, o)
    BY <1>2 DEF Call, Abstract!Call
  <1>3. ASSUME NEW t \in Threads, Lock(t) \/ TestSet(t) \/ Park(t) \/ Relock(t)
        PROVE  UNCHANGED Abstract!vars
    BY <1>3 DEF Lock, TestSet, Park, Relock
  <1>4. ASSUME NEW t \in Threads, Store(t)
        PROVE  Abstract!Signal(t)
    BY <1>4 DEF Store, Abstract!Signal
  <1>5. ASSUME NEW t \in Threads, NotifyAll(t)
        PROVE  UNCHANGED Abstract!vars
    BY <1>5 DEF NotifyAll
  <1>6. ASSUME NEW t \in Threads, Clear(t)
        PROVE  Abstract!Acquire(t)
    BY <1>6 DEF Clear, Abstract!Acquire
  <1>7. ASSUME NEW t \in Threads, Unlock(t)
        PROVE  Abstract!Return(t)
    BY <1>7 DEF Unlock, Abstract!Return
  <1>8. ASSUME NEW t \in Threads, TimeOut(t)
        PROVE  Abstract!TimeOut(t)
    BY <1>8 DEF TimeOut, Abstract!TimeOut
  <1> QED
    BY <1>1, <1>2, <1>3, <1>4, <1>5, <1>6, <1>7, <1>8
       DEF Next, Step, Abstract!Next, Abstract!Calls

(* SemaphoreLite implements the atomic binary semaphore that the logger's  *)
(* own model uses for its two semaphores.                                  *)
THEOREM Refinement == Spec => ImplementsBinarySemaphore
  <1>1. Init => Abstract!Init
    BY DEF Init, Abstract!Init, AbstractCall
  <1>2. IndInv /\ [Next]_vars => [Abstract!Next]_(Abstract!vars)
    BY StepRefines
  <1> QED
    BY <1>1, <1>2, InvariantHolds, PTL
       DEF Spec, ImplementsBinarySemaphore, Abstract!Spec
=============================================================================
