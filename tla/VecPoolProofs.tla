---------------------------- MODULE VecPoolProofs ----------------------------
(* Theorems about VecPool, for any amounts, capacities and growth.         *)
EXTENDS VecPool, TLAPS

(* What reserve, as resize_all calls it, does to an empty vector: it has   *)
(* at least half of the capacity asked for (src/src/vec_pool.rs:53).       *)
LEMMA ReservedHalf ==
    ASSUME NEW v \in Vecs, v.items = <<>>, NEW n \in Nat, NEW s \in Nat
    PROVE  /\ Reserved(v, saturating_sub(n, v.cap), s) \in Vecs
           /\ Reserved(v, saturating_sub(n, v.cap), s).items = <<>>
           /\ 2 * Reserved(v, saturating_sub(n, v.cap), s).cap >= n
  <1>1. v.cap \in Nat /\ Len(v.items) = 0
    BY DEF Vecs
  <1>2. saturating_sub(n, v.cap) \in Nat
    BY <1>1 DEF saturating_sub
  <1>3. CASE v.cap >= saturating_sub(n, v.cap)
    BY <1>1, <1>2, <1>3 DEF saturating_sub, Reserved
  <1>4. CASE ~(v.cap >= saturating_sub(n, v.cap))
    BY <1>1, <1>2, <1>4 DEF saturating_sub, Reserved, Vecs
  <1> QED
    BY <1>3, <1>4

(* A push may have to grow the vector, and never shrinks it. *)
LEMMA PushGrows ==
    ASSUME NEW v \in Vecs, NEW e \in Elements, NEW s \in Nat
    PROVE  LET r == [Reserved(v, 1, s) EXCEPT !.items = Append(@, e)]
           IN  r \in Vecs /\ r.cap >= v.cap
  BY SMTT(30) DEF Reserved, Vecs

(* clear() empties a vector and keeps its capacity. *)
LEMMA ClearedKeeps ==
    ASSUME NEW v \in Vecs
    PROVE  Cleared(v) \in Vecs /\ Cleared(v).items = <<>> /\ Cleared(v).cap = v.cap
  <1>1. <<>> \in Seq(Elements)
    OBVIOUS
  <1> QED
    BY <1>1 DEF Cleared, Vecs

(* What pop_front leaves. *)
LEMMA TailOf ==
    ASSUME NEW S, NEW seq \in Seq(S), seq # <<>>
    PROVE  /\ Head(seq) = seq[1] /\ 1 \in 1..Len(seq) /\ seq[1] \in S
           /\ Tail(seq) \in Seq(S) /\ Len(Tail(seq)) = Len(seq) - 1
           /\ \A i \in 1..Len(Tail(seq)) :
                  i + 1 \in 1..Len(seq) /\ Tail(seq)[i] = seq[i + 1]
  OBVIOUS

(* The invariant holds of a new pool. *)
LEMMA InitInv == Init => IndInv
  <1> SUFFICES ASSUME Init PROVE IndInv
    OBVIOUS
  <1> USE VecPoolAssumption
  <1>1. inner_capacity \in Nat /\ allocated \in Nat
    BY DEF Init
  <1>2. WithCapacity(inner_capacity) \in Vecs
    BY <1>1 DEF WithCapacity, Vecs
  <1>3. pool \in Seq(Vecs) /\ Len(pool) = allocated
    BY <1>1, <1>2 DEF Init
  <1> QED
    BY <1>1, <1>2, <1>3 DEF Init, IndInv, TypeOK, HalfCapacity, PoolConsistent, WithCapacity

(* take_vec keeps it. *)
LEMMA TakeInv == IndInv /\ take_vec => IndInv'
  <1> SUFFICES ASSUME IndInv, take_vec PROVE IndInv'
    OBVIOUS
  <1> USE VecPoolAssumption DEF IndInv, TypeOK, HalfCapacity, PoolConsistent
  <1>1. CASE pool # <<>>
    <2>1. guard' = pool[1] /\ guard' \in Vecs /\ pool' = Tail(pool) /\ 1 \in 1..Len(pool)
      BY <1>1, TailOf DEF take_vec
    <2>2. pool' \in Seq(Vecs) /\ Len(pool') = Len(pool) - 1
      BY <1>1, <2>1, TailOf
    <2>3. \A i \in 1..Len(pool') : i + 1 \in 1..Len(pool) /\ pool'[i] = pool[i + 1]
      BY <1>1, <2>1, TailOf
    <2>4. guard' # NoVec
      BY <2>1
    <2> QED
      BY <1>1, <2>1, <2>2, <2>3, <2>4 DEF take_vec
  <1>2. CASE pool = <<>>
    <2>1. guard' \in Vecs /\ guard'.cap = inner_capacity
      <3>1. guard' = WithCapacity(inner_capacity)
        BY <1>2 DEF take_vec
      <3> QED
        BY <3>1 DEF WithCapacity, Vecs
    <2> QED
      BY <1>2, <2>1 DEF take_vec
  <1> QED
    BY <1>1, <1>2

(* So does the drop of a guard, *)
LEMMA DropInv == IndInv /\ DropGuard => IndInv'
  <1> SUFFICES ASSUME IndInv, DropGuard PROVE IndInv'
    OBVIOUS
  <1> USE VecPoolAssumption DEF IndInv, TypeOK, HalfCapacity, PoolConsistent
  <1>1. guard \in Vecs
    BY DEF DropGuard
  <1>2. Cleared(guard) \in Vecs /\ Cleared(guard).items = <<>>
            /\ Cleared(guard).cap = guard.cap
    BY <1>1, ClearedKeeps
  <1>3. pool' = Append(pool, Cleared(guard)) /\ guard' = NoVec
            /\ inner_capacity' = inner_capacity /\ allocated' = allocated
    BY DEF DropGuard, return_vec
  <1>4. pool' \in Seq(Vecs) /\ Len(pool') = Len(pool) + 1
    BY <1>2, <1>3
  <1>5. \A i \in 1..Len(pool') : pool'[i] = IF i = Len(pool') THEN Cleared(guard) ELSE pool[i]
    BY <1>2, <1>3
  <1> QED
    BY <1>2, <1>3, <1>4, <1>5 DEF DropGuard

(* a push through a guard, *)
LEMMA PushInv == ASSUME IndInv, NEW e \in Elements, PushToGuard(e) PROVE IndInv'
  <1> USE VecPoolAssumption DEF IndInv, TypeOK, HalfCapacity, PoolConsistent
  <1>1. guard \in Vecs
    BY DEF PushToGuard
  <1>2. guard' \in Vecs /\ guard'.cap >= guard.cap
    BY <1>1, PushGrows DEF PushToGuard
  <1>3. guard.cap \in Nat /\ guard'.cap \in Nat
    BY <1>1, <1>2 DEF Vecs
  <1>4. guard # NoVec /\ guard' # NoVec
    BY <1>1, <1>2
  <1>5. UNCHANGED <<pool, inner_capacity, allocated>>
    BY DEF PushToGuard
  <1>6. 2 * guard'.cap >= inner_capacity
    BY <1>2, <1>3, <1>4
  <1> QED
    BY <1>2, <1>4, <1>5, <1>6

(* and a resize. *)
LEMMA ResizeInv == ASSUME IndInv, NEW n \in Capacities, resize_all(n) PROVE IndInv'
  <1> USE VecPoolAssumption DEF IndInv, TypeOK, HalfCapacity, PoolConsistent
  <1>1. PICK s \in [1..Len(pool) -> Slack] :
            pool' = [i \in 1..Len(pool) |->
                        Reserved(pool[i], saturating_sub(n, pool[i].cap), s[i])]
    BY DEF resize_all
  <1>2. \A i \in 1..Len(pool) :
            pool'[i] \in Vecs /\ pool'[i].items = <<>> /\ 2 * pool'[i].cap >= n
    <2> TAKE i \in 1..Len(pool)
    <2>1. pool[i] \in Vecs /\ pool[i].items = <<>>
      OBVIOUS
    <2>2. n \in Nat /\ s[i] \in Nat
      BY <1>1
    <2>3. pool'[i] = Reserved(pool[i], saturating_sub(n, pool[i].cap), s[i])
      BY <1>1
    <2> HIDE DEF IndInv, TypeOK, HalfCapacity, PoolConsistent
    <2>4. /\ Reserved(pool[i], saturating_sub(n, pool[i].cap), s[i]) \in Vecs
          /\ Reserved(pool[i], saturating_sub(n, pool[i].cap), s[i]).items = <<>>
          /\ 2 * Reserved(pool[i], saturating_sub(n, pool[i].cap), s[i]).cap >= n
      BY <2>1, <2>2, ReservedHalf
    <2> QED
      BY <2>3, <2>4
  <1>3. Len(pool') = Len(pool) /\ pool' \in Seq(Vecs)
    BY <1>1, <1>2
  <1> QED
    BY <1>2, <1>3 DEF resize_all

(* Every step keeps it. *)
LEMMA NextInv == IndInv /\ [Next]_vars => IndInv'
  <1> SUFFICES ASSUME IndInv, [Next]_vars PROVE IndInv'
    OBVIOUS
  <1>1. CASE UNCHANGED vars
    BY <1>1 DEF vars, IndInv, TypeOK, HalfCapacity, PoolConsistent
  <1> QED
    BY <1>1, TakeInv, DropInv, PushInv, ResizeInv DEF Next

(* It always holds. *)
LEMMA Inductive == Spec => []IndInv
  BY InitInv, NextInv, PTL DEF Spec

(* However often the pool is resized, a vector in it has at least half of  *)
(* the capacity last asked for (src/src/vec_pool.rs:53).                   *)
THEOREM HalfCapacityAlways == Spec => []HalfCapacity
  <1>1. IndInv => HalfCapacity
    BY DEF IndInv
  <1> QED
    BY <1>1, Inductive, PTL

(* take_vec never hands out what an earlier use left in a vector           *)
(* (src/src/vec_pool.rs:57-60).                                            *)
THEOREM TakenEmptyAlways == Spec => TakenEmpty
  <1>1. IndInv /\ [Next]_vars => [guard = NoVec /\ guard' # NoVec => guard'.items = <<>>]_vars
    <2> SUFFICES ASSUME IndInv, Next, guard = NoVec, guard' # NoVec
                 PROVE  guard'.items = <<>>
      BY DEF vars
    <2>1. take_vec
      BY DEF Next, DropGuard, PushToGuard, resize_all
    <2>2. CASE pool # <<>>
      BY <2>1, <2>2 DEF take_vec, IndInv, TypeOK, PoolConsistent
    <2>3. CASE pool = <<>>
      BY <2>1, <2>3 DEF take_vec, WithCapacity
    <2> QED
      BY <2>2, <2>3
  <1> QED
    BY <1>1, Inductive, PTL DEF Spec, TakenEmpty

(* Once there is a vector, take_vec makes no other (src/src/vec_pool.rs:7, *)
(* src/src/tests/vec_pool.rs:25).                                          *)
THEOREM ReusesVecsAlways == Spec => ReusesVecs
  <1>1. IndInv /\ [Next]_vars => [allocated > 0 => allocated' = allocated]_vars
    <2> SUFFICES ASSUME IndInv, Next, allocated > 0
                 PROVE  allocated' = allocated
      BY DEF vars
    <2>1. CASE take_vec
      BY <2>1 DEF take_vec, IndInv, TypeOK, PoolConsistent
    <2> QED
      BY <2>1 DEF Next, DropGuard, PushToGuard, resize_all
  <1> QED
    BY <1>1, Inductive, PTL DEF Spec, ReusesVecs
=============================================================================
