------------------------------- MODULE VecPool -------------------------------
(***************************************************************************)
(* VecPool of src/src/vec_pool.rs.  In every round of its loop log_thread  *)
(* takes a vector from its pool, puts a clone of it in the place of the    *)
(* log queue, and gives it back at the end of the round.                   *)
(*                                                                         *)
(* A Vec (std, external) is its elements and its capacity.  A guard        *)
(* borrows the pool mutably, so that one guard at most is alive and        *)
(* nothing else is done with the pool meanwhile.                           *)
(***************************************************************************)
EXTENDS Naturals, Sequences

CONSTANTS Elements,     \* what the vectors hold
          NoVec,        \* no guard is alive
          Amounts,      \* with_initial_amount's amount
          Capacities,   \* inner capacities that are asked for
          Slack,        \* what reserve may add to what it is asked for
          MaxLen        \* BOUND: elements pushed to one vector

Vecs == [items : Seq(Elements), cap : Nat]

ASSUME VecPoolAssumption ==
    /\ Amounts \subseteq Nat
    /\ Capacities \subseteq Nat
    /\ Slack \subseteq Nat
    /\ NoVec \notin Vecs

VARIABLES pool,           \* the VecDeque
          inner_capacity,
          guard,          \* the vector of the guard that is alive, or NoVec
          allocated       \* history: vectors made so far

vars == <<pool, inner_capacity, guard, allocated>>

TypeOK ==
    /\ pool \in Seq(Vecs)
    /\ inner_capacity \in Nat
    /\ guard \in Vecs \cup {NoVec}
    /\ allocated \in Nat

WithCapacity(n) == [items |-> <<>>, cap |-> n]

(* Vec::reserve makes room for more elements beyond those there are. *)
Reserved(v, more, slack) ==
    IF v.cap >= Len(v.items) + more THEN v
    ELSE [v EXCEPT !.cap = Len(v.items) + more + slack]

(* with_initial_amount *)
Init ==
    /\ inner_capacity \in Capacities
    /\ allocated \in Amounts
    /\ pool = [i \in 1..allocated |-> WithCapacity(inner_capacity)]
    /\ guard = NoVec

take_vec ==
    /\ guard = NoVec
    /\ \/ /\ pool # <<>>
          /\ guard' = Head(pool)
          /\ pool' = Tail(pool)
          /\ UNCHANGED allocated
       \/ /\ pool = <<>>
          /\ guard' = WithCapacity(inner_capacity)
          /\ allocated' = allocated + 1
          /\ UNCHANGED pool
    /\ UNCHANGED inner_capacity

(* Slips: the elements stay; the empty vector that mem::take leaves behind *)
(* is returned in place of the one it takes.                               *)
ClearedNot(v) == v
ClearedTaken(v) == WithCapacity(0)

(* vec.clear() keeps the capacity. *)
Cleared(v) == [v EXCEPT !.items = <<>>]

(* Slip: the vector is dropped with its guard. *)
return_vec_drops(v) == UNCHANGED pool

return_vec(v) == pool' = Append(pool, Cleared(v))

(* Drop for VecPoolGuard *)
DropGuard ==
    /\ guard # NoVec
    /\ return_vec(guard)
    /\ guard' = NoVec
    /\ UNCHANGED <<inner_capacity, allocated>>

(* A push through the guard's DerefMut. *)
PushToGuard(e) ==
    /\ guard # NoVec
    /\ Len(guard.items) < MaxLen
    /\ \E s \in Slack : guard' = [Reserved(guard, 1, s) EXCEPT !.items = Append(@, e)]
    /\ UNCHANGED <<pool, inner_capacity, allocated>>

saturating_sub(m, n) == IF m > n THEN m - n ELSE 0

resize_all(n) ==
    /\ guard = NoVec
    /\ inner_capacity' = n
    /\ \E s \in [1..Len(pool) -> Slack] :
           pool' = [i \in 1..Len(pool) |->
                       Reserved(pool[i], saturating_sub(n, pool[i].cap), s[i])]
    /\ UNCHANGED <<guard, allocated>>

Next ==
    \/ take_vec
    \/ DropGuard
    \/ \E e \in Elements : PushToGuard(e)
    \/ \E n \in Capacities : resize_all(n)

Spec == Init /\ [][Next]_vars

-----------------------------------------------------------------------------

(* A vector that is taken has no element of its last use: log_thread makes *)
(* it the new queue, and would write a leftover a second time.             *)
TakenEmpty ==
    [][guard = NoVec /\ guard' # NoVec => guard'.items = <<>>]_vars

(* resize_all reserves what a vector lacks beyond its length, which is 0,  *)
(* and not beyond its capacity (src/src/vec_pool.rs:53), and so may leave  *)
(* it as it was; but through any sequence of resizes, uses and returns     *)
(* every vector of the pool has at least half of the capacity last asked   *)
(* for.                                                                    *)
HalfCapacity ==
    \A i \in 1..Len(pool) : 2 * pool[i].cap >= inner_capacity

(* The pool reuses its vectors: once it has one, it never makes another,   *)
(* and none is lost on the way through a guard.                            *)
ReusesVecs ==
    [][allocated > 0 => allocated' = allocated]_vars

(* What makes the properties inductive. *)
PoolConsistent ==
    /\ \A i \in 1..Len(pool) : pool[i].items = <<>>
    /\ guard # NoVec => 2 * guard.cap >= inner_capacity
    /\ allocated = Len(pool) + (IF guard = NoVec THEN 0 ELSE 1)

IndInv == TypeOK /\ HalfCapacity /\ PoolConsistent
=============================================================================
