---------------------------- MODULE MCLifecycle ------------------------------
(* An instance of Lifecycle: two threads race to initialise, one of them   *)
(* twice, while a third uses the logger.                                   *)
EXTENDS Lifecycle

CONSTANTS t1, t2, t3, k1, k2

InitAndUse == [t \in Threads |->
    CASE t = t1 -> InitNames \cup {"paper2_get_inited"}
      [] t = t2 -> InitNames \cup {"init_with_max_level"}
      [] OTHER -> CallNames \ InitNames]

FirstTwice == [t \in Threads |-> IF t = t1 THEN 2 ELSE 1]
=============================================================================
