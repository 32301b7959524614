--------------------------- MODULE MCLoggerThread ----------------------------
(* Instances of LoggerThread: who calls what, how often, into which files. *)
EXTENDS LoggerThread

CONSTANTS c1, c2, t1, t2

Logging == {"queue_log", "queue_logs"}

(* Each tag has a file of its own: add_context makes "<tag>.log" of a tag. *)
OwnPaths == [t \in Tags |-> t]

(* c1 logs while c2 makes every other call. *)
LogAndManage == [c \in Clients |->
    IF c = c1 THEN {"queue_log"} ELSE CallNames \ Logging]

(* c1 logs and unregisters while c2 logs in bursts or registers. *)
LogAndRegister == [c \in Clients |->
    IF c = c1 THEN {"queue_log", "unregister_context"}
    ELSE {"queue_logs", "register_context"}]

(* c1 logs and waits for its logs to be flushed. *)
LogAndWait == [c \in Clients |->
    IF c = c1 THEN {"queue_log", "wait_for_flush"} ELSE {"queue_log"}]

(* c1 logs while c2 waits for a flush, for some time. *)
LogAndTimedWait == [c \in Clients |->
    IF c = c1 THEN {"queue_log"} ELSE {"wait_flush_timeout"}]

Once == [c \in Clients |-> 1]
Twice == [c \in Clients |-> 2]
TwiceAndOnce == [c \in Clients |-> IF c = c1 THEN 2 ELSE 1]
ThriceAndTwice == [c \in Clients |-> IF c = c1 THEN 3 ELSE 2]
=============================================================================
