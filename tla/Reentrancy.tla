----------------------------- MODULE Reentrancy ------------------------------
(***************************************************************************)
(* Code of the program that paperlog calls back into: sinks, which run     *)
(* under a read guard of the RwLock<LoggerThreadCtx>, and the panic hook   *)
(* that LoggerThreadCtx::init(true) installs, which runs do_log of         *)
(* src/src/logger/logger_thread_ctx.rs in whatever thread panics.  Both    *)
(* may ask for a guard that their own thread keeps from being granted.     *)
(*                                                                         *)
(* Only what decides who waits for whom is kept: the RwLock as in          *)
(* LoggerThread.tla (a writer claims the writer bit, which keeps new       *)
(* readers out, then waits for the readers inside), the calls on it in     *)
(* their order, and how many entries are on their way, each of one chunk.  *)
(* The entries themselves and their other chunks, the files and their      *)
(* errors are LoggerThread.tla's.                                          *)
(***************************************************************************)
EXTENDS Naturals, Sequences

CONSTANTS
    Clients,        \* threads of the program that logs
    LogThread,      \* the thread that init spawns
    NoThread,       \* nobody
    Setups,         \* the programs to consider: hook, sinks, calls, max_string_len
    Budget,         \* BOUND: how many calls each client makes
    FlushEvery,     \* the 100 of  logged >= 100
    HookMessages    \* what the panic hook logs: the message and the backtrace

Threads == Clients \cup {LogThread}

(* What a sink does with an entry: it returns, calls queue_log, returns an *)
(* error, or panics.                                                       *)
SinkKinds == {"returns", "logs", "fails", "panics"}

(* "manage" stands for the calls that take the write guard: registering    *)
(* and unregistering a context, adding a sink.  "panic" is a panic in the  *)
(* program's own code.                                                     *)
CallNames == {"queue_log", "manage", "panic"}

ASSUME ReentrancyAssumption ==
    /\ LogThread \notin Clients
    /\ NoThread \notin Threads
    /\ Setups \subseteq [hook : BOOLEAN, sinks : Seq(SinkKinds),
                         calls : SUBSET CallNames, max_string_len : Nat]
    /\ Budget \in [Clients -> Nat]
    /\ FlushEvery \in Nat \ {0}
    /\ HookMessages \in Nat \ {0}

VARIABLES
    setup,      \* the program: one of Setups
    writer,     \* who has claimed the writer bit
    readers,    \* who holds a read guard
    queue,      \* how many entries are queued
    token,      \* the log semaphore's flag
    batch,      \* how many entries of the batch the sinks have not had
    logged,     \* entries taken since the last flush, counted up to FlushEvery
    buffered,   \* does a line that do_log wrote wait for a flush?
    pc,         \* where each thread is
    job,        \* what the thread's do_log is for
    next,       \* the sink it calls next
    messages,   \* what the thread's panic hook has left to log
    calls,      \* calls each client has begun
    aborted     \* has a panic inside the hook ended the process?

lock == <<writer, readers>>
entries == <<queue, token, batch, logged, buffered>>
doing == <<job, next, messages>>
vars == <<setup, lock, entries, pc, doing, calls, aborted>>

ClaimPoints == {"w_claim", "batch_claim", "flush_claim", "dolog_claim"}

(* The writer bit is claimed; the thread goes on when the readers are out. *)
HoldPoints == {"w_hold", "batch_hold", "flush_hold", "dolog_hold"}

Points == ClaimPoints \cup HoldPoints \cup
    {"idle", "q_read", "take", "config", "sinks_read", "sinks", "check_flush",
     "check_wait", "wait", "dead"}

TypeOK ==
    /\ setup \in Setups
    /\ writer \in Threads \cup {NoThread}
    /\ readers \in SUBSET Threads
    /\ queue \in Nat /\ batch \in Nat
    /\ token \in BOOLEAN
    /\ logged \in 0..FlushEvery
    /\ buffered \in BOOLEAN
    /\ pc \in [Threads -> Points]
    /\ job \in [Threads -> {"batch", "report", "panic"}]
    /\ next \in [Threads -> 1..(Len(setup.sinks) + 1)]
    /\ messages \in [Threads -> 0..HookMessages]
    /\ calls \in [Clients -> Nat]
    /\ aborted \in BOOLEAN

Init ==
    /\ setup \in Setups
    /\ writer = NoThread
    /\ readers = {}
    /\ queue = 0 /\ batch = 0
    /\ token = FALSE
    /\ logged = 0
    /\ buffered = FALSE
    /\ pc = [t \in Threads |-> IF t = LogThread THEN "take" ELSE "idle"]
    /\ job = [t \in Threads |-> "batch"]
    /\ next = [t \in Threads |-> 1]
    /\ messages = [t \in Threads |-> 0]
    /\ calls = [c \in Clients |-> 0]
    /\ aborted = FALSE

-----------------------------------------------------------------------------
At(t, point) == ~aborted /\ pc[t] = point

Goto(t, point) == pc' = [pc EXCEPT ![t] = point]

(* Slip: the guard is dropped no sooner than the thread's next guard. *)
DropReadLate(t) == UNCHANGED readers

DropRead(t) == readers' = readers \ {t}

(* Where a thread is after it has panicked. *)
Ended(t) == IF t = LogThread THEN "dead" ELSE "idle"

(* A panic runs the hook, if there is one, and unwinds the thread, which   *)
(* drops its guard.                                                        *)
Panic(t) ==
    \/ /\ setup.hook
       /\ Goto(t, "dolog_claim")
       /\ job' = [job EXCEPT ![t] = "panic"]
       /\ messages' = [messages EXCEPT ![t] = HookMessages]
       /\ UNCHANGED <<readers, next>>
    \/ /\ ~setup.hook
       /\ Goto(t, Ended(t))
       /\ DropRead(t)
       /\ UNCHANGED doing

-----------------------------------------------------------------------------
(* The clients. *)

Call(c, name) ==
    /\ At(c, "idle")
    /\ name \in setup.calls
    /\ calls[c] < Budget[c]
    /\ calls' = [calls EXCEPT ![c] = @ + 1]
    /\ \/ name = "queue_log" /\ Goto(c, "q_read") /\ UNCHANGED <<readers, doing>>
       \/ name = "manage" /\ Goto(c, "w_claim") /\ UNCHANGED <<readers, doing>>
       \/ name = "panic" /\ Panic(c)
    /\ UNCHANGED <<setup, writer, entries, aborted>>

(* queue_log under a read guard: nothing in it waits for the RwLock. *)
Queued ==
    /\ writer = NoThread
    /\ queue' = queue + 1
    /\ token' = TRUE
    /\ UNCHANGED <<batch, logged, buffered>>

QueueLog(c) ==
    /\ At(c, "q_read")
    /\ Queued
    /\ Goto(c, "idle")
    /\ UNCHANGED <<setup, lock, doing, calls, aborted>>

(* Every  logger.write(). *)
Claim(t) ==
    /\ writer = NoThread
    /\ writer' = t
    /\ \/ At(t, "w_claim") /\ Goto(t, "w_hold")
       \/ At(t, "batch_claim") /\ Goto(t, "batch_hold")
       \/ At(t, "flush_claim") /\ Goto(t, "flush_hold")
       \/ At(t, "dolog_claim") /\ Goto(t, "dolog_hold")
    /\ UNCHANGED <<setup, readers, entries, doing, calls, aborted>>

(* The write guard is granted, used and dropped. *)
Write(t, point) ==
    /\ At(t, point)
    /\ readers = {}
    /\ writer' = NoThread
    /\ UNCHANGED <<setup, readers, doing, calls, aborted>>

Manage(c) ==
    /\ Write(c, "w_hold")
    /\ Goto(c, "idle")
    /\ UNCHANGED entries

-----------------------------------------------------------------------------
(* The log thread. *)

TakeQueue ==
    /\ At(LogThread, "take")
    /\ batch' = queue
    /\ queue' = 0
    /\ logged' = IF logged + queue < FlushEvery THEN logged + queue ELSE FlushEvery
    /\ Goto(LogThread, IF queue = 0 THEN "check_flush" ELSE "config")
    /\ UNCHANGED <<setup, lock, token, buffered, doing, calls, aborted>>

(* The configuration is read, the guard dropped, and the messages are      *)
(* split; chunks(0) panics.                                                *)
ReadConfig ==
    /\ At(LogThread, "config")
    /\ writer = NoThread
    /\ \/ /\ setup.max_string_len > 0
          /\ Goto(LogThread, "batch_claim")
          /\ UNCHANGED <<readers, doing>>
       \/ setup.max_string_len = 0 /\ Panic(LogThread)
    /\ UNCHANGED <<setup, writer, entries, calls, aborted>>

(* Slip: the write guard lives on while the sinks are called. *)
WriteBatchKeepsGuard ==
    /\ At(LogThread, "batch_hold")
    /\ readers = {}
    /\ Goto(LogThread, "sinks_read")
    /\ UNCHANGED <<setup, lock, entries, doing, calls, aborted>>

(* do_log_batch *)
WriteBatch ==
    /\ Write(LogThread, "batch_hold")
    /\ Goto(LogThread, "sinks_read")
    /\ UNCHANGED entries

(* Slip: the end of the queue is not looked at. *)
FlushDueCountOnly == logged >= FlushEvery

FlushDue == queue = 0 \/ logged >= FlushEvery

CheckFlush ==
    /\ At(LogThread, "check_flush")
    /\ Goto(LogThread, IF FlushDue THEN "flush_claim" ELSE "check_wait")
    /\ UNCHANGED <<setup, lock, entries, doing, calls, aborted>>

(* In the closure of init the flush is followed by a last message. *)
Flush ==
    /\ Write(LogThread, "flush_hold")
    /\ buffered' = FALSE
    /\ \/ job[LogThread] = "batch" /\ logged' = 0 /\ Goto(LogThread, "check_wait")
       \/ job[LogThread] = "report" /\ UNCHANGED logged /\ Goto(LogThread, "dolog_claim")
    /\ UNCHANGED <<queue, token, batch>>

CheckWait ==
    /\ At(LogThread, "check_wait")
    /\ Goto(LogThread, IF queue = 0 THEN "wait" ELSE "take")
    /\ UNCHANGED <<setup, lock, entries, doing, calls, aborted>>

Wake ==
    /\ At(LogThread, "wait")
    /\ token
    /\ token' = FALSE
    /\ Goto(LogThread, "take")
    /\ UNCHANGED <<setup, lock, queue, batch, logged, buffered, doing, calls, aborted>>

-----------------------------------------------------------------------------
(* do_log of the panic hook and of init's closure, and the sinks of both   *)
(* and of the batch.                                                       *)

(* file_logger::do_log *)
WriteLine(t) ==
    /\ Write(t, "dolog_hold")
    /\ buffered' = TRUE
    /\ Goto(t, "sinks_read")
    /\ UNCHANGED <<queue, token, batch, logged>>

(* sink_logger::do_log takes its read guard ... *)
ReadSinks(t) ==
    /\ At(t, "sinks_read")
    /\ writer = NoThread
    /\ readers' = readers \cup {t}
    /\ next' = [next EXCEPT ![t] = 1]
    /\ Goto(t, "sinks")
    /\ UNCHANGED <<setup, writer, entries, job, messages, calls, aborted>>

AtSink(t, kind) ==
    /\ At(t, "sinks")
    /\ next[t] <= Len(setup.sinks)
    /\ setup.sinks[next[t]] = kind

(* ... and keeps it while it calls the sinks. *)
NextSink(t) ==
    /\ next' = [next EXCEPT ![t] = @ + 1]
    /\ UNCHANGED <<setup, lock, pc, job, messages, calls, aborted>>

SinkReturns(t) ==
    /\ AtSink(t, "returns")
    /\ NextSink(t)
    /\ UNCHANGED entries

(* The sink's queue_log needs a read guard of its own. *)
SinkLogs(t) ==
    /\ AtSink(t, "logs")
    /\ Queued
    /\ NextSink(t)

(* The hook goes on to its next message, whatever became of the last, and  *)
(* the closure of init ends with its one message.                          *)
MessageDone(t) ==
    \/ /\ job[t] = "panic" /\ messages[t] > 1
       /\ messages' = [messages EXCEPT ![t] = @ - 1]
       /\ Goto(t, "dolog_claim")
    \/ /\ job[t] = "report" \/ (job[t] = "panic" /\ messages[t] = 1)
       /\ Goto(t, Ended(t))
       /\ UNCHANGED messages

(* An error of a sink ends do_log: in the loop of log_thread it ends the   *)
(* loop, and the closure of init flushes and reports it.                   *)
SinkFails(t) ==
    /\ AtSink(t, "fails")
    /\ DropRead(t)
    /\ \/ /\ job[t] = "batch"
          /\ job' = [job EXCEPT ![t] = "report"]
          /\ Goto(t, "flush_claim")
          /\ UNCHANGED messages
       \/ MessageDone(t) /\ UNCHANGED job
    /\ UNCHANGED <<setup, writer, entries, next, calls, aborted>>

(* A panic inside the hook ends the process. *)
SinkPanics(t) ==
    /\ AtSink(t, "panics")
    /\ \/ job[t] # "panic" /\ Panic(t) /\ UNCHANGED aborted
       \/ /\ job[t] = "panic"
          /\ aborted' = TRUE
          /\ UNCHANGED <<readers, pc, doing>>
    /\ UNCHANGED <<setup, writer, entries, calls>>

(* Slip: one entry too many. *)
LastEntryLate == batch = 0

LastEntry == batch = 1

(* All sinks have been called: the guard is dropped. *)
SinksDone(t) ==
    /\ At(t, "sinks")
    /\ next[t] > Len(setup.sinks)
    /\ DropRead(t)
    /\ \/ /\ job[t] = "batch"
          /\ batch' = batch - 1
          /\ Goto(t, IF LastEntry THEN "check_flush" ELSE "sinks_read")
          /\ UNCHANGED messages
       \/ MessageDone(t) /\ UNCHANGED batch
    /\ UNCHANGED <<setup, writer, queue, token, logged, buffered, job, next, calls,
                   aborted>>

LogStep ==
    \/ TakeQueue
    \/ ReadConfig
    \/ WriteBatch
    \/ CheckFlush
    \/ Flush
    \/ CheckWait
    \/ Wake

Step(t) ==
    \/ t = LogThread /\ LogStep
    \/ t \in Clients /\ (QueueLog(t) \/ Manage(t))
    \/ Claim(t)
    \/ WriteLine(t)
    \/ ReadSinks(t)
    \/ SinkReturns(t)
    \/ SinkLogs(t)
    \/ SinkFails(t)
    \/ SinkPanics(t)
    \/ SinksDone(t)

Next ==
    \/ \E c \in Clients : \E name \in CallNames : Call(c, name)
    \/ \E t \in Threads : Step(t)

Spec == Init /\ [][Next]_vars

(* Every thread that can go on does, and parking_lot's eventual fairness   *)
(* lets no thread starve on the RwLock.                                    *)
FairSpec == Spec /\ \A t \in Threads : SF_vars(Step(t))

-----------------------------------------------------------------------------
(* Properties. *)

(* The programs that never hang: where there is a hook, a sink panics only *)
(* if the log thread never calls it; and a sink logs only if there is no   *)
(* hook and no call but the log thread's takes the write guard.            *)
Harmless(s) ==
    \A i \in 1..Len(s.sinks) :
        /\ s.sinks[i] = "panics" => ~s.hook \/ "queue_log" \notin s.calls
        /\ s.sinks[i] = "logs" => ~s.hook /\ "manage" \notin s.calls

(* Is thread t in a sink that calls queue_log? *)
InLoggingSink(t) ==
    pc[t] = "sinks" /\ next[t] <= Len(setup.sinks) /\ setup.sinks[next[t]] = "logs"

(* Is thread t in the hook because a sink that it called has panicked?     *)
InHookOfSink(t) ==
    /\ setup.hook
    /\ pc[t] \in {"dolog_claim", "dolog_hold"} /\ job[t] = "panic"
    /\ next[t] <= Len(setup.sinks) /\ setup.sinks[next[t]] = "panics"

(* Is thread t at a point where it needs a guard? *)
WantsGuard(t) ==
    \/ pc[t] \in ClaimPoints \cup HoldPoints \cup {"q_read", "config", "sinks_read"}
    \/ InLoggingSink(t)

(* Whose guards keep thread t from the one it needs: a writer waits for    *)
(* every reader, itself included, and anybody else for the writer.         *)
WaitsFor(t) ==
    IF ~WantsGuard(t) THEN {}
    ELSE IF pc[t] \in HoldPoints THEN readers
    ELSE {writer} \ {NoThread}

(* Threads none of which goes on before another of them does. *)
Circle(S) ==
    /\ S # {}
    /\ \A t \in S : WaitsFor(t) \cap S # {}

Deadlocked == \E S \in SUBSET Threads : Circle(S)

(* A circle of threads that wait for one another's guards closes in no     *)
(* harmless program, and where one does close, it goes through the read    *)
(* guard that sink_logger::do_log keeps while it calls the sinks           *)
(* (src/src/logger/sink_logger.rs:11): through a thread that a sink of its *)
(* own sends for a second guard, to queue_log or, by panicking, to the     *)
(* hook.  Nothing else that the logger does can close one.                 *)
DeadlocksFromSinks ==
    \A S \in SUBSET Threads : Circle(S) =>
        /\ ~Harmless(setup)
        /\ \E t \in S \cap readers : InLoggingSink(t) \/ InHookOfSink(t)

(* Every call of the program returns, whoever panics and though the log    *)
(* thread may be dead, unless a circle closes or the process ends: a       *)
(* thread that dies leaves no guard behind, and nobody starves.            *)
CallsReturn ==
    \A c \in Clients : (pc[c] # "idle") ~> (pc[c] = "idle" \/ aborted \/ Deadlocked)

(* The line that the hook writes for a panic is left in the buffer         *)
(* (src/src/logger/logger_thread_ctx.rs:410), and the log thread may be    *)
(* anywhere in its loop: the line goes out with the next entry that        *)
(* anybody logs, while the log thread lives.                               *)
PanicLineFlushed ==
    (buffered /\ queue > 0)
        ~> (~buffered \/ pc[LogThread] = "dead" \/ aborted \/ Deadlocked)

(* What makes DeadlocksFromSinks inductive: who holds which guard where,   *)
(* and which points a program without a hook, or without calls that write  *)
(* or that log, can not reach.                                             *)
ClientPoints == {"idle", "q_read", "w_claim", "w_hold"}
DoLogPoints == {"dolog_claim", "dolog_hold", "sinks_read", "sinks"}
AsleepPoints == {"take", "check_flush", "flush_claim", "flush_hold", "check_wait", "wait"}
BatchPoints == {"config", "batch_claim", "batch_hold", "sinks_read", "sinks"}

WriterHolds == \A t \in Threads : writer = t <=> pc[t] \in HoldPoints

ReadersCallSinks ==
    \A t \in Threads :
        /\ pc[t] = "sinks" => t \in readers
        /\ t \in readers => pc[t] = "sinks" \/ (t = LogThread /\ InHookOfSink(t))

ClientsInPlace ==
    \A c \in Clients :
        /\ pc[c] \in ClientPoints \cup DoLogPoints
        /\ pc[c] \in {"w_claim", "w_hold"} => "manage" \in setup.calls
        /\ pc[c] = "q_read" => "queue_log" \in setup.calls
        /\ pc[c] \in DoLogPoints => setup.hook /\ job[c] = "panic"

(* A program that is harmless, has a hook and does not log. *)
OnlyHookLogs(s) == Harmless(s) /\ s.hook /\ "queue_log" \notin s.calls

LogThreadInPlace ==
    /\ pc[LogThread] \notin ClientPoints
    /\ pc[LogThread] \in BatchPoints /\ job[LogThread] = "batch" => batch > 0
    /\ pc[LogThread] \in {"dolog_claim", "dolog_hold"} => job[LogThread] # "batch"
    /\ OnlyHookLogs(setup) =>
           /\ queue = 0
           /\ pc[LogThread] \in AsleepPoints
           /\ job[LogThread] = "batch"

GuardsConsistent ==
    WriterHolds /\ ReadersCallSinks /\ ClientsInPlace /\ LogThreadInPlace

IndInv == TypeOK /\ GuardsConsistent
=============================================================================
