---------------------------- MODULE LoggerThread -----------------------------
(***************************************************************************)
(* The logging pipeline of src/src/logger/logger_thread_ctx.rs and the FFI *)
(* entry points of src/src/ffi.rs that drive it.                           *)
(*                                                                         *)
(* Client threads queue entries, wait for a flush, register and unregister *)
(* contexts and add sinks.  The log thread swaps the queue out, writes the *)
(* batch to the global file and to the context files, hands it to the      *)
(* sinks, flushes, and sleeps on the log semaphore.  They share a queue    *)
(* under its own mutex (each of its critical sections is one step), two    *)
(* SemaphoreLite (each call is one step: SemaphoreLite.tla), and the       *)
(* LoggerThreadCtx under an RwLock.                                        *)
(*                                                                         *)
(* The RwLock is parking_lot's (external): a writer first claims the       *)
(* writer bit, which keeps new readers out, then waits for the readers     *)
(* inside to leave.                                                        *)
(***************************************************************************)
EXTENDS BufferedFile, FiniteSets, SequencesExt

CONSTANTS
    Clients,          \* threads of the program that logs
    LogThread,        \* the thread that init() spawns
    NoThread,         \* nobody
    Tags,             \* context tags
    NoTag,            \* tag: None
    ErrorTag,         \* the tag "Paper2" of the log thread's last message
    NoFile,           \* a tag with no entry in context_map
    GlobalPath,       \* path of the global log file
    PathOf,           \* the file add_context makes of each tag
    Program,          \* which calls each client makes
    Budget,           \* BOUND: how many calls each client makes
    MaxBurst,         \* BOUND: entries in one queue_logs call
    ChunkCounts,      \* BOUND: how many chunks the messages make
    FlushEvery,       \* the 100 of  logged >= 100
    MaxStringLen,     \* config.max_string_len
    MayFail           \* can I/O and sinks fail?

CallNames == {"queue_log", "queue_logs", "wait_for_flush", "wait_flush_timeout",
              "register_context", "unregister_context", "add_sink"}

ASSUME ConstantsAssumption ==
    /\ LogThread \notin Clients
    /\ NoThread \notin Clients \cup {LogThread}
    /\ NoTag \notin Tags
    /\ ErrorTag \in Tags \cup {NoTag}
    /\ Program \in [Clients -> SUBSET CallNames]
    /\ Budget \in [Clients -> Nat]
    /\ MaxBurst \in Nat
    /\ ChunkCounts \subseteq Nat
    /\ FlushEvery \in Nat \ {0}
    /\ MaxStringLen \in Nat
    /\ MayFail \in BOOLEAN

(* A LogData, reduced to who queued it (the n-th call of a client, the     *)
(* i-th entry of that call), its tag, how many chunks its message makes,   *)
(* and which of them it is: none yet (0) while it is queued.               *)
Entries == [from : Clients \cup {LogThread}, n : Nat, i : Nat, tag : Tags \cup {NoTag},
            chunks : Nat, part : Nat]

(* do_log's message is written as it is, not split. *)
ErrorEntry == [from |-> LogThread, n |-> 0, i |-> 1, tag |-> ErrorTag,
               chunks |-> 1, part |-> 1]

(* The chunks of an entry are LogData like it but for the message.  How    *)
(* many there are is SplitChunks.tla's: none if every line of the message  *)
(* is empty.                                                               *)
ChunksOf(e) == [p \in 1..e.chunks |-> [e EXCEPT !.part = p]]

(* split_str_into_chunks *)
SplitLogs(logs) == FlattenSeq([k \in 1..Len(logs) |-> ChunksOf(logs[k])])

Writers == [pos : Nat, buf : Seq(Entries)]

Paths == {GlobalPath} \cup {PathOf[t] : t \in Tags}

ASSUME FilesAssumption ==
    /\ NoFile \notin Writers
    /\ Hole \notin Entries
    /\ DOMAIN PathOf = Tags

VARIABLES
    queue,        \* the Vec<LogData> inside log_queue's mutex
    logFlag,      \* the token of log_queue's semaphore
    flushFlag,    \* the token of flush_semaphore, which nobody waits on
    writer,       \* who has claimed the RwLock's writer bit
    readers,      \* who holds a read guard
    disk,         \* the files' contents, as the operating system has them
    global_file,  \* the global file's writer
    context_map,  \* tag -> its file's writer, or NoFile
    sinks,        \* what each sink has been called with, in registration order
    lpc,          \* where the log thread is
    batch,        \* the entries swapped out of the queue, then their chunks
    next,         \* the next chunk of batch to write or to hand to the sinks
    logged,       \* entries taken since the last flush
    todo,         \* contexts the flush under way has not reached
    failed,       \* has log_thread returned an error?
    cpc,          \* where each client is
    tag,          \* the tag argument of each client's call
    calls,        \* calls each client has begun
    pushed,       \* history: the chunks of every entry pushed, in order
    since         \* history: lines of the global log when a context was created

files == <<disk, global_file, context_map>>
clientVars == <<cpc, tag, calls>>
logVars == <<lpc, batch, next, logged, todo, failed>>
history == <<pushed, since>>
vars == <<queue, logFlag, flushFlag, writer, readers, files, sinks, logVars,
          clientVars, history>>

(* Everything written to the global file, flushed or not. *)
GlobalLines == disk[GlobalPath] \o global_file.buf

ClientPoints == {"idle", "q_read", "q_push", "qs_read", "qs_push", "q_signal",
                 "w_read", "w_wait", "t_read", "t_wait",
                 "r_lock", "r_create", "u_lock", "u_remove", "s_lock", "s_push"}

LogPoints == {"take", "config", "batch_lock", "batch_write", "backends",
              "check_flush", "flush_lock", "flush_global", "flush_contexts",
              "check_wait", "wait", "error_lock", "error_write", "error_sinks",
              "dead"}

TypeOK ==
    /\ queue \in Seq(Entries)
    /\ pushed \in Seq(Entries)
    /\ logFlag \in BOOLEAN
    /\ flushFlag \in BOOLEAN
    /\ writer \in Clients \cup {LogThread, NoThread}
    /\ readers \in SUBSET Clients
    /\ disk \in [Paths -> Seq(Entries \cup {Hole})]
    /\ global_file \in Writers
    /\ context_map \in [Tags -> Writers \cup {NoFile}]
    /\ sinks \in Seq(Seq(Entries))
    /\ lpc \in LogPoints
    /\ batch \in Seq(Entries)
    /\ next \in 1..(Len(batch) + 1)
    /\ logged \in Nat
    /\ todo \in SUBSET Tags
    /\ failed \in BOOLEAN
    /\ cpc \in [Clients -> ClientPoints]
    /\ tag \in [Clients -> Tags \cup {NoTag}]
    /\ calls \in [Clients -> Nat]
    /\ since \in [Tags -> Nat]

(* LoggerThreadCtx::new and init: the global file has been created empty   *)
(* and the log thread spawned.                                             *)
Init ==
    /\ queue = <<>>
    /\ pushed = <<>>
    /\ logFlag = FALSE
    /\ flushFlag = FALSE
    /\ writer = NoThread
    /\ readers = {}
    /\ disk = [p \in Paths |-> <<>>]
    /\ global_file = NewWriter
    /\ context_map = [t \in Tags |-> NoFile]
    /\ sinks = <<>>
    /\ lpc = "take"
    /\ batch = <<>>
    /\ next = 1
    /\ logged = 0
    /\ todo = {}
    /\ failed = FALSE
    /\ cpc = [c \in Clients |-> "idle"]
    /\ tag = [c \in Clients |-> NoTag]
    /\ calls = [c \in Clients |-> 0]
    /\ since = [t \in Tags |-> 0]

-----------------------------------------------------------------------------
(* The RwLock<LoggerThreadCtx>. *)

Claim(t) == writer = NoThread /\ writer' = t

HasWrite(t) == writer = t /\ readers = {}

ReleaseWrite == writer' = NoThread

-----------------------------------------------------------------------------
(* The clients. *)

Goto(c, point) == cpc' = [cpc EXCEPT ![c] = point]

Return(c) ==
    /\ Goto(c, "idle")
    /\ tag' = [tag EXCEPT ![c] = NoTag]

FirstPoint == [queue_log |-> "q_read", queue_logs |-> "qs_read",
               wait_for_flush |-> "w_read", wait_flush_timeout |-> "t_read",
               register_context |-> "r_lock", unregister_context |-> "u_lock",
               add_sink |-> "s_lock"]

TagsOf(name) ==
    CASE name \in {"queue_log", "queue_logs"} -> Tags \cup {NoTag}
      [] name \in {"register_context", "unregister_context"} -> Tags
      [] OTHER -> {NoTag}

(* The program enters one of the FFI functions with a tag. *)
Call(c, name, t) ==
    /\ cpc[c] = "idle"
    /\ name \in Program[c]
    /\ calls[c] < Budget[c]
    /\ calls' = [calls EXCEPT ![c] = @ + 1]
    /\ tag' = [tag EXCEPT ![c] = t]
    /\ Goto(c, FirstPoint[name])
    /\ UNCHANGED <<queue, logFlag, flushFlag, writer, readers, files, sinks,
                   logVars, history>>

(* logger.read() at the start of queue_log, queue_logs and the two waits. *)
ReadLock(c) ==
    /\ writer = NoThread
    /\ readers' = readers \cup {c}
    /\ \/ cpc[c] = "q_read" /\ Goto(c, "q_push")
       \/ cpc[c] = "qs_read" /\ Goto(c, "qs_push")
       \/ cpc[c] = "w_read" /\ Goto(c, "w_wait")
       \/ cpc[c] = "t_read" /\ Goto(c, "t_wait")
    /\ UNCHANGED <<queue, logFlag, flushFlag, writer, files, sinks, logVars,
                   tag, calls, history>>

(* The entries of a client's call, whose messages make so many chunks. *)
Burst(c, sizes) ==
    [i \in 1..Len(sizes) |-> [from |-> c, n |-> calls[c], i |-> i, tag |-> tag[c],
                              chunks |-> sizes[i], part |-> 0]]

(* queue.lock().push(..), once or, in queue_logs, for each entry of the    *)
(* iterator: the mutex is held over all of them.                           *)
Push(c) ==
    /\ \E k \in 0..MaxBurst \cup {1} :
           /\ \/ cpc[c] = "q_push" /\ k = 1
              \/ cpc[c] = "qs_push" /\ k \in 0..MaxBurst
           /\ \E sizes \in [1..k -> ChunkCounts] :
                  /\ queue' = queue \o Burst(c, sizes)
                  /\ pushed' = pushed \o SplitLogs(Burst(c, sizes))
    /\ Goto(c, "q_signal")
    /\ UNCHANGED <<logFlag, flushFlag, writer, readers, files, sinks, logVars,
                   tag, calls, since>>

(* Slip: signal only when the push found the queue empty. *)
SignalIfFirst(c) ==
    /\ cpc[c] = "q_signal"
    /\ logFlag' = (logFlag \/ Len(queue) = 1)
    /\ readers' = readers \ {c}
    /\ Return(c)
    /\ UNCHANGED <<queue, flushFlag, writer, files, sinks, logVars, calls, history>>

(* sempahore.signal(); the read guard is dropped at the end of the call. *)
Signal(c) ==
    /\ cpc[c] = "q_signal"
    /\ logFlag' = TRUE
    /\ readers' = readers \ {c}
    /\ Return(c)
    /\ UNCHANGED <<queue, flushFlag, writer, files, sinks, logVars, calls, history>>

(* wait_for_flush and wait_for_flush_timeout wait, under the read guard,   *)
(* on log_queue.0: the semaphore that queue_log signals.                   *)
WaitForFlush(c) ==
    /\ cpc[c] \in {"w_wait", "t_wait"}
    /\ logFlag
    /\ logFlag' = FALSE
    /\ readers' = readers \ {c}
    /\ Return(c)
    /\ UNCHANGED <<queue, flushFlag, writer, files, sinks, logVars, calls, history>>

WaitTimesOut(c) ==
    /\ cpc[c] = "t_wait"
    /\ readers' = readers \ {c}
    /\ Return(c)
    /\ UNCHANGED <<queue, logFlag, flushFlag, writer, files, sinks, logVars,
                   calls, history>>

(* logger.write() in register, unregister and add_sink. *)
ClientClaim(c) ==
    /\ Claim(c)
    /\ \/ cpc[c] = "r_lock" /\ Goto(c, "r_create")
       \/ cpc[c] = "u_lock" /\ Goto(c, "u_remove")
       \/ cpc[c] = "s_lock" /\ Goto(c, "s_push")
    /\ UNCHANGED <<queue, logFlag, flushFlag, readers, files, sinks, logVars,
                   tag, calls, history>>

(* Dropping a BufWriter flushes it and ignores the error. *)
DropCounts(w) == IF MayFail THEN 0..Len(w.buf) ELSE {Len(w.buf)}

(* add_context: File::create empties the file; then insert drops the       *)
(* writer the tag had, whose buffer goes to its own old offset.            *)
AddContext(c) ==
    /\ cpc[c] = "r_create"
    /\ HasWrite(c)
    /\ LET t == tag[c]
           old == IF context_map[t] = NoFile THEN NewWriter ELSE context_map[t]
       IN  /\ \E k \in DropCounts(old) :
                  disk' = [disk EXCEPT ![PathOf[t]] = DrainedCells(<<>>, old, k)]
           /\ context_map' = [context_map EXCEPT ![t] = NewWriter]
           /\ since' = [since EXCEPT ![t] = Len(GlobalLines)]
    /\ ReleaseWrite
    /\ Return(c)
    /\ UNCHANGED <<queue, logFlag, flushFlag, readers, global_file, sinks,
                   logVars, calls, pushed>>

(* add_context fails to create the file: paper2_register_context_id drops  *)
(* the write guard and queues a message with no tag.                       *)
AddContextFails(c) ==
    /\ MayFail
    /\ cpc[c] = "r_create"
    /\ HasWrite(c)
    /\ ReleaseWrite
    /\ tag' = [tag EXCEPT ![c] = NoTag]
    /\ Goto(c, "q_read")
    /\ UNCHANGED <<queue, logFlag, flushFlag, readers, files, sinks, logVars,
                   calls, history>>

(* Slip: the map forgets the writer, which is never dropped. *)
RemoveContextLeaks(c) ==
    /\ cpc[c] = "u_remove"
    /\ HasWrite(c)
    /\ context_map' = [context_map EXCEPT ![tag[c]] = NoFile]
    /\ ReleaseWrite
    /\ Return(c)
    /\ UNCHANGED <<queue, logFlag, flushFlag, readers, disk, global_file, sinks,
                   logVars, calls, history>>

(* remove_context: the writer, if the tag has one, is dropped. *)
RemoveContext(c) ==
    /\ cpc[c] = "u_remove"
    /\ HasWrite(c)
    /\ LET t == tag[c] IN
       \/ /\ context_map[t] = NoFile
          /\ UNCHANGED <<disk, context_map>>
       \/ /\ context_map[t] # NoFile
          /\ \E k \in DropCounts(context_map[t]) :
                 disk' = [disk EXCEPT ![PathOf[t]] = DrainedCells(@, context_map[t], k)]
          /\ context_map' = [context_map EXCEPT ![t] = NoFile]
    /\ ReleaseWrite
    /\ Return(c)
    /\ UNCHANGED <<queue, logFlag, flushFlag, readers, global_file, sinks,
                   logVars, calls, history>>

AddSink(c) ==
    /\ cpc[c] = "s_push"
    /\ HasWrite(c)
    /\ sinks' = Append(sinks, <<>>)
    /\ ReleaseWrite
    /\ Return(c)
    /\ UNCHANGED <<queue, logFlag, flushFlag, readers, files, logVars, calls, history>>

(* What a client does inside a call, apart from timing out. *)
ClientStep(c) ==
    \/ ReadLock(c)
    \/ Push(c)
    \/ Signal(c)
    \/ WaitForFlush(c)
    \/ ClientClaim(c)
    \/ AddContext(c)
    \/ RemoveContext(c)
    \/ AddSink(c)

-----------------------------------------------------------------------------
(* The log thread. *)

LogGoto(point) == lpc' = point

shared == <<queue, logFlag, flushFlag, writer, readers, files, sinks, clientVars,
            history>>

(* Slip: the loop over the new batch goes on where the last one ended. *)
TakeQueueKeepsNext ==
    /\ lpc = "take"
    /\ batch' = queue
    /\ queue' = <<>>
    /\ logged' = logged + Len(queue)
    /\ LogGoto(IF queue = <<>> THEN "check_flush" ELSE "config")
    /\ UNCHANGED <<logFlag, flushFlag, writer, readers, files, sinks, next, todo,
                   failed, clientVars, history>>

(* std::mem::replace under the queue's mutex;  logged += queue.len(). *)
TakeQueue ==
    /\ lpc = "take"
    /\ batch' = queue
    /\ queue' = <<>>
    /\ next' = 1
    /\ logged' = logged + Len(queue)
    /\ LogGoto(IF queue = <<>> THEN "check_flush" ELSE "config")
    /\ UNCHANGED <<logFlag, flushFlag, writer, readers, files, sinks, todo,
                   failed, clientVars, history>>

(* logger_thread.read().config.max_string_len, then split_str_into_chunks: *)
(* itertools' chunks(0) panics, which ends the thread.                     *)
ReadConfig ==
    /\ lpc = "config"
    /\ writer = NoThread
    /\ \/ MaxStringLen = 0 /\ UNCHANGED batch /\ LogGoto("dead")
       \/ MaxStringLen > 0 /\ batch' = SplitLogs(batch) /\ LogGoto("batch_lock")
    /\ UNCHANGED <<shared, next, logged, todo, failed>>

(* logger_thread_lock.write() in do_log_batch, flush and do_log. *)
LogClaim ==
    /\ Claim(LogThread)
    /\ \/ lpc = "batch_lock" /\ LogGoto("batch_write")
       \/ lpc = "flush_lock" /\ LogGoto("flush_global")
       \/ lpc = "error_lock" /\ LogGoto("error_write")
    /\ UNCHANGED <<queue, logFlag, flushFlag, readers, files, sinks, batch, next,
                   logged, todo, failed, clientVars, history>>

HasContext(e) == e.tag \in {t \in Tags : context_map[t] # NoFile}

(* write_to_io to the global file, then write_compact_to_io to the file of *)
(* the entry's context if it has one.                                      *)
WriteEntry(e) ==
    \E g \in SpillCounts(global_file) :
        /\ global_file' = Buffered(Drained(global_file, g), e)
        /\ LET d == [disk EXCEPT ![GlobalPath] = DrainedCells(@, global_file, g)] IN
           \/ /\ ~HasContext(e)
              /\ disk' = d
              /\ UNCHANGED context_map
           \/ /\ HasContext(e)
              /\ LET w == context_map[e.tag] IN
                 \E k \in SpillCounts(w) :
                    /\ disk' = [d EXCEPT ![PathOf[e.tag]] = DrainedCells(@, w, k)]
                    /\ context_map' =
                          [context_map EXCEPT ![e.tag] = Buffered(Drained(w, k), e)]

(* The same, when the global file or the context's file returns an error. *)
WriteEntryFails(e) ==
    /\ MayFail
    /\ \/ /\ \E k \in FailedWriteCounts(global_file) :
                 /\ global_file' = Drained(global_file, k)
                 /\ disk' = [disk EXCEPT ![GlobalPath] = DrainedCells(@, global_file, k)]
          /\ UNCHANGED context_map
       \/ /\ HasContext(e)
          /\ \E g \in SpillCounts(global_file), k \in FailedWriteCounts(context_map[e.tag]) :
                 LET d == [disk EXCEPT ![GlobalPath] = DrainedCells(@, global_file, g)]
                     w == context_map[e.tag]
                 IN  /\ global_file' = Buffered(Drained(global_file, g), e)
                     /\ disk' = [d EXCEPT ![PathOf[e.tag]] = DrainedCells(@, w, k)]
                     /\ context_map' = [context_map EXCEPT ![e.tag] = Drained(w, k)]

(* One round of do_log_batch's loop. *)
BatchWrite ==
    /\ lpc = "batch_write"
    /\ HasWrite(LogThread)
    /\ next <= Len(batch)
    /\ WriteEntry(batch[next])
    /\ next' = next + 1
    /\ UNCHANGED <<queue, logFlag, flushFlag, writer, readers, sinks, lpc, batch,
                   logged, todo, failed, clientVars, history>>

(* The end of the loop: the write guard is dropped. *)
BatchWritten ==
    /\ lpc = "batch_write"
    /\ HasWrite(LogThread)
    /\ next > Len(batch)
    /\ ReleaseWrite
    /\ next' = 1
    /\ LogGoto("backends")
    /\ UNCHANGED <<queue, logFlag, flushFlag, readers, files, sinks, batch,
                   logged, todo, failed, clientVars, history>>

(* Slip: the error is swallowed and the loop goes on with the next chunk. *)
BatchWriteFailsGoesOn ==
    /\ lpc = "batch_write"
    /\ HasWrite(LogThread)
    /\ next <= Len(batch)
    /\ WriteEntryFails(batch[next])
    /\ next' = next + 1
    /\ UNCHANGED <<queue, logFlag, flushFlag, writer, readers, sinks, lpc, batch,
                   logged, todo, failed, clientVars, history>>

(* do_log_batch(..)?  returns an error: log_thread returns it, and the     *)
(* closure of init flushes before it reports it.                           *)
BatchWriteFails ==
    /\ lpc = "batch_write"
    /\ HasWrite(LogThread)
    /\ next <= Len(batch)
    /\ WriteEntryFails(batch[next])
    /\ ReleaseWrite
    /\ failed' = TRUE
    /\ LogGoto("flush_lock")
    /\ UNCHANGED <<queue, logFlag, flushFlag, readers, sinks, batch, next,
                   logged, todo, clientVars, history>>

(* Slip: one sink too few. *)
DeliveredShort(e, k) ==
    [j \in 1..Len(sinks) |-> IF j < k THEN Append(sinks[j], e) ELSE sinks[j]]

(* The first k sinks are called with e. *)
Delivered(e, k) ==
    [j \in 1..Len(sinks) |-> IF j <= k THEN Append(sinks[j], e) ELSE sinks[j]]

(* sink_logger::do_log for one chunk of the batch, under a read guard that *)
(* is taken and dropped for each chunk.                                    *)
DeliverToSinks ==
    /\ lpc = "backends"
    /\ next <= Len(batch)
    /\ writer = NoThread
    /\ sinks' = Delivered(batch[next], Len(sinks))
    /\ next' = next + 1
    /\ UNCHANGED <<queue, logFlag, flushFlag, writer, readers, files, lpc, batch,
                   logged, todo, failed, clientVars, history>>

(* The k-th sink returns an error, or panics: the sinks after it are not   *)
(* called, and a panic ends the thread at once.                            *)
SinkFails ==
    /\ MayFail
    /\ lpc = "backends"
    /\ next <= Len(batch)
    /\ writer = NoThread
    /\ \E k \in 1..Len(sinks) : sinks' = Delivered(batch[next], k)
    /\ \/ LogGoto("flush_lock") /\ failed' = TRUE
       \/ LogGoto("dead") /\ UNCHANGED failed
    /\ UNCHANGED <<queue, logFlag, flushFlag, writer, readers, files, batch, next,
                   logged, todo, clientVars, history>>

BackendsDone ==
    /\ lpc = "backends"
    /\ next > Len(batch)
    /\ LogGoto("check_flush")
    /\ UNCHANGED <<shared, batch, next, logged, todo, failed>>

(* Slips: one of the two conditions is left out. *)
FlushDueEmptyOnly == queue = <<>>
FlushDueCountOnly == logged >= FlushEvery

(* if is_empty || logged >= 100 *)
FlushDue == queue = <<>> \/ logged >= FlushEvery

CheckFlush ==
    /\ lpc = "check_flush"
    /\ LogGoto(IF FlushDue THEN "flush_lock" ELSE "check_wait")
    /\ UNCHANGED <<shared, batch, next, logged, todo, failed>>

(* logger_thread.global_file.flush()?  Nothing is left to fail when the    *)
(* buffer is empty.                                                        *)
FlushGlobal ==
    /\ lpc = "flush_global"
    /\ HasWrite(LogThread)
    /\ LET k == Len(global_file.buf) IN
       /\ disk' = [disk EXCEPT ![GlobalPath] = DrainedCells(@, global_file, k)]
       /\ global_file' = Drained(global_file, k)
    /\ todo' = {t \in Tags : context_map[t] # NoFile}
    /\ LogGoto("flush_contexts")
    /\ UNCHANGED <<queue, logFlag, flushFlag, writer, readers, context_map, sinks,
                   batch, next, logged, failed, clientVars, history>>

(* Slip: a copy of the writer is flushed, so that the buffer stays. *)
FlushContextKeeps(t) ==
    /\ lpc = "flush_contexts"
    /\ HasWrite(LogThread)
    /\ t \in todo
    /\ LET w == context_map[t] IN
       disk' = [disk EXCEPT ![PathOf[t]] = DrainedCells(@, w, Len(w.buf))]
    /\ todo' = todo \ {t}
    /\ UNCHANGED <<queue, logFlag, flushFlag, writer, readers, global_file,
                   context_map, sinks, lpc, batch, next, logged, failed,
                   clientVars, history>>

(* context_map.values_mut().try_for_each(|file| file.flush()), in the      *)
(* order of the hash map.                                                  *)
FlushContext(t) ==
    /\ lpc = "flush_contexts"
    /\ HasWrite(LogThread)
    /\ t \in todo
    /\ LET w == context_map[t] IN
       /\ disk' = [disk EXCEPT ![PathOf[t]] = DrainedCells(@, w, Len(w.buf))]
       /\ context_map' = [context_map EXCEPT ![t] = Drained(w, Len(w.buf))]
    /\ todo' = todo \ {t}
    /\ UNCHANGED <<queue, logFlag, flushFlag, writer, readers, global_file, sinks,
                   lpc, batch, next, logged, failed, clientVars, history>>

(* The write guard is dropped, flush_semaphore signalled, and, in the      *)
(* loop of log_thread,  logged = 0.                                        *)
FlushDone ==
    /\ lpc = "flush_contexts"
    /\ HasWrite(LogThread)
    /\ todo = {}
    /\ ReleaseWrite
    /\ flushFlag' = TRUE
    /\ \/ ~failed /\ logged' = 0 /\ LogGoto("check_wait")
       \/ failed /\ UNCHANGED logged /\ LogGoto("error_lock")
    /\ UNCHANGED <<queue, logFlag, readers, files, sinks, batch, next, todo,
                   failed, clientVars, history>>

(* flush returns an error: from the loop of log_thread it ends the loop,   *)
(* in the closure of init it is ignored.                                   *)
FlushFails ==
    /\ MayFail
    /\ HasWrite(LogThread)
    /\ \/ /\ lpc = "flush_global"
          /\ \E k \in FailedFlushCounts(global_file) :
                 /\ disk' = [disk EXCEPT ![GlobalPath] = DrainedCells(@, global_file, k)]
                 /\ global_file' = Drained(global_file, k)
          /\ UNCHANGED context_map
       \/ /\ lpc = "flush_contexts"
          /\ \E t \in todo : \E k \in FailedFlushCounts(context_map[t]) :
                 /\ disk' = [disk EXCEPT ![PathOf[t]] = DrainedCells(@, context_map[t], k)]
                 /\ context_map' = [context_map EXCEPT ![t] = Drained(context_map[t], k)]
          /\ UNCHANGED global_file
    /\ ReleaseWrite
    /\ todo' = {}
    /\ failed' = TRUE
    /\ LogGoto(IF failed THEN "error_lock" ELSE "flush_lock")
    /\ UNCHANGED <<queue, logFlag, flushFlag, readers, sinks, batch, next, logged,
                   clientVars, history>>

(* if log_mutex.lock().is_empty() { wait } *)
CheckWait ==
    /\ lpc = "check_wait"
    /\ LogGoto(IF queue = <<>> THEN "wait" ELSE "take")
    /\ UNCHANGED <<shared, batch, next, logged, todo, failed>>

(* log_semaphore_lite.wait() returns. *)
Wake ==
    /\ lpc = "wait"
    /\ logFlag
    /\ logFlag' = FALSE
    /\ LogGoto("take")
    /\ UNCHANGED <<queue, flushFlag, writer, readers, files, sinks, batch, next,
                   logged, todo, failed, clientVars, history>>

(* The closure of init after an error: do_log writes a message of its own  *)
(* to the files, without a flush, then hands it to the sinks.              *)
ErrorWrite ==
    /\ lpc = "error_write"
    /\ HasWrite(LogThread)
    /\ \/ WriteEntry(ErrorEntry) /\ LogGoto("error_sinks")
       \/ WriteEntryFails(ErrorEntry) /\ LogGoto("dead")
    /\ ReleaseWrite
    /\ UNCHANGED <<queue, logFlag, flushFlag, readers, sinks, batch, next, logged,
                   todo, failed, clientVars, history>>

ErrorToSinks ==
    /\ lpc = "error_sinks"
    /\ writer = NoThread
    /\ \E k \in 0..Len(sinks) :
           /\ k = Len(sinks) \/ (MayFail /\ k > 0)
           /\ sinks' = Delivered(ErrorEntry, k)
    /\ LogGoto("dead")
    /\ UNCHANGED <<queue, logFlag, flushFlag, writer, readers, files, batch, next,
                   logged, todo, failed, clientVars, history>>

(* What the log thread does when nothing fails. *)
LogStep ==
    \/ TakeQueue
    \/ ReadConfig
    \/ LogClaim
    \/ BatchWrite
    \/ BatchWritten
    \/ DeliverToSinks
    \/ BackendsDone
    \/ CheckFlush
    \/ FlushGlobal
    \/ \E t \in Tags : FlushContext(t)
    \/ FlushDone
    \/ CheckWait
    \/ Wake

LogFailure ==
    \/ BatchWriteFails
    \/ SinkFails
    \/ FlushFails

ErrorStep ==
    \/ ErrorWrite
    \/ ErrorToSinks

Next ==
    \/ \E c \in Clients :
          \/ \E name \in CallNames : \E t \in TagsOf(name) : Call(c, name, t)
          \/ ClientStep(c)
          \/ AddContextFails(c)
          \/ WaitTimesOut(c)
    \/ LogStep
    \/ LogFailure
    \/ ErrorStep

Spec == Init /\ [][Next]_vars

(* A thread inside a call and the log thread keep running, and a timed     *)
(* wait's timer fires.  Nobody has to call, and nothing has to fail.       *)
Fairness ==
    /\ WF_vars(LogStep)
    /\ WF_vars(ErrorStep)
    /\ \A c \in Clients : WF_vars(ClientStep(c)) /\ WF_vars(WaitTimesOut(c))

FairSpec == Spec /\ Fairness

-----------------------------------------------------------------------------
(* Properties. *)

(* The chunks the log thread has taken off the queue and not yet written. *)
Unwritten ==
    CASE lpc = "config" -> SplitLogs(batch)
      [] lpc \in {"batch_lock", "batch_write"} -> SubSeq(batch, next, Len(batch))
      [] OTHER -> <<>>

(* No chunk of an entry is lost, duplicated or reordered between queue_log *)
(* and the global file, however many threads log while the log thread      *)
(* swaps the queue out: as long as the log thread lives, the file, the     *)
(* rest of the batch and the queue make up exactly what was pushed.  (An   *)
(* entry without a chunk leaves no trace.)                                 *)
NothingLost ==
    ~failed /\ lpc # "dead" => GlobalLines \o Unwritten \o SplitLogs(queue) = pushed

(* Whenever the log thread is asleep, whatever it wrote is on disk, in the *)
(* global file and in every context file: the two separate emptiness tests *)
(* at the end of its loop (src/src/logger/logger_thread_ctx.rs:329-340)    *)
(* never let it sleep on a buffered entry.                                 *)
AsleepFlushed ==
    lpc = "wait" =>
        /\ global_file.buf = <<>>
        /\ \A t \in Tags : context_map[t] # NoFile => context_map[t].buf = <<>>

(* The entries, as they were queued, that some chunks are from. *)
EntriesOf(lines) == {[e EXCEPT !.part = 0] : e \in Range(lines)}

(* Under a steady load, when the queue is never empty, the thread still    *)
(* flushes: when it goes for the next batch, the lines that wait in the    *)
(* global file's buffer are those of fewer than FlushEvery (100) entries.  *)
(* They may be any number of lines: logged                                 *)
(* (src/src/logger/logger_thread_ctx.rs:293) counts entries before they    *)
(* are split, although the comment at its test (325) speaks of lines.      *)
UnflushedBound ==
    lpc = "take" => Cardinality(EntriesOf(global_file.buf)) < FlushEvery

(* With no call that waits for a flush, the log thread never sleeps on a   *)
(* queued entry: either the token is set, or the client that pushed last   *)
(* is about to set it.                                                     *)
NoSleepOnQueue ==
    lpc = "wait" /\ queue # <<>> /\ ~logFlag =>
        \E c \in Clients : cpc[c] = "q_signal"

(* The chunks the log thread has taken off the queue and not yet handed to *)
(* the sinks.                                                              *)
Undelivered ==
    CASE lpc = "config" -> SplitLogs(batch)
      [] lpc \in {"batch_lock", "batch_write"} -> batch
      [] lpc = "backends" -> SubSeq(batch, next, Len(batch))
      [] OTHER -> <<>>

(* What the j-th sink has been called with and, if nothing fails, will be  *)
(* called with for what has been queued so far.                            *)
PromisedTo(j) == sinks[j] \o Undelivered \o SplitLogs(queue)

(* A sink gets every chunk from its registration on, once, in the order of *)
(* the pushes: what it is promised changes only by what is pushed.         *)
(* Registering it while a batch is half delivered, between two of the read *)
(* guards of src/src/logger/sink_logger.rs:10, gives it no gap and no      *)
(* repetition after that: its first chunk may be in the middle of an       *)
(* entry, as the guard is dropped between two chunks of one entry too.     *)
SinksInOrder ==
    [][~failed' /\ lpc' # "dead" =>
          \A j \in 1..Len(sinks) :
              PromisedTo(j)' =
                  PromisedTo(j) \o SubSeq(pushed', Len(pushed) + 1, Len(pushed'))]_vars

(* The entries of seq with tag t, as a recursion over its positions. *)
TaggedWith(t, seq) ==
    LET kept[i \in 0..Len(seq)] ==
            IF i = 0 THEN <<>>
            ELSE IF seq[i].tag = t THEN Append(kept[i - 1], seq[i])
            ELSE kept[i - 1]
    IN  kept[Len(seq)]

(* Everything written to the file of tag t, flushed or not. *)
ContextLines(t) ==
    disk[PathOf[t]] \o (IF context_map[t] = NoFile THEN <<>> ELSE context_map[t].buf)

(* The file of a registered context is the global log filtered by its tag, *)
(* from its registration on: no entry of another tag, none missing, none   *)
(* out of order, wherever the registration falls between the swap of the   *)
(* queue, the batch's write guard and the flush's.                         *)
ContextFiltered ==
    ~failed =>
        \A t \in Tags :
            context_map[t] # NoFile =>
                ContextLines(t) =
                    TaggedWith(t, SubSeq(GlobalLines, since[t] + 1, Len(GlobalLines)))

(* Nothing written to a context is lost again: flushing it, spilling its   *)
(* buffer and unregistering it while entries are buffered keep its lines,  *)
(* and only add_context starts the file over.                              *)
ContextAppendOnly ==
    [][\A t \in Tags :
          \/ IsPrefix(ContextLines(t), ContextLines(t)')
          \/ \E c \in Clients : cpc[c] = "r_create" /\ tag[c] = t]_vars

Durable == INSTANCE DurableLog WITH accepted <- pushed, stored <- disk[GlobalPath]

(* The pipeline implements DurableLog: the global file on disk only grows, *)
(* and always holds the oldest entries pushed, in the order of the pushes, *)
(* whatever fails and when.                                                *)
ImplementsDurableLog == Durable!Spec

(* What one client has pushed. *)
PushedBy(c) == {e \in Range(pushed) : e.from = c}

PushedInCall(c, n) == {e \in PushedBy(c) : e.n = n}

(* Every chunk of what a call of queue_log or queue_logs pushes is         *)
(* eventually in the global file on disk.                                  *)
EveryLogWritten ==
    \A c \in Clients : \A n \in 1..Budget[c] :
        (PushedInCall(c, n) # {})
            ~> (PushedInCall(c, n) \subseteq Range(disk[GlobalPath]))

(* wait_for_flush returns to a client only when everything that client had *)
(* queued is on disk.                                                      *)
WaitedLogsOnDisk ==
    [][\A c \in Clients :
          cpc[c] = "w_wait" /\ cpc'[c] = "idle" =>
              PushedBy(c) \subseteq Range(disk'[GlobalPath])]_vars

(* A thread inside wait_for_flush returns once another thread logs. *)
WaitReturnsOnLog ==
    \A c, d \in Clients :
        (cpc[c] = "w_wait" /\ cpc[d] = "q_read") ~> (cpc[c] # "w_wait")

(* A context's file holds whole log lines and no gaps between them. *)
ContextFileNoHole ==
    \A t \in Tags : Hole \notin Range(disk[PathOf[t]])

-----------------------------------------------------------------------------
(* What makes the safety properties inductive. *)

ErrorPoints == {"error_lock", "error_write", "error_sinks"}

(* Who holds or awaits the write guard, what a flush still has to do, and  *)
(* where log_thread can be after its error.                                *)
PointsConsistent ==
    /\ lpc \in {"batch_write", "flush_global", "flush_contexts", "error_write"}
           <=> writer = LogThread
    /\ \A c \in Clients :
           cpc[c] \in {"r_create", "u_remove", "s_push"} <=> writer = c
    /\ \A c \in Clients :
           cpc[c] \in {"r_lock", "r_create", "u_lock", "u_remove"} => tag[c] \in Tags
    /\ \A t \in todo : context_map[t] # NoFile
    /\ lpc # "flush_contexts" => todo = {}
    /\ lpc \in ErrorPoints => failed
    /\ failed => lpc \in ErrorPoints \cup {"flush_lock", "flush_global",
                                           "flush_contexts", "dead"}
    /\ lpc \in {"config", "batch_lock"} => next = 1

(* No tag's file is the global file. *)
GlobalPathPrivate == \A t \in Tags : PathOf[t] # GlobalPath

(* Each tag has a file of its own. *)
OwnFiles == \A t, u \in Tags : t # u => PathOf[t] # PathOf[u]

(* The program makes no call that waits for a flush. *)
NoWaitCalls ==
    \A c \in Clients : Program[c] \cap {"wait_for_flush", "wait_flush_timeout"} = {}

NobodyWaits == \A c \in Clients : cpc[c] \notin {"w_read", "w_wait", "t_read", "t_wait"}

(* The global writer appends, and what it has appended is a prefix of what *)
(* was pushed until the log thread writes its own last message.            *)
GlobalOrdered ==
    /\ global_file.pos = Len(disk[GlobalPath])
    /\ IsPrefix(disk[GlobalPath], pushed)
    /\ lpc \notin {"error_sinks", "dead"} => IsPrefix(GlobalLines, pushed)

FileFlushed(t) == context_map[t] # NoFile => context_map[t].buf = <<>>

(* Nobody registers a tag whose writer has entries in its buffer. *)
RegistersFlushed == \A c \in Clients : cpc[c] = "r_create" => FileFlushed(tag[c])

(* At most one call of the program registers a context. *)
RegistersOnce ==
    \A c, d \in Clients :
        "register_context" \in Program[c] \cap Program[d] => c = d /\ Budget[c] <= 1

NoContexts == \A t \in Tags : context_map[t] = NoFile

(* The call that may register is spent once it is made, and until it       *)
(* returns no context is registered.                                       *)
RegistrationSpent ==
    /\ \A c \in Clients :
           cpc[c] \in {"r_lock", "r_create"} =>
               "register_context" \in Program[c] /\ calls[c] >= Budget[c] /\ NoContexts
    /\ ~NoContexts =>
           \A c \in Clients : "register_context" \in Program[c] => calls[c] >= Budget[c]

(* The writers of the contexts append, to files created after some part of *)
(* the global log.                                                         *)
ContextsOrdered ==
    \A t \in Tags :
        context_map[t] # NoFile =>
            /\ context_map[t].pos = Len(disk[PathOf[t]])
            /\ since[t] <= Len(GlobalLines)

AllFlushed == global_file.buf = <<>> /\ \A t \in Tags : FileFlushed(t)

(* The entries that have a chunk in the buffer or still to be written. *)
Unflushed == EntriesOf(global_file.buf) \cup EntriesOf(Unwritten)

(* logged counts at least the unflushed entries, and the two emptiness     *)
(* tests fit together: if no flush was due the queue was not empty, and    *)
(* nobody but the log thread empties it.                                   *)
FlushProgress ==
    /\ ~failed => Cardinality(Unflushed) <= logged
    /\ lpc \in {"take", "check_wait", "wait"} => logged < FlushEvery
    /\ lpc = "flush_contexts" =>
           /\ global_file.buf = <<>>
           /\ \A t \in Tags \ todo : FileFlushed(t)
    /\ lpc = "check_wait" => queue # <<>> \/ AllFlushed
    /\ lpc = "wait" => AllFlushed

IndInv ==
    /\ TypeOK
    /\ PointsConsistent
    /\ NothingLost
    /\ GlobalOrdered
    /\ FlushProgress
=============================================================================
