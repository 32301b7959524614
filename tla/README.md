# A TLA+ model of paperlog

paperlog is a logging library: threads queue log entries, one background thread
writes them to a global file, to one file per registered context and to
callbacks ("sinks"), and a C interface drives it from C++ mods. This directory
models it in TLA+, checks the model with TLC on small instances and proves the
main safety properties with TLAPS for every instance.

## Inventory

| component | source | state | operations |
|---|---|---|---|
| SemaphoreLite | `src/src/semaphore_lite.rs` | a flag under a mutex, a condition variable | `signal`, `wait`, `wait_timeout` |
| LoggerThreadCtx | `src/src/logger/logger_thread_ctx.rs` | the queue under its mutex, the log semaphore, the flush semaphore, global file, context map, sinks (all but the queue and the semaphores under an `RwLock`) | `queue_log`, `queue_logs`, `wait_for_flush`, `wait_for_flush_timeout`, `add_context`, `remove_context`, `add_sink` |
| log thread | the same file, `file_logger.rs`, `sink_logger.rs` | the batch, the count since the last flush | `log_thread`, `do_log_batch`, `flush`, the closure of `init` |
| message splitting | `split_str_into_chunks` | none | one function |
| C interface | `src/src/ffi.rs` | none of its own | one `extern "C"` function per operation |
| initialisation | `src/src/lib.rs`, `src/scotland2` | a `OnceLock` | `init_logger`, `get_logger`, and their callers |
| panic hook | `logger_thread_ctx.rs:425-470` | none | `do_log` in the panicking thread, past the queue |
| VecPool | `src/src/vec_pool.rs` | a deque of empty vectors | `take_vec`, `return_vec`, `resize_all` |
| logcat backend | `logcat_logger.rs` | a byte buffer | `do_log` |
| log and tracing facades | `src/paper2_log`, `src/paper2_tracing` | the registration and the maximum level of the log crate | `init_with_max_level`, `log`, `flush`, `on_event` |
| stdout, tracing backends; C++ headers; loaders | `src/src/logger/`, `src/shared`, `src/scotland2` | none | formatting and forwarding |

How they interact. A client takes a read guard of the `RwLock` and pushes to the
queue under the queue's mutex, then signals the log semaphore. The log thread
swaps the queue for an empty vector, splits its messages into chunks, writes them under the write guard,
drops it, calls the sinks under a read guard taken anew for each chunk, flushes
under the write guard if the queue is empty or 100 entries have been taken,
signals the flush semaphore, and sleeps on the log semaphore if the queue is
empty. Contexts and sinks are added under the write guard. The two waits take a
read guard and wait on the *log* semaphore. The sinks and the panic hook run the
program's code inside the logger and the logger's inside the program: a sink may
call `queue_log` or panic while its thread holds the read guard, and the hook
takes the write guard for its line and the read guard for the sinks in whatever
thread panics. All of this starts when one thread has
initialised the `OnceLock`; calls before that are refused.

What is hard about it: the swap racing pushes; two separate looks at the queue
at the end of the loop; a wake-up between a look and the sleep; one token shared
by the log thread and the threads that wait for a flush; guards held across
waits; contexts and sinks that change in the middle of a batch; buffers that
outlive their files; writes and flushes that fail half way; code of the program
that is called under a guard and asks for another; a log thread that dies while
the program goes on.

What makes each component correct: the semaphore is an atomic binary semaphore
and loses no wake-up; the pipeline neither loses, duplicates nor reorders an
entry on its way to the global file, flushes before it sleeps and often enough,
and gives each context and each sink exactly its share; splitting keeps the text but for
blank lines; threads block one another only where a sink goes for a second guard, and a dead log
thread leaves no guard behind; the pool hands out empty vectors and makes no more
than it needs; there is one logger, the first that could be made, and who has been told of it is
served.
`PROJECT.json` lists the hazards with the lines at which they bite.

## Modules

| module | models |
|---|---|
| `BinarySemaphore` | abstract: a token, and the calls that set and take it |
| `SemaphoreLite` | `semaphore_lite.rs` step by step over its mutex and condition variable |
| `SemaphoreLiteProofs` | its theorems |
| `BufferedFile` | a `BufWriter<File>`: an offset and a buffer over the file's contents (external: std) |
| `DurableLog` | abstract: what the global file promises |
| `LoggerThread` | clients, log thread, `RwLock`, files, sinks |
| `SequenceLemmas` | lemmas on sequences, prefixes, flattening and recursive functions that the proofs share |
| `LoggerThreadProofs` | theorems on the queue, the global file, the flushes and the token; lemmas on `BufferedFile` |
| `SinkContextProofs` | theorems on the sinks and the contexts' files |
| `Lifecycle` | `init_logger` on the `OnceLock`, the entry points and both facades |
| `LifecycleProofs` | its theorems |
| `Reentrancy` | the panic hook, sinks that log, fail or panic, and the guards they need |
| `ReentrancyProofs` | its theorems |
| `VecPool` | `vec_pool.rs` |
| `VecPoolProofs` | its theorems |
| `LogcatBuffer` | the byte buffer of `logcat_logger::do_log` |
| `SplitChunks` | `split_str_into_chunks`, beside a reference that wraps lines as they are typed |
| `SplitChunksProofs` | its theorem |
| `MC*` | the constants of the runs |

### SemaphoreLite

`flag`, `holder` and `parked` are the bool, the mutex's owner and the condition
variable's wait set; `pc` and `op` say where each thread is. Every access under
the mutex is a step: `Lock`, `Store`, `NotifyAll`, `TestSet`, `Park` (release and
join the wait set, atomically, as parking_lot promises), `TimeOut`, `Relock`,
`Clear`, `Unlock`. The code has no `TimeOut` fairness, so a timed wait may or may
not time out. The refinement mapping puts the effect of a call at the store, at
the reset of the flag, or at the firing of the timer.

### LoggerThread

An entry (`Entries`) is who queued it, in which call, its tag, and how many chunks its
message makes; its text is formatting. `ReadConfig` replaces the entries of the batch by
their chunks (`SplitLogs`, with `part` the chunk's number), and from there on everything
goes chunk by chunk: one line in each file, one call of each sink under a read guard of
its own. How many chunks a message makes is nondeterministic here (`ChunkCounts`, which
may contain 0: a message of newlines makes none) and is what `SplitChunks` says of a
message. A file is a sequence of *cells*, one for each chunk; a line of which only some
bytes have gone out still counts as buffered. `BufferedFile` keeps each writer's own offset, since
`File::create` opens the file anew, and fills gaps with `Hole`.

The `RwLock` is parking_lot's (external): a writer claims the writer bit, which
keeps new readers out, then waits for the readers inside. Hence a client's
`write()` is two points (`ClientClaim`, then an action that needs `HasWrite`).
Critical sections of the queue's mutex are single steps, and so are the calls on
the two semaphores: `SemaphoreLite` is what justifies it.

| action | code |
|---|---|
| `Call`, `ReadLock` | the `extern "C"` functions up to their guard |
| `Push`, `Signal` | `queue_log`, `queue_logs` |
| `WaitForFlush`, `WaitTimesOut` | `wait_for_flush`, `wait_for_flush_timeout` |
| `AddContext`, `AddContextFails`, `RemoveContext`, `AddSink` | the functions of these names and their callers in `ffi.rs` |
| `TakeQueue`, `ReadConfig` | the head of the loop |
| `LogClaim`, `BatchWrite`, `BatchWritten`, `BatchWriteFails` | `file_logger::do_log_batch` |
| `DeliverToSinks`, `SinkFails`, `BackendsDone` | the loop over the other backends |
| `CheckFlush`, `FlushGlobal`, `FlushContext`, `FlushDone`, `FlushFails` | the flush test and `flush` |
| `CheckWait`, `Wake` | the sleep |
| `ErrorWrite`, `ErrorToSinks` | the closure of `init` after an error |

`pushed` and `since` are history variables: all entries ever pushed, and the
length of the global log when a context's file was created; the former holds entries as their chunks. The operators under a
comment that starts with "Slip:" are not part of the model. They are variants with one
plausible mistake each, kept to show that each property can fail.

The default features of a desktop build are modelled: `file` and `sinks`, no
stdout or tracing. On Android `logcat_logger::do_log` runs before the sinks; a
panic in it ends the log thread as a panicking sink does (`SinkFails`).

### Lifecycle

`cell` is the `OnceLock`, `logger` the configuration of the logger in it, `created`
the history of `File::create` calls on global files. A call (`request`) is a name,
its configuration or level, and whether the arguments that the function checks
are usable. `late` records whether, when the call began, some thread had already
been told that the logger is there (`known`).

| action | code |
|---|---|
| `RejectPath`, `FindLogger`, `StartInit` | `paper2_init_logger_ffi`, `OnceLock::get_or_init` |
| `CreateDirs`, `CreateFile`, `SpawnLogThread`, `Publish` | `LoggerThreadCtx::new`, `init`, the end of the closure |
| `InitPanics` | the two `expect`: the panic leaves the cell empty when it unwinds, and ends the process at an `extern "C"` boundary |
| `GetInited`, `QueueLog`, `Use` | `paper2_get_inited`, `paper2_queue_log_ffi`, the other functions |
| `InstallFacade`, `SetMaxLevel`, `CheckEnabled` | the log facade |

The guard that each call takes is left to `LoggerThread`, which starts where this
module has `cell = "set"`.

### Reentrancy

The same `RwLock` as in `LoggerThread`, the same loop, and what code of the program
does inside it. Entries are counted and not told apart, and files, errors of files
and waits are left to `LoggerThread`. A setup is a program: whether `init` installed the hook,
which sinks there are and what each does (`returns`, `logs`, `fails`, `panics`),
which calls the clients make, and `max_string_len`. `job` says what a thread's
`do_log` is for: the batch, the closure's last report, or a panic.

| action | code |
|---|---|
| `Call`, `QueueLog`, `Claim`, `Manage` | the C functions; `Manage` is every call that takes the write guard |
| `TakeQueue`, `ReadConfig`, `WriteBatch`, `CheckFlush`, `Flush`, `CheckWait`, `Wake` | the loop of `log_thread`; `chunks(0)` in `ReadConfig` |
| `WriteLine` | `file_logger::do_log` |
| `ReadSinks`, `SinkReturns`, `SinkLogs`, `SinkFails`, `SinkPanics`, `SinksDone` | `sink_logger::do_log` and its callers |
| `Panic`, `MessageDone` | `panic_hook` and the unwinding; the macro `log_data_to` |

A panic inside the hook ends the process (`aborted`), as Rust's runtime does.
An entry makes one chunk here. Programs that hang are programs of the run like the
others. `WaitsFor(t)` is whose guards keep thread t from the one it needs, and a `Circle` is a
set of threads none of which goes on before another of them does: once closed it stays.
`DeadlocksFromSinks` says where circles close: only through a thread that a sink sends
for a second guard, and not at all in a program that is `Harmless`. `CallsReturn` says
that nothing but a circle, or the end of the process, keeps a call from returning.

### VecPool

A vector is its elements and its capacity. Only one guard can be alive, since it
borrows the pool mutably. `Slack` is what `Vec::reserve` may add to the room it is
asked for; std promises no exact amount.

| action | code |
|---|---|
| `Init` | `with_initial_amount` |
| `take_vec`, `PushToGuard`, `DropGuard` | `take_vec`, the guard's `DerefMut`, its `Drop` with `return_vec` |
| `resize_all` | `resize_all` |

### LogcatBuffer

A text is its length; a byte names the text it belongs to. `DoLog` lays the three
texts out and takes the three slices, `DoLogPanics` is the slice whose start lies
after its end.

## Runs

| run | question | result |
|---|---|---|
| `semaphore` | three threads call anything in any order | no lost wake-up, refinement of `BinarySemaphore`; a pending signal is consumed |
| `pipeline` | one thread logs messages of two chunks, one makes every other call on one tag; writes, flushes, creations and sinks fail anywhere | `NothingLost`, `AsleepFlushed`, `UnflushedBound`, `SinksInOrder` hold; the pipeline implements `DurableLog` |
| `contexts` | two threads log messages of one chunk or none; one registers a context, either of two, the other unregisters it, at any point of the loop; nobody waits | a context's file is the global log filtered from its registration on and only grows; `NoSleepOnQueue`; every entry reaches the disk |
| `split` | two messages of up to six characters in all | the chunks are the rows that wrapping shows, without the blank ones |
| `lifecycle` | two threads race to initialise, inits fail anywhere, a third thread uses the logger | one log thread, the first logger stays, nobody is refused later or left waiting |
| `reentrancy` | eighteen programs, with and without the hook, with each kind of sink, the ones that hang included | circles of waiting threads close only through sinks; every call returns unless one does; the hook's line goes out with the next entry |
| `vec_pool` | vectors are taken, filled, returned and resized in any order | taken vectors are empty, none is made in vain, each keeps half the capacity asked for |
| `wait_returns_early` | does `wait_for_flush` wait for the flush? | no: the caller's own token lets it through |
| `stolen_token` | is every entry written when somebody waits? | no: the waiter takes the log thread's token |
| `wait_blocks_loggers` | does another log release a waiter? | no: waiter, log thread and logger block each other |
| `reregister` | is a context's file free of gaps? | no: registering twice leaves a hole |
| `logcat_slice` | does each slice of the logcat buffer end with its NUL? | no: the end of the message is a length, not an offset |

The last five are disagreements between the code and what its documentation says;
`PROJECT.json` quotes the lines. The first three have one cause: the waits use
`log_queue.0` where `flush_semaphore`, which `flush` signals and nobody waits on,
was meant, and they hold a read guard meanwhile.

Where the code and its documentation disagree and no run of its own says so, the
property that does hold is stated as the code makes it:

- Blank lines have no chunk. A message of nothing else is written nowhere, although
  `queue_log` promises that an entry is queued "to be written"
  (`logger_thread_ctx.rs:192`). `SplitsLikeWrapping` compares the chunks with the rows
  that are not blank.
- A line of just `max_string_len` characters is not split; `logger.hpp:132` says that one
  which "reaches/exceeds" it is.
- The comment at `logger_thread_ctx.rs:325` says "flush every 100 lines". `logged` counts
  entries before they are split (line 293), so the lines that are not flushed may be any
  number. `UnflushedBound` bounds the entries they are from, and the run `pipeline` has
  two lines to an entry.
- `LogMaxBufferCount`, which "will force a flush" (`logger.hpp:123-128`), reaches the
  configuration and is looked at by nothing (the TODO at `logger_thread_ctx.rs:277`).

More facts that the model shows and no run is spent on: any error of a write,
flush or sink ends the log thread for good; a sink that is added between two chunks of an
entry gets the rest of that entry; a failing init never returns an error, it
panics; the log facade drops records without a file. Tags `A.b` and `A.c` share the file
`A.log`, so each may hold the other's entries: nothing is checked about that, all runs
and the theorems on contexts give each tag a file of its own.

There are two ways to hang, and `DeadlocksFromSinks` and `CallsReturn` say that there is
no third among the calls of `Reentrancy` (the waits have runs of their own). A sink that
logs while any other thread takes the write guard: `add_context` sets the writer bit and
waits for the reader, parking_lot lets no reader in behind a waiting writer, not even one
that already reads, and the sink's `queue_log` waits for it. A sink that panics on the log
thread with the hook installed: the hook asks for the write guard under the sink's own
read guard. Both occur in the run. Even without a deadlock, a sink that logs
feeds the log thread forever. The hook's line overtakes the entries that are still
queued, and waits in the buffer until somebody logs: a program that panics and
then ends without a log may lose it. `resize_all` may leave a vector as it is, because it
reserves what is missing from the capacity, beyond the length. `log_thread` puts a
*clone* of the pooled vector in the queue (`vec.to_vec()`), and a clone of an empty
vector has no capacity: the pool saves the loop no allocation.

### Bounds

Every bound is a constant. `Budget` is how many calls a client makes (one to
three; the run `reentrancy` takes two and one), `MaxBurst` the entries of one `queue_logs` (one or two), `ChunkCounts` the chunks of a message (two in `pipeline`, none or one in `contexts`), `FlushEvery` the 100 of
the code (two, so that both a count below and one above it occur), `MaxEntries`
and `MaxChars` the input of the split. Two clients are enough for a push to fall
into any window of the log thread and for a third party to hold a guard; two
entries of one client and a burst are enough for an order to be wrong; two chunks of one
entry are enough for a failure or a new sink to fall between them; a batch of
two, a non-empty queue behind it and a buffer that may or may not spill reach
every branch of the loop. The run `contexts` registers at most one context in a behaviour;
`SinkContextProofs` covers any number at once, as it does bursts and chunks. In `Lifecycle` two threads and three inits are enough for one
to wait, the other to fail and the first to try again. In `Reentrancy` two sinks are enough for one to run before a failing one, and two
messages of the hook for the second to meet what the first left behind; with
`VecPool!Capacities` 0, 1, 3, 8 and 9 a resize asks for less, slightly more and more than twice
what a vector has. A chunk length of two with six characters reaches the
empty line, the exact multiple and the remainder. The theorems below hold for all
values.

The runs do not check deadlock: a client whose budget is spent stops and the log
thread sleeps, which is where the program rests too. Threads that block each other
are covered by the liveness properties.

### Fairness

`SemaphoreLite!Fairness`: a thread inside a call goes on, and the mutex does not
starve a thread (parking_lot's mutex is eventually fair, hence SF on the two
actions that take it). `LoggerThread!Fairness`: the log thread goes on when it
can, a client inside a call goes on when it can, a timed wait times out. Nobody
has to call anything and nothing has to fail. `Lifecycle!FairSpec` is the same:
`get_or_init` promises that a waiting thread proceeds when the closure has ended. Weak fairness is enough because
each of these steps, once possible, is so until it is taken or its guard is taken
by a thread that also has to go on. `Reentrancy!FairSpec` is strong fairness of
each thread: threads contend for the `RwLock` again and again, and parking_lot's
unlocking is eventually fair, so that a thread which can go on again and again
does.

## Proofs

For any threads, tags, programs, budgets, bursts, chunks, capacities and flush threshold:

| theorem | says |
|---|---|
| `SemaphoreLiteProofs!TypeCorrect`, `WakeupSafe` | the invariants of the run |
| `SemaphoreLiteProofs!Refinement` | the code implements `BinarySemaphore` |
| `LoggerThreadProofs!TypeCorrect` | types, and who may hold the write guard where |
| `LoggerThreadProofs!NothingLostAlways` | the account of the entries is exact |
| `LoggerThreadProofs!DurableLogRefinement` | the pipeline implements `DurableLog`, failures included |
| `LoggerThreadProofs!AsleepFlushedAlways` | no sleep on a buffered line, in any file |
| `LoggerThreadProofs!UnflushedBoundAlways` | the bound on entries with unflushed lines |
| `LoggerThreadProofs!NoSleepOnQueueAlways` | without calls that wait: no sleep on a queued entry |
| `SinkContextProofs!SinksInOrderAlways` | each sink gets its chunks once and in order, wherever in a batch or in an entry it is added |
| `SinkContextProofs!ContextFilteredAlways`, `ContextAppendOnlyAlways`, `ContextFileNoHoleAlways` | a context's file is the global log filtered; it only grows; it has no gaps: if no tag is registered while lines of it are buffered |
| `SinkContextProofs!ContextFilteredOnce`, `ContextAppendOnlyOnce` | the same of every program that registers at most once |
| `SplitChunksProofs!SplitsLikeWrappingAlways` | any batch is split into the rows that wrapping shows, without the blank ones |
| `LifecycleProofs!TypeCorrect`, `OneLogThreadAlways` | types; one log thread at most |
| `LifecycleProofs!FirstInitWinsAlways` | a set cell, its logger and the files created never change |
| `LifecycleProofs!ServedOnceKnownAlways` | a call that begins after the logger is known is not refused |
| `ReentrancyProofs!TypeCorrect`, `DeadlocksFromSinksAlways` | of every program: types; threads block one another only through sinks, and never if the program is harmless |
| `VecPoolProofs!HalfCapacityAlways`, `TakenEmptyAlways`, `ReusesVecsAlways` | the properties of the run |

Assumptions: `ConstantsAssumption`, `FilesAssumption`, `SplitAssumption`, `NoThreadAssumption`, `LifecycleAssumption`, `ReentrancyAssumption`, `VecPoolAssumption` (the
constants are distinct and typed; the chunk length is not 0, with which the code
panics: see `Reentrancy`). `NothingLostAlways` and `DurableLogRefinement`
further assume `GlobalPathPrivate`: no tag's file is the global file. The code
does not check that, and a context named like the global file in its directory
would break both. Further hypotheses, each where its theorem needs it:

- `NoWaitCalls` (`NoSleepOnQueueAlways`): nobody waits for a flush. The run
  `stolen_token` is the counterexample without it.
- `OwnFiles` and `GlobalPathPrivate` (the theorems on contexts): each tag has a file
  of its own. `add_context` makes `<tag>.log` of a tag with `with_extension`, so this
  is so unless two tags differ only after their last dot.
- `[]RegistersFlushed` (the same): whoever registers a tag finds no line of it in a
  buffer. The run `reregister` is the counterexample without it, and
  `ContextFileNoHoleAlways` says that there is no other way to a gap.
  `RegistersFlushedAlways` shows that a program with one registration
  (`RegistersOnce`, as in the run `contexts`) always satisfies it.
- `~MayFail` (`ContextAppendOnlyAlways`): dropping a `BufWriter` ignores the error of
  its last write, so `remove_context` may lose what is buffered.

The theorems of `ReentrancyProofs` hold for all programs: `Harmless` is a case in
`DeadlocksFromSinks` and not a hypothesis.

The arguments. For the semaphore, `IndInv` adds to the properties that the wait
set is exactly the parked threads, that only a timed wait times out, and that a
thread about to reset the flag saw it set under the mutex it still holds; the
last is why one signal releases one waiter. For the pipeline, `PointsConsistent`
ties the write guard to the program points, so that a client and the log thread
never change the files at once. `NothingLost` alone is not inductive: writing at
the writer's offset is an append only if the offset is the file's length, which
`GlobalOrdered` adds, together with what survives an error (the file is a prefix
of what was pushed, and so is file plus buffer until the log thread's own last
message). `DrainKeepsLines` is the lemma on `BufferedFile` that carries this. For
the flushes, `FlushProgress` says that `logged` bounds the unflushed entries, that
a flush under way has emptied what it has passed (`Unflushed` are the entries that have a
chunk in the buffer or still to be written), and that a thread that skipped
the flush saw a queue that only it can empty. For the sinks no invariant
beyond the types is needed: `PromisedTo(j)`, what sink j has got, what is left of
the batch for it and the queue, is the same before and after every step but a push,
which appends (`PushPromises`, `TakePromises`, `DeliverPromises`, `QuietPromises`).
For the contexts, `ContextInv` adds to `OrderInv` (the invariant of the global file)
that each context's writer is at the end of its file and that its starting point lies
within the global log (`ContextsOrdered`). Every step does to a context one of five
things (`StepCtx`: nothing, a drain, a write, a removal, a creation), and `CtxLines`
says what each does to its lines; `FilterAppend` says that filtering goes along with
an append to the global log. `RegistrationSpent` is the invariant of the programs
that register once: until the registration has returned there is no context, and
afterwards there is no registration. For the splitting, `SplitInv` says that the last
row on the screen, blank or not, is of the last message, and that the rows that are not
blank are its chunks; the lemmas
say what one more character does to a segment (`ChunksStart`, `ChunksLast`), to a
message (`MessageMore`) and to the batch (`SplitAppend`).

`TaggedWith`, `Segments`, `NonBlank` and `FlattenSeq` are recursive functions. What they compute
is proved without the induction theorems that take an operator: `SetInduction` states
induction with a set of naturals, `RecursiveExists` extends the function that a
recursion describes from one position to the next, and `AlikeByInduction` shows that there is no
other, so that the `CHOOSE` behind the definition is that function.

For the initialisation,
`CellConsistent` says that one thread at most is inside the closure, while the cell
is being initialised, and that spawning is the last step that can fail;
`KnownSound` says that what a caller was told is still so, because a set cell stays
set. For re-entrancy, `GuardsConsistent` ties the writer bit and the read guards to
the program points (`WriterHolds`, `ReadersCallSinks`): who holds a read guard calls
sinks, or is the log thread in the hook after a sink's panic. `SentBySink` follows from
that, and `CircleReads` that every circle has a reader in it. The rest says which points a
program cannot reach: without calls that manage no client takes the write guard,
a client calls sinks only inside the hook, and in a harmless program with a hook but no
calls that log the log thread never calls a sink (`HarmlessSinks`). For the pool, `PoolConsistent` accounts for
every vector made. Each `IndInv` was model-checked first.

Only model-checked: the liveness properties `SignalConsumed`, `EveryLogWritten`,
`InitReturns`, `CallsReturn` and `PanicLineFlushed` (fairness is beyond the prover).
What the runs that expect a violation show needs no proof.

## Not modelled, and the plan

What the plan has left is `LogcatBuffer`: a panic of `do_log` under the hook, which
borrows the thread's buffer a second time, that an entry leaves nothing of an earlier
one, and theorems on both.

`Reentrancy` leaves out the two waits and the logcat backend, and counts entries;
`paper2_free_c_string` and the conversion of a C configuration are modelled
nowhere, the latter because its one hazard is a precondition on a pointer.

Not planned: the text of a line, timestamps, stdout and tracing output, the C++
headers, the loader's panic hook and the generated bindings. They hold no state that the
pipeline depends on.
