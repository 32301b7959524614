------------------------------ MODULE Lifecycle ------------------------------
(***************************************************************************)
(* How the one logger of the process comes into being, and what calls      *)
(* before, during and after that get: the OnceLock of src/src/lib.rs, the  *)
(* entry points of src/src/ffi.rs, the log facade (src/paper2_log), the    *)
(* tracing facade (src/paper2_tracing) and the loader's constructor        *)
(* (src/scotland2).                                                        *)
(*                                                                         *)
(* OnceLock::get_or_init (std, external) runs its closure in one thread    *)
(* and lets the others wait.  If the closure panics the cell is empty      *)
(* again, and a waiting thread runs its own.  A panic that would leave an  *)
(* extern "C" function ends the process.                                   *)
(*                                                                         *)
(* What a call does with the logger once it has it is LoggerThread.tla.    *)
(***************************************************************************)
EXTENDS Naturals, Sequences

CONSTANTS
    Threads,      \* threads of the process
    Configs,      \* what a program may pass to init: configuration and path
    NoConfig,     \* nothing
    MaxLevel,     \* the most verbose level of the log crate; 0 is Off
    Program,      \* which functions each thread calls
    Budget        \* BOUND: how many calls each thread makes

InitNames == {"init_logger", "paper2_init_logger_ffi", "dlopen_initialize"}

QueueNames == {"paper2_queue_log_ffi", "log", "on_event"}

CallNames == InitNames \cup QueueNames \cup
    {"paper2_get_inited", "other_ffi", "flush", "init_with_max_level"}

ASSUME LifecycleAssumption ==
    /\ NoConfig \notin Configs
    /\ MaxLevel \in Nat
    /\ Program \in [Threads -> SUBSET CallNames]
    /\ Budget \in [Threads -> Nat]

(* A call: its name, the configuration of an init, the level of a record   *)
(* or of the facade's installation, and whether the argument that the      *)
(* function checks is usable (see QueueLog, Use, RejectPath).              *)
Requests ==
    [name : CallNames, config : Configs \cup {NoConfig}, level : 0..MaxLevel, ok : BOOLEAN]

NoRequest == [name |-> "other_ffi", config |-> NoConfig, level |-> 0, ok |-> FALSE]

(* The calls a program can make with function name. *)
RequestsFor(name) ==
    [name : {name},
     config : IF name \in InitNames THEN Configs ELSE {NoConfig},
     level : IF name \in {"log", "init_with_max_level"} THEN 1..MaxLevel ELSE {0},
     ok : IF name \in QueueNames \cup {"paper2_init_logger_ffi", "other_ffi"}
          THEN BOOLEAN ELSE {TRUE}]

VARIABLES
    cell,         \* the OnceLock: empty, being initialised, or set
    logger,       \* the configuration of the logger in the cell
    created,      \* history: the configurations whose global file was created
    log_threads,  \* log threads spawned
    aborted,      \* has a panic ended the process?
    facade,       \* has a logger been installed in the log crate?
    max_level,    \* log::max_level()
    pc,           \* where each thread is
    request,      \* its current or last call
    outcome,      \* what that call returned
    calls,        \* calls it has begun
    known,        \* history: has a call reported that the logger is there?
    late          \* history: was that so when the thread's call began?

cellVars == <<cell, logger, created, log_threads, aborted>>
facadeVars == <<facade, max_level>>
vars == <<cellVars, facadeVars, pc, request, outcome, calls, known, late>>

(* Points inside the closure of get_or_init. *)
InitPoints == {"dirs", "create", "spawn", "publish"}

Points == InitPoints \cup {"idle", "enter", "enabled", "inited", "queue", "use",
                           "install", "set_level"}

Outcomes == {"none", "true", "false", "panic", "disabled", "error"}

TypeOK ==
    /\ cell \in {"empty", "running", "set"}
    /\ logger \in IF cell = "set" THEN Configs ELSE {NoConfig}
    /\ created \in Seq(Configs)
    /\ log_threads \in Nat
    /\ aborted \in BOOLEAN
    /\ facade \in BOOLEAN
    /\ max_level \in 0..MaxLevel
    /\ pc \in [Threads -> Points]
    /\ request \in [Threads -> Requests]
    /\ outcome \in [Threads -> Outcomes]
    /\ calls \in [Threads -> Nat]
    /\ known \in BOOLEAN
    /\ late \in [Threads -> BOOLEAN]

Init ==
    /\ cell = "empty"
    /\ logger = NoConfig
    /\ created = <<>>
    /\ log_threads = 0
    /\ aborted = FALSE
    /\ facade = FALSE
    /\ max_level = 0
    /\ pc = [t \in Threads |-> "idle"]
    /\ request = [t \in Threads |-> NoRequest]
    /\ outcome = [t \in Threads |-> "none"]
    /\ calls = [t \in Threads |-> 0]
    /\ known = FALSE
    /\ late = [t \in Threads |-> FALSE]

-----------------------------------------------------------------------------
At(t, point) == ~aborted /\ pc[t] = point

Goto(t, point) ==
    /\ pc' = [pc EXCEPT ![t] = point]
    /\ UNCHANGED <<outcome, known>>

(* An init that succeeds and a get_inited that says yes are what a program *)
(* relies on.                                                              *)
Return(t, value) ==
    /\ pc' = [pc EXCEPT ![t] = "idle"]
    /\ outcome' = [outcome EXCEPT ![t] = value]
    /\ known' = (known \/ (value = "true"
                           /\ request[t].name \in InitNames \cup {"paper2_get_inited"}))

FirstPoint(name) ==
    CASE name \in InitNames -> "enter"
      [] name \in {"paper2_queue_log_ffi", "on_event"} -> "queue"
      [] name = "log" -> "enabled"
      [] name \in {"paper2_get_inited", "flush"} -> "inited"
      [] name = "other_ffi" -> "use"
      [] name = "init_with_max_level" -> "install"

(* The program calls a function. *)
Call(t, r) ==
    /\ At(t, "idle")
    /\ r.name \in Program[t]
    /\ calls[t] < Budget[t]
    /\ pc' = [pc EXCEPT ![t] = FirstPoint(r.name)]
    /\ request' = [request EXCEPT ![t] = r]
    /\ outcome' = [outcome EXCEPT ![t] = "none"]
    /\ calls' = [calls EXCEPT ![t] = @ + 1]
    /\ late' = [late EXCEPT ![t] = known]
    /\ UNCHANGED <<cellVars, facadeVars, known>>

callVars == <<request, calls, late>>

(* paper2_init_logger_ffi with a path that is null or not UTF-8. *)
RejectPath(t) ==
    /\ At(t, "enter")
    /\ ~request[t].ok
    /\ Return(t, "false")
    /\ UNCHANGED <<cellVars, facadeVars, callVars>>

(* Slip: an init that finds another one under way does not wait for it. *)
FindLoggerEarly(t) ==
    /\ At(t, "enter")
    /\ request[t].ok
    /\ cell \in {"running", "set"}
    /\ Return(t, "true")
    /\ UNCHANGED <<cellVars, facadeVars, callVars>>

(* get_or_init finds the cell set, at once or after waiting: the logger is *)
(* the one in the cell, and this call's configuration is dropped.          *)
FindLogger(t) ==
    /\ At(t, "enter")
    /\ request[t].ok
    /\ cell = "set"
    /\ Return(t, "true")
    /\ UNCHANGED <<cellVars, facadeVars, callVars>>

(* Slip: a test of the cell and a later store, with nothing in between. *)
StartInitUnguarded(t) ==
    /\ At(t, "enter")
    /\ request[t].ok
    /\ cell # "set"
    /\ cell' = "running"
    /\ Goto(t, "dirs")
    /\ UNCHANGED <<logger, created, log_threads, aborted, facadeVars, callVars>>

(* get_or_init finds the cell empty and runs the closure. *)
StartInit(t) ==
    /\ At(t, "enter")
    /\ request[t].ok
    /\ cell = "empty"
    /\ cell' = "running"
    /\ Goto(t, "dirs")
    /\ UNCHANGED <<logger, created, log_threads, aborted, facadeVars, callVars>>

(* LoggerThreadCtx::new: the two create_dir_all ... *)
CreateDirs(t) ==
    /\ At(t, "dirs")
    /\ Goto(t, "create")
    /\ UNCHANGED <<cellVars, facadeVars, callVars>>

(* ... and File::create, which truncates a file that exists. *)
CreateFile(t) ==
    /\ At(t, "create")
    /\ created' = Append(created, request[t].config)
    /\ Goto(t, "spawn")
    /\ UNCHANGED <<cell, logger, log_threads, aborted, facadeVars, callVars>>

(* LoggerThreadCtx::init(false): the logger is new, so inited is false and *)
(* becomes true; no panic hook; the log thread starts.                     *)
SpawnLogThread(t) ==
    /\ At(t, "spawn")
    /\ log_threads' = log_threads + 1
    /\ Goto(t, "publish")
    /\ UNCHANGED <<cell, logger, created, aborted, facadeVars, callVars>>

(* Slip: the cell is marked as set before the logger is stored. *)
PublishEmpty(t) ==
    /\ At(t, "publish")
    /\ cell' = "set"
    /\ Return(t, "true")
    /\ UNCHANGED <<logger, created, log_threads, aborted, facadeVars, callVars>>

(* The closure returns: the cell is set, and init_logger clones it. *)
Publish(t) ==
    /\ At(t, "publish")
    /\ cell' = "set"
    /\ logger' = request[t].config
    /\ Return(t, "true")
    /\ UNCHANGED <<created, log_threads, aborted, facadeVars, callVars>>

(* Slip: the cell is not emptied when the closure unwinds. *)
InitPanicsStuck(t) ==
    /\ \E point \in {"dirs", "create", "spawn"} : At(t, point)
    /\ \/ request[t].name = "init_logger" /\ Return(t, "panic") /\ UNCHANGED aborted
       \/ request[t].name # "init_logger" /\ aborted' = TRUE /\ Goto(t, pc[t])
    /\ UNCHANGED <<cell, logger, created, log_threads, facadeVars, callVars>>

(* A directory or the file cannot be made, so that expect panics, or the   *)
(* thread cannot be spawned.  The panic unwinds out of init_logger, and    *)
(* ends the process when it reaches paper2_init_logger_ffi or the loader's *)
(* constructor, both extern "C".                                           *)
InitPanics(t) ==
    /\ \E point \in {"dirs", "create", "spawn"} : At(t, point)
    /\ \/ /\ request[t].name = "init_logger"
          /\ cell' = "empty"
          /\ Return(t, "panic")
          /\ UNCHANGED aborted
       \/ /\ request[t].name # "init_logger"
          /\ aborted' = TRUE
          /\ Goto(t, pc[t])
          /\ UNCHANGED cell
    /\ UNCHANGED <<logger, created, log_threads, facadeVars, callVars>>

-----------------------------------------------------------------------------
(* Calls on the logger.  get_logger() is Some when the cell is set, and    *)
(* every logger in the cell has been through init.                         *)

(* paper2_get_inited, called by the program, or by the log facade before   *)
(* it queues a record or waits for a flush.                                *)
GetInited(t) ==
    /\ At(t, "inited")
    /\ \/ cell # "set" /\ Return(t, "false")
       \/ cell = "set" /\ request[t].name = "log" /\ Goto(t, "queue")
       \/ cell = "set" /\ request[t].name = "flush" /\ Goto(t, "use")
       \/ cell = "set" /\ request[t].name = "paper2_get_inited" /\ Return(t, "true")
    /\ UNCHANGED <<cellVars, facadeVars, callVars>>

(* paper2_queue_log_ffi.  Its message and file must not be null: the log   *)
(* facade passes null for a message with a NUL byte and for a record with  *)
(* no file, while the tracing facade panics on such a message.             *)
QueueLog(t) ==
    /\ At(t, "queue")
    /\ Return(t, IF request[t].ok THEN IF cell = "set" THEN "true" ELSE "false"
                 ELSE IF request[t].name = "on_event" THEN "panic" ELSE "false")
    /\ UNCHANGED <<cellVars, facadeVars, callVars>>

(* The other functions of the C interface, a null tag being refused. *)
Use(t) ==
    /\ At(t, "use")
    /\ Return(t, IF request[t].ok /\ cell = "set" THEN "true" ELSE "false")
    /\ UNCHANGED <<cellVars, facadeVars, callVars>>

(* Paper2Logger::init_with_max_level: set_boxed_logger, which refuses a    *)
(* second logger, then set_max_level.                                      *)
InstallFacade(t) ==
    /\ At(t, "install")
    /\ \/ facade /\ Return(t, "error")
       \/ ~facade /\ Goto(t, "set_level")
    /\ facade' = TRUE
    /\ UNCHANGED <<cellVars, max_level, callVars>>

SetMaxLevel(t) ==
    /\ At(t, "set_level")
    /\ max_level' = request[t].level
    /\ Return(t, "true")
    /\ UNCHANGED <<cellVars, facade, callVars>>

(* Paper2Logger::log drops a record above the maximum level. *)
CheckEnabled(t) ==
    /\ At(t, "enabled")
    /\ \/ request[t].level <= max_level /\ Goto(t, "inited")
       \/ request[t].level > max_level /\ Return(t, "disabled")
    /\ UNCHANGED <<cellVars, facadeVars, callVars>>

InitStep(t) ==
    \/ RejectPath(t)
    \/ FindLogger(t)
    \/ StartInit(t)
    \/ CreateDirs(t)
    \/ CreateFile(t)
    \/ SpawnLogThread(t)
    \/ Publish(t)

UseStep(t) ==
    \/ GetInited(t)
    \/ QueueLog(t)
    \/ Use(t)
    \/ InstallFacade(t)
    \/ SetMaxLevel(t)
    \/ CheckEnabled(t)

Next ==
    \E t \in Threads :
        \/ \E name \in CallNames : \E r \in RequestsFor(name) : Call(t, r)
        \/ InitStep(t)
        \/ InitPanics(t)
        \/ UseStep(t)

Spec == Init /\ [][Next]_vars

(* A thread inside a call goes on when it can.  Nobody has to call, and no *)
(* init has to fail.                                                       *)
FairSpec == Spec /\ \A t \in Threads : WF_vars(InitStep(t) \/ UseStep(t))

-----------------------------------------------------------------------------
(* Properties. *)

(* However many threads race to initialise the logger, and however often   *)
(* an init fails half way and another thread takes over                    *)
(* (src/src/lib.rs:64), one log thread at most ever runs.                  *)
OneLogThread == log_threads <= 1

(* The first init that succeeds wins for good: no later one, whatever its  *)
(* configuration, replaces the logger or creates, and so truncates, a log  *)
(* file; and the file created last is the logger's own.                    *)
FirstInitWins ==
    [][cell = "set" =>
          /\ created # <<>> /\ created[Len(created)] = logger
          /\ UNCHANGED <<cell, logger, created>>]_vars

(* Once any thread has been told that the logger is there, by an init that *)
(* returned or by paper2_get_inited, no call that begins later with usable *)
(* arguments is refused, in any thread.  The log facade's check of         *)
(* paper2_get_inited before it queues (src/paper2_log/src/lib.rs:53) and   *)
(* an init that only waited for another one both rest on this.             *)
ServedOnceKnown ==
    \A t \in Threads : late[t] /\ request[t].ok => outcome[t] # "false"

(* A thread that calls init returns, unless the process ends: a thread     *)
(* that waits for another thread's init is not left waiting when that init *)
(* panics.                                                                 *)
InitReturns ==
    \A t \in Threads : (pc[t] = "enter") ~> (pc[t] = "idle" \/ aborted)

-----------------------------------------------------------------------------
(* What makes the safety properties inductive. *)

(* One thread at most is inside the closure, exactly while the cell is     *)
(* being initialised, and the log thread is the last thing it makes.       *)
CellConsistent ==
    /\ \A t, u \in Threads : pc[t] \in InitPoints /\ pc[u] \in InitPoints => t = u
    /\ \A t \in Threads :
           pc[t] \in InitPoints => cell = "running" /\ request[t].config \in Configs
    /\ \A t \in Threads :
           pc[t] \in {"spawn", "publish"} =>
               created # <<>> /\ created[Len(created)] = request[t].config
    /\ \A t \in Threads : pc[t] = "enter" => request[t].config \in Configs
    /\ cell = "set" => created # <<>> /\ created[Len(created)] = logger
    /\ log_threads <= 1
    /\ log_threads = 1 => cell = "set" \/ \E t \in Threads : pc[t] = "publish"

(* What the program has been told is so. *)
KnownSound ==
    /\ known => cell = "set"
    /\ \A t \in Threads : late[t] => known
    /\ \A t \in Threads : pc[t] # "idle" => outcome[t] = "none"
    /\ \A t \in Threads : pc[t] = "publish" => log_threads = 1
    /\ \A t \in Threads : pc[t] = "enter" => request[t].name \in InitNames
    /\ \A t \in Threads :
           pc[t] \in {"install", "set_level"} => request[t].name = "init_with_max_level"

IndInv == TypeOK /\ CellConsistent /\ KnownSound /\ ServedOnceKnown
=============================================================================
