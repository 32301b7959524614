-------------------------- MODULE ReentrancyProofs ---------------------------
(***************************************************************************)
(* Proofs about Reentrancy, for any threads, budgets and programs.         *)
(***************************************************************************)
EXTENDS Reentrancy, TLAPS

-----------------------------------------------------------------------------
(* Facts about one thread's step. *)

(* A thread that moves leaves every other thread where it is. *)
LEMMA MovedTo ==
    ASSUME pc \in [Threads -> Points], NEW t \in Threads, NEW p \in Points, Goto(t, p)
    PROVE  /\ pc' \in [Threads -> Points]
           /\ pc'[t] = p
           /\ \A u \in Threads : u # t => pc'[u] = pc[u]
  BY DEF Goto

(* Who the threads are, and that "nobody" is none of them. *)
LEMMA WhoIsWho ==
    /\ LogThread \in Threads /\ LogThread \notin Clients
    /\ NoThread \notin Threads
    /\ \A c \in Clients : c \in Threads
    /\ \A t \in Threads : t = LogThread \/ t \in Clients
  BY ReentrancyAssumption DEF Threads

(* The setup is a program. *)
LEMMA SetupType ==
    ASSUME setup \in Setups
    PROVE  /\ setup.hook \in BOOLEAN
           /\ setup.sinks \in Seq(SinkKinds)
           /\ Len(setup.sinks) \in Nat
           /\ setup.calls \in SUBSET CallNames
           /\ setup.max_string_len \in Nat
  <1>1. setup \in [hook : BOOLEAN, sinks : Seq(SinkKinds), calls : SUBSET CallNames,
                   max_string_len : Nat]
    BY ReentrancyAssumption
  <1> QED
    BY <1>1

(* The points a thread moves to are points. *)
LEMMA PointsListed ==
    /\ HoldPoints \subseteq Points /\ ClaimPoints \subseteq Points
    /\ {"idle", "q_read", "take", "config", "sinks_read", "sinks", "check_flush",
        "check_wait", "wait", "dead"} \subseteq Points
  BY DEF Points

(* What a step of thread t leaves of the others: which sink they call and  *)
(* for what.                                                               *)
OthersStay(t) ==
    /\ UNCHANGED setup
    /\ \A u \in Threads : u # t => job'[u] = job[u] /\ next'[u] = next[u]

(* A step that leaves jobs and sinks alone leaves them to the others. *)
LEMMA NothingStirs ==
    ASSUME UNCHANGED <<setup, job, next>>, NEW t
    PROVE  OthersStay(t)
  BY DEF OthersStay

(* A thread that stays where it is, with its job and its sink, is still in *)
(* the hook for the same panic.                                            *)
LEMMA StaysInHook ==
    ASSUME NEW t, UNCHANGED setup, pc'[t] = pc[t], job'[t] = job[t], next'[t] = next[t]
    PROVE  InHookOfSink(t)' <=> InHookOfSink(t)
  BY DEF InHookOfSink

(* The threads that do not move hold read guards where they did. *)
LEMMA OthersRead ==
    ASSUME IndInv, NEW t \in Threads, NEW p \in Points, Goto(t, p), OthersStay(t),
           readers' \ {t} = readers \ {t},
           p = "sinks" => t \in readers',
           t \in readers' => p = "sinks" \/ (t = LogThread /\ InHookOfSink(t)')
    PROVE  ReadersCallSinks'
  <1>1. /\ pc'[t] = p
        /\ \A u \in Threads : u # t => pc'[u] = pc[u]
    BY MovedTo DEF IndInv, TypeOK
  <1>2. ASSUME NEW u \in Threads, u # t
        PROVE  /\ pc'[u] = "sinks" => u \in readers'
               /\ u \in readers' => pc'[u] = "sinks" \/ (u = LogThread /\ InHookOfSink(u)')
    <2>1. InHookOfSink(u)' <=> InHookOfSink(u)
      BY <1>1, <1>2, StaysInHook DEF OthersStay
    <2>2. /\ pc[u] = "sinks" => u \in readers
          /\ u \in readers => pc[u] = "sinks" \/ (u = LogThread /\ InHookOfSink(u))
      BY DEF IndInv, GuardsConsistent, ReadersCallSinks
    <2> QED
      BY <1>1, <1>2, <2>1, <2>2
  <1> QED
    BY <1>1, <1>2 DEF ReadersCallSinks

(* A writer that lets go of the guard, at a hold point, goes elsewhere. *)
LEMMA WriterLetsGo ==
    ASSUME IndInv, NEW t \in Threads, pc[t] \in HoldPoints, readers = {}, OthersStay(t),
           writer' = NoThread, NEW p \in Points \ (HoldPoints \cup {"sinks"}), Goto(t, p),
           UNCHANGED readers
    PROVE  WriterHolds' /\ ReadersCallSinks'
  <1>1. /\ pc'[t] = p
        /\ \A u \in Threads : u # t => pc'[u] = pc[u]
    BY MovedTo DEF IndInv, TypeOK
  <1>2. \A u \in Threads : u # t => pc[u] \notin HoldPoints
    BY DEF IndInv, GuardsConsistent, WriterHolds
  <1>3. WriterHolds'
    BY <1>1, <1>2, WhoIsWho DEF WriterHolds
  <1>4. ReadersCallSinks'
    BY OthersRead
  <1> QED
    BY <1>3, <1>4

(* A thread without the write guard that stays without it. *)
LEMMA WriterKeeps ==
    ASSUME IndInv, NEW t \in Threads, pc[t] \notin HoldPoints,
           NEW p \in Points \ HoldPoints, Goto(t, p), UNCHANGED writer
    PROVE  WriterHolds'
  <1>1. /\ pc'[t] = p
        /\ \A u \in Threads : u # t => pc'[u] = pc[u]
    BY MovedTo DEF IndInv, TypeOK
  <1> QED
    BY <1>1 DEF IndInv, GuardsConsistent, WriterHolds

(* A thread that holds no read guard and goes on without one. *)
LEMMA ReadersKeep ==
    ASSUME IndInv, NEW t \in Threads, OthersStay(t),
           pc[t] \notin {"sinks", "dolog_claim", "dolog_hold"},
           NEW p \in Points \ {"sinks"}, Goto(t, p), UNCHANGED readers
    PROVE  ReadersCallSinks'
  <1>1. t \notin readers
    BY DEF IndInv, GuardsConsistent, ReadersCallSinks, InHookOfSink
  <1> QED
    BY <1>1, OthersRead

(* A thread that is done with the sinks drops its read guard. *)
LEMMA ReaderLeaves ==
    ASSUME IndInv, NEW t \in Threads, OthersStay(t), NEW p \in Points \ {"sinks"},
           Goto(t, p), DropRead(t)
    PROVE  ReadersCallSinks'
  <1>1. readers' \ {t} = readers \ {t} /\ t \notin readers'
    BY DEF DropRead
  <1> QED
    BY <1>1, OthersRead

(* The places of the clients hardly depend on the log thread's steps. *)
LEMMA ClientsStay ==
    ASSUME IndInv, NEW p \in Points, Goto(LogThread, p), UNCHANGED setup,
           \A c \in Clients : job'[c] = job[c]
    PROVE  ClientsInPlace'
  <1>1. \A u \in Threads : u # LogThread => pc'[u] = pc[u]
    BY MovedTo, WhoIsWho DEF IndInv, TypeOK
  <1> QED
    BY <1>1, WhoIsWho DEF IndInv, GuardsConsistent, ClientsInPlace

(* One client moves; the others stay in place. *)
LEMMA ClientMoves ==
    ASSUME IndInv, NEW c \in Clients, NEW p \in Points, Goto(c, p), UNCHANGED setup,
           \A d \in Clients : d # c => job'[d] = job[d],
           p \in ClientPoints \cup DoLogPoints,
           p \in {"w_claim", "w_hold"} => "manage" \in setup.calls,
           p = "q_read" => "queue_log" \in setup.calls,
           p \in DoLogPoints => setup.hook /\ job'[c] = "panic"
    PROVE  ClientsInPlace'
  <1>1. /\ pc'[c] = p
        /\ \A u \in Threads : u # c => pc'[u] = pc[u]
    BY MovedTo, WhoIsWho DEF IndInv, TypeOK
  <1> QED
    BY <1>1, WhoIsWho DEF IndInv, GuardsConsistent, ClientsInPlace

(* A client that moves leaves the log thread in place, if it logs only in  *)
(* a program that logs.                                                    *)
LEMMA LogThreadStays ==
    ASSUME IndInv, NEW c \in Clients, NEW p \in Points, Goto(c, p),
           UNCHANGED <<setup, batch>>, job'[LogThread] = job[LogThread],
           queue' = queue \/ "queue_log" \in setup.calls
    PROVE  LogThreadInPlace'
  <1>1. pc'[LogThread] = pc[LogThread]
    BY MovedTo, WhoIsWho DEF IndInv, TypeOK
  <1> QED
    BY <1>1 DEF IndInv, GuardsConsistent, LogThreadInPlace, OnlyHookLogs

-----------------------------------------------------------------------------
(* Types. *)

(* The sinks' positions stay in range while the setup stays. *)
LEMMA NextType ==
    ASSUME TypeOK, UNCHANGED <<setup, next>>
    PROVE  next' \in [Threads -> 1..(Len(setup'.sinks) + 1)]
  BY DEF TypeOK

(* A panic leaves points, jobs and messages what they are. *)
LEMMA PanicType ==
    ASSUME TypeOK, NEW t \in Threads, Panic(t), UNCHANGED setup
    PROVE  /\ readers' \in SUBSET Threads
           /\ pc' \in [Threads -> Points]
           /\ job' \in [Threads -> {"batch", "report", "panic"}]
           /\ next' \in [Threads -> 1..(Len(setup'.sinks) + 1)]
           /\ messages' \in [Threads -> 0..HookMessages]
  <1>1. HookMessages \in 0..HookMessages
    BY ReentrancyAssumption
  <1>2. CASE setup.hook
    <2>1. /\ Goto(t, "dolog_claim") /\ UNCHANGED <<readers, next>>
          /\ job' = [job EXCEPT ![t] = "panic"]
          /\ messages' = [messages EXCEPT ![t] = HookMessages]
      BY <1>2 DEF Panic
    <2>2. "dolog_claim" \in Points
      BY DEF Points, ClaimPoints
    <2> QED
      BY <2>1, <2>2, <1>1, MovedTo, NextType DEF TypeOK
  <1>3. CASE ~setup.hook
    <2>1. Goto(t, Ended(t)) /\ DropRead(t) /\ UNCHANGED <<job, next, messages>>
      BY <1>3 DEF Panic, doing
    <2>2. Ended(t) \in Points
      BY DEF Points, Ended
    <2> QED
      BY <2>1, <2>2, MovedTo, NextType DEF TypeOK, DropRead
  <1> QED
    BY <1>2, <1>3

(* So does the end of a message. *)
LEMMA MessageDoneType ==
    ASSUME TypeOK, NEW t \in Threads, MessageDone(t)
    PROVE  /\ pc' \in [Threads -> Points]
           /\ messages' \in [Threads -> 0..HookMessages]
  <1>1. "dolog_claim" \in Points /\ Ended(t) \in Points
    BY DEF Points, ClaimPoints, Ended
  <1>2. CASE messages' = [messages EXCEPT ![t] = @ - 1] /\ messages[t] > 1
             /\ Goto(t, "dolog_claim")
    <2>1. messages[t] \in 0..HookMessages /\ messages[t] - 1 \in 0..HookMessages
      BY <1>2, ReentrancyAssumption DEF TypeOK
    <2> QED
      BY <1>1, <1>2, <2>1, MovedTo DEF TypeOK
  <1>3. CASE Goto(t, Ended(t)) /\ UNCHANGED messages
    BY <1>1, <1>3, MovedTo DEF TypeOK
  <1> QED
    BY <1>2, <1>3 DEF MessageDone

(* The next sink is in range. *)
LEMMA NextSinkType ==
    ASSUME TypeOK, NEW t \in Threads, next[t] <= Len(setup.sinks), NextSink(t)
    PROVE  next' \in [Threads -> 1..(Len(setup'.sinks) + 1)]
  <1>1. Len(setup.sinks) \in Nat
    BY SetupType DEF TypeOK
  <1>2. next[t] + 1 \in 1..(Len(setup.sinks) + 1)
    BY <1>1 DEF TypeOK
  <1> QED
    BY <1>2 DEF NextSink, TypeOK

(* Every call of a client. *)
LEMMA CallType ==
    ASSUME IndInv, NEW c \in Clients, NEW name \in CallNames, Call(c, name)
    PROVE  TypeOK'
  <1>1. TypeOK /\ c \in Threads /\ {"q_read", "w_claim"} \subseteq Points
    BY WhoIsWho DEF IndInv, Points, ClaimPoints
  <1>2. calls' \in [Clients -> Nat]
    BY <1>1 DEF TypeOK, Call
  <1>3. UNCHANGED <<setup, writer, queue, token, batch, logged, buffered, aborted>>
    BY DEF Call, entries
  <1>4. CASE Panic(c)
    BY <1>1, <1>2, <1>3, <1>4, PanicType DEF TypeOK
  <1>5. CASE (Goto(c, "q_read") \/ Goto(c, "w_claim")) /\ UNCHANGED <<readers, doing>>
    BY <1>1, <1>2, <1>3, <1>5, MovedTo, NextType DEF TypeOK, doing
  <1> QED
    BY <1>4, <1>5 DEF Call

(* Taking and giving back the write guard. *)
LEMMA ClaimType ==
    ASSUME IndInv, NEW t \in Threads, Claim(t)
    PROVE  TypeOK'
  <1>1. TypeOK /\ HoldPoints \subseteq Points
    BY PointsListed DEF IndInv
  <1>2. PICK p \in HoldPoints : Goto(t, p)
    BY DEF Claim, HoldPoints
  <1>3. pc' \in [Threads -> Points]
    BY <1>1, <1>2, MovedTo DEF TypeOK
  <1>4. UNCHANGED <<setup, readers, entries, doing, calls, aborted>> /\ writer' = t
    BY DEF Claim
  <1> QED
    BY <1>1, <1>3, <1>4, NextType DEF TypeOK, entries, doing

(* A step under the write guard, with whatever it does to the entries. *)
LEMMA WriteType ==
    ASSUME TypeOK, NEW t \in Threads, NEW point, Write(t, point), NEW p \in Points,
           Goto(t, p), UNCHANGED <<queue, token, batch>>,
           logged' \in 0..FlushEvery, buffered' \in BOOLEAN
    PROVE  TypeOK'
  <1>1. pc' \in [Threads -> Points]
    BY MovedTo DEF TypeOK
  <1> QED
    BY <1>1, NextType DEF TypeOK, Write, doing

(* The steps that change no more than a place and a few entries. *)
LEMMA LoopType ==
    ASSUME TypeOK, NEW t \in Threads, NEW p \in Points, Goto(t, p),
           UNCHANGED <<setup, lock, doing, calls, aborted>>,
           queue' \in Nat, batch' \in Nat, token' \in BOOLEAN,
           logged' \in 0..FlushEvery, buffered' \in BOOLEAN
    PROVE  TypeOK'
  <1>1. pc' \in [Threads -> Points]
    BY MovedTo DEF TypeOK
  <1> QED
    BY <1>1, NextType DEF TypeOK, lock, doing

-----------------------------------------------------------------------------
(* One lemma per action: the invariant is kept. *)

(* queue_log by a client *)
LEMMA QueueLogKeeps ==
    ASSUME IndInv, NEW c \in Clients, QueueLog(c)
    PROVE  IndInv'
  <1>1. /\ TypeOK /\ c \in Threads /\ pc[c] = "q_read" /\ Goto(c, "idle")
        /\ UNCHANGED <<setup, lock, doing, calls, aborted>>
        /\ UNCHANGED <<batch, logged, buffered>>
        /\ queue' \in Nat /\ token' \in BOOLEAN
    BY WhoIsWho DEF IndInv, TypeOK, QueueLog, Queued, At
  <1>2. "idle" \in Points \ (HoldPoints \cup {"sinks"})
        /\ pc[c] \notin HoldPoints \cup {"sinks", "dolog_claim", "dolog_hold"}
        /\ OthersStay(c)
    BY <1>1, NothingStirs DEF Points, HoldPoints, doing
  <1>3. TypeOK'
    BY <1>1, <1>2, LoopType DEF TypeOK
  <1>4. WriterHolds' /\ ReadersCallSinks'
    BY <1>1, <1>2, WriterKeeps, ReadersKeep DEF lock
  <1>5. "queue_log" \in setup.calls
    BY <1>1 DEF IndInv, GuardsConsistent, ClientsInPlace
  <1>6. ClientsInPlace'
    BY <1>1, <1>2, ClientMoves DEF doing, ClientPoints, DoLogPoints
  <1>7. LogThreadInPlace'
    BY <1>1, <1>2, <1>5, LogThreadStays DEF doing
  <1> QED
    BY <1>3, <1>4, <1>6, <1>7 DEF IndInv, GuardsConsistent

(* A panic stirs nobody else. *)
LEMMA PanicStirs ==
    ASSUME IndInv, NEW t \in Threads, Panic(t), UNCHANGED setup
    PROVE  OthersStay(t)
  BY DEF Panic, doing, OthersStay, IndInv, TypeOK

(* A panic, of a client or of the log thread: where there is a hook, a     *)
(* thread that a sink made panic keeps its guard.                          *)
LEMMA PanicKeepsGuards ==
    ASSUME IndInv, NEW t \in Threads, Panic(t), UNCHANGED <<setup, writer>>,
           pc[t] \notin HoldPoints \cup {"dolog_claim", "dolog_hold"},
           pc[t] = "sinks" => /\ t = LogThread /\ next[t] <= Len(setup.sinks)
                              /\ setup.sinks[next[t]] = "panics"
    PROVE  WriterHolds' /\ ReadersCallSinks'
  <1>1. OthersStay(t)
    BY PanicStirs
  <1>2. CASE setup.hook
    <2>1. Goto(t, "dolog_claim") /\ UNCHANGED <<readers, next>>
          /\ job' = [job EXCEPT ![t] = "panic"]
      BY <1>2 DEF Panic
    <2>2. "dolog_claim" \in Points \ (HoldPoints \cup {"sinks"})
      BY DEF Points, HoldPoints, ClaimPoints
    <2>3. WriterHolds'
      BY <2>1, <2>2, WriterKeeps
    <2>4. CASE pc[t] = "sinks"
      <3>1. InHookOfSink(t)'
        <4>1. pc'[t] = "dolog_claim" /\ job'[t] = "panic"
          BY <2>1, <2>2, MovedTo DEF IndInv, TypeOK
        <4> QED
          BY <1>2, <2>1, <2>4, <4>1 DEF InHookOfSink
      <3> QED
        BY <1>1, <2>1, <2>2, <2>3, <2>4, <3>1, OthersRead
    <2>5. CASE pc[t] # "sinks"
      BY <1>1, <2>1, <2>2, <2>3, <2>5, ReadersKeep
    <2> QED
      BY <2>4, <2>5
  <1>3. CASE ~setup.hook
    <2>1. Goto(t, Ended(t)) /\ DropRead(t)
      BY <1>3 DEF Panic
    <2>2. Ended(t) \in Points \ (HoldPoints \cup {"sinks"})
      BY DEF Points, HoldPoints, Ended
    <2> QED
      BY <1>1, <2>1, <2>2, WriterKeeps, ReaderLeaves
  <1> QED
    BY <1>2, <1>3

(* A client that panics is in place. *)
LEMMA PanicKeepsPlaces ==
    ASSUME IndInv, NEW c \in Clients, Panic(c), UNCHANGED <<setup, queue, batch>>
    PROVE  ClientsInPlace' /\ LogThreadInPlace'
  <1>1. \A u \in Threads : u # c => job'[u] = job[u]
    BY DEF Panic, doing, IndInv, TypeOK
  <1>2. LogThread # c /\ LogThread \in Threads /\ \A d \in Clients : d \in Threads
    BY WhoIsWho
  <1>3. CASE setup.hook
    <2>1. Goto(c, "dolog_claim") /\ job' = [job EXCEPT ![c] = "panic"]
      BY <1>3 DEF Panic
    <2>2. "dolog_claim" \in Points /\ "dolog_claim" \in DoLogPoints
          /\ "dolog_claim" \notin {"w_claim", "w_hold", "q_read"}
      BY DEF Points, ClaimPoints, DoLogPoints
    <2>3. job'[c] = "panic"
      BY <2>1, <1>2 DEF IndInv, TypeOK
    <2> QED
      BY <1>1, <1>2, <1>3, <2>1, <2>2, <2>3, ClientMoves, LogThreadStays
  <1>4. CASE ~setup.hook
    <2>1. Goto(c, "idle")
      BY <1>2, <1>4 DEF Panic, Ended
    <2>2. "idle" \in Points /\ "idle" \in ClientPoints \ DoLogPoints
      BY DEF Points, ClientPoints, DoLogPoints
    <2> QED
      BY <1>1, <1>2, <2>1, <2>2, ClientMoves, LogThreadStays
  <1> QED
    BY <1>3, <1>4

(* A call begins. *)
LEMMA CallKeeps ==
    ASSUME IndInv, NEW c \in Clients, NEW name \in CallNames, Call(c, name)
    PROVE  IndInv'
  <1>1. /\ TypeOK /\ c \in Threads /\ pc[c] = "idle" /\ name \in setup.calls
        /\ UNCHANGED <<setup, writer, queue, batch>>
    BY WhoIsWho DEF IndInv, Call, At, entries
  <1>2. pc[c] \notin HoldPoints \cup {"sinks", "dolog_claim", "dolog_hold"}
    BY <1>1 DEF HoldPoints
  <1>3. TypeOK'
    BY CallType
  <1>4. CASE Panic(c)
    BY <1>1, <1>2, <1>3, <1>4, PanicKeepsGuards, PanicKeepsPlaces
    DEF IndInv, GuardsConsistent
  <1>5. ASSUME NEW p \in {"q_read", "w_claim"}, Goto(c, p), UNCHANGED <<readers, doing>>,
               p = "q_read" => name = "queue_log", p = "w_claim" => name = "manage"
        PROVE  IndInv'
    <2>1. p \in Points \ (HoldPoints \cup {"sinks"}) /\ p \in ClientPoints \ DoLogPoints
      BY DEF Points, HoldPoints, ClaimPoints, ClientPoints, DoLogPoints
    <2>2. WriterHolds' /\ ReadersCallSinks'
      BY <1>1, <1>2, <1>5, <2>1, NothingStirs, WriterKeeps, ReadersKeep DEF doing
    <2>3. ClientsInPlace' /\ LogThreadInPlace'
      BY <1>1, <1>5, <2>1, ClientMoves, LogThreadStays DEF doing
    <2> QED
      BY <1>3, <2>2, <2>3 DEF IndInv, GuardsConsistent
  <1> QED
    BY <1>4, <1>5 DEF Call

(* Every  logger.write()  that is granted the writer bit. *)
LEMMA ClaimKeeps ==
    ASSUME IndInv, NEW t \in Threads, Claim(t)
    PROVE  IndInv'
  <1>1. /\ TypeOK /\ TypeOK' /\ writer = NoThread /\ writer' = t
        /\ UNCHANGED <<setup, readers, queue, batch, job, next>>
    BY ClaimType DEF IndInv, Claim, entries, doing
  <1>2. PICK p \in HoldPoints : /\ Goto(t, p) /\ pc[t] \in ClaimPoints
                                /\ p = "w_hold" <=> pc[t] = "w_claim"
                                /\ p = "batch_hold" <=> pc[t] = "batch_claim"
                                /\ p = "dolog_hold" <=> pc[t] = "dolog_claim"
    BY DEF Claim, At, HoldPoints, ClaimPoints
  <1>3. /\ pc[t] # "sinks" /\ p \in Points \ {"sinks"} /\ pc'[t] = p
        /\ \A u \in Threads : u # t => pc'[u] = pc[u]
    BY <1>1, <1>2, PointsListed, MovedTo DEF TypeOK, HoldPoints, ClaimPoints
  <1>4. WriterHolds'
    BY <1>1, <1>3, WhoIsWho DEF IndInv, GuardsConsistent, WriterHolds
  <1>5. ReadersCallSinks'
    <2>1. OthersStay(t)
      BY <1>1, NothingStirs
    <2>2. ASSUME t \in readers
          PROVE  t = LogThread /\ InHookOfSink(t)'
      <3>1. t = LogThread /\ InHookOfSink(t)
        BY <1>3, <2>2 DEF IndInv, GuardsConsistent, ReadersCallSinks
      <3>2. pc[t] = "dolog_claim"
        BY <1>2, <3>1 DEF InHookOfSink, ClaimPoints
      <3> QED
        BY <1>1, <1>2, <1>3, <3>1, <3>2 DEF InHookOfSink
    <2> QED
      BY <1>1, <1>2, <1>3, <2>1, <2>2, OthersRead
  <1>6. CASE t = LogThread
    <2>1. ClientsInPlace'
      BY <1>1, <1>2, <1>3, <1>6, ClientsStay
    <2>2. LogThreadInPlace
      BY DEF IndInv, GuardsConsistent
    <2>3. LogThreadInPlace'
      BY <1>1, <1>2, <1>3, <1>6, <2>2
      DEF LogThreadInPlace, HoldPoints, ClaimPoints, ClientPoints, BatchPoints, AsleepPoints
    <2> QED
      BY <1>1, <1>4, <1>5, <2>1, <2>3 DEF IndInv, GuardsConsistent
  <1>7. CASE t \in Clients
    <2>1. /\ pc[t] \in {"w_claim", "dolog_claim"}
          /\ pc[t] = "w_claim" => "manage" \in setup.calls
          /\ pc[t] = "dolog_claim" => setup.hook /\ job[t] = "panic"
      BY <1>2, <1>7 DEF IndInv, GuardsConsistent, ClientsInPlace, ClaimPoints,
             ClientPoints, DoLogPoints
    <2>2. p \in {"w_hold", "dolog_hold"}
      BY <1>2, <2>1 DEF HoldPoints
    <2>3. ClientsInPlace' /\ LogThreadInPlace'
      BY <1>1, <1>2, <1>3, <1>7, <2>1, <2>2, ClientMoves, LogThreadStays
      DEF ClientPoints, DoLogPoints
    <2> QED
      BY <1>1, <1>4, <1>5, <2>3 DEF IndInv, GuardsConsistent
  <1> QED
    BY <1>6, <1>7, WhoIsWho

(* A call that took the write guard returns. *)
LEMMA ManageKeeps ==
    ASSUME IndInv, NEW c \in Clients, Manage(c)
    PROVE  IndInv'
  <1>1. /\ TypeOK /\ c \in Threads /\ pc[c] = "w_hold" /\ Goto(c, "idle") /\ writer' = NoThread
        /\ readers = {} /\ OthersStay(c)
        /\ UNCHANGED <<setup, readers, queue, token, batch, logged, buffered, job>>
    BY WhoIsWho, NothingStirs DEF IndInv, Manage, Write, At, entries, doing
  <1>2. "idle" \in Points \ (HoldPoints \cup {"sinks"}) /\ pc[c] \in HoldPoints
        /\ "idle" \in ClientPoints \ DoLogPoints
    BY <1>1 DEF Points, HoldPoints, ClientPoints, DoLogPoints
  <1>3. TypeOK'
    <2>1. logged' \in 0..FlushEvery /\ buffered' \in BOOLEAN
      BY <1>1 DEF TypeOK
    <2> QED
      BY <1>1, <1>2, <2>1, WriteType DEF Manage
  <1>4. WriterHolds' /\ ReadersCallSinks'
    BY <1>1, <1>2, WriterLetsGo
  <1>5. ClientsInPlace' /\ LogThreadInPlace'
    BY <1>1, <1>2, ClientMoves, LogThreadStays
  <1> QED
    BY <1>3, <1>4, <1>5 DEF IndInv, GuardsConsistent

(* Where the log thread may go from where it is. *)
LEMMA LogThreadMoves ==
    ASSUME IndInv, NEW p \in Points, Goto(LogThread, p), UNCHANGED setup,
           p \notin ClientPoints,
           p \in BatchPoints /\ job'[LogThread] = "batch" => batch' > 0,
           p \in {"dolog_claim", "dolog_hold"} => job'[LogThread] # "batch",
           OnlyHookLogs(setup) =>
               /\ queue' = 0 /\ p \in AsleepPoints /\ job'[LogThread] = "batch"
    PROVE  LogThreadInPlace'
  <1>1. pc'[LogThread] = p
    BY MovedTo, WhoIsWho DEF IndInv, TypeOK
  <1> QED
    BY <1>1 DEF LogThreadInPlace

(* The steps of the loop that take no guard keep the invariant. *)
LEMMA LoopKeeps ==
    ASSUME IndInv, TypeOK',
           pc[LogThread] \notin HoldPoints \cup {"sinks", "dolog_claim", "dolog_hold"},
           NEW p \in Points \ (HoldPoints \cup ClientPoints \cup {"dolog_claim", "sinks"}),
           Goto(LogThread, p), UNCHANGED <<setup, lock, doing>>,
           p \in BatchPoints /\ job[LogThread] = "batch" => batch' > 0,
           OnlyHookLogs(setup) => queue' = 0 /\ p \in AsleepPoints
    PROVE  IndInv'
  <1>1. UNCHANGED <<writer, readers, job>> /\ LogThread \in Threads /\ OthersStay(LogThread)
    BY WhoIsWho, NothingStirs DEF lock, doing
  <1>2. WriterHolds' /\ ReadersCallSinks'
    BY <1>1, WriterKeeps, ReadersKeep
  <1>3. ClientsInPlace'
    BY <1>1, ClientsStay
  <1>4. OnlyHookLogs(setup) => job[LogThread] = "batch"
    BY DEF IndInv, GuardsConsistent, LogThreadInPlace
  <1>5. LogThreadInPlace'
    BY <1>1, <1>4, LogThreadMoves DEF HoldPoints
  <1> QED
    BY <1>2, <1>3, <1>5 DEF IndInv, GuardsConsistent

(* Taking the queue *)
LEMMA TakeQueueKeeps ==
    ASSUME IndInv, TakeQueue
    PROVE  IndInv'
  <1> DEFINE p == IF queue = 0 THEN "check_flush" ELSE "config"
  <1>1. /\ TypeOK /\ pc[LogThread] = "take" /\ Goto(LogThread, p)
        /\ UNCHANGED <<setup, lock, token, buffered, doing, calls, aborted>>
        /\ batch' = queue /\ queue' = 0 /\ queue \in Nat
    BY DEF IndInv, TypeOK, TakeQueue, At
  <1>2. logged' \in 0..FlushEvery
    BY ReentrancyAssumption DEF IndInv, TypeOK, TakeQueue
  <1>3. p \in Points \ (HoldPoints \cup ClientPoints \cup {"dolog_claim", "sinks"})
        /\ pc[LogThread] \notin HoldPoints \cup {"sinks", "dolog_claim", "dolog_hold"}
    BY <1>1 DEF Points, HoldPoints, ClientPoints
  <1>4. OnlyHookLogs(setup) => p \in AsleepPoints
    BY DEF IndInv, GuardsConsistent, LogThreadInPlace, AsleepPoints
  <1>5. p \in BatchPoints => batch' > 0
    BY <1>1 DEF BatchPoints
  <1> HIDE DEF p
  <1>6. TypeOK'
    BY <1>1, <1>2, <1>3, WhoIsWho, LoopType DEF TypeOK
  <1> QED
    BY <1>1, <1>3, <1>4, <1>5, <1>6, LoopKeeps

(* Deciding to flush *)
LEMMA CheckFlushKeeps ==
    ASSUME IndInv, CheckFlush
    PROVE  IndInv'
  <1>1. PICK p \in {"flush_claim", "check_wait"} : Goto(LogThread, p)
    BY DEF CheckFlush
  <1>2. /\ TypeOK /\ pc[LogThread] = "check_flush"
        /\ UNCHANGED <<setup, lock, queue, token, batch, logged, buffered, doing, calls, aborted>>
    BY DEF IndInv, CheckFlush, At, entries
  <1>3. p \in Points \ (HoldPoints \cup ClientPoints \cup BatchPoints
                   \cup {"dolog_claim", "sinks"})
        /\ p \in AsleepPoints
        /\ pc[LogThread] \notin HoldPoints \cup {"sinks", "dolog_claim", "dolog_hold"}
    BY <1>1, <1>2 DEF Points, HoldPoints, ClaimPoints, ClientPoints, AsleepPoints, BatchPoints
  <1>4. TypeOK'
    BY <1>1, <1>2, <1>3, WhoIsWho, LoopType DEF TypeOK
  <1> QED
    BY <1>1, <1>2, <1>3, <1>4, LoopKeeps DEF IndInv, GuardsConsistent, LogThreadInPlace

(* Deciding to wait *)
LEMMA CheckWaitKeeps ==
    ASSUME IndInv, CheckWait
    PROVE  IndInv'
  <1>1. PICK p \in {"wait", "take"} : Goto(LogThread, p)
    BY DEF CheckWait
  <1>2. /\ TypeOK /\ pc[LogThread] = "check_wait"
        /\ UNCHANGED <<setup, lock, queue, token, batch, logged, buffered, doing, calls, aborted>>
    BY DEF IndInv, CheckWait, At, entries
  <1>3. p \in Points \ (HoldPoints \cup ClientPoints \cup BatchPoints
                   \cup {"dolog_claim", "sinks"})
        /\ p \in AsleepPoints
        /\ pc[LogThread] \notin HoldPoints \cup {"sinks", "dolog_claim", "dolog_hold"}
    BY <1>1, <1>2 DEF Points, HoldPoints, ClientPoints, AsleepPoints, BatchPoints
  <1>4. TypeOK'
    BY <1>1, <1>2, <1>3, WhoIsWho, LoopType DEF TypeOK
  <1> QED
    BY <1>1, <1>2, <1>3, <1>4, LoopKeeps DEF IndInv, GuardsConsistent, LogThreadInPlace

(* Waking up *)
LEMMA WakeKeeps ==
    ASSUME IndInv, Wake
    PROVE  IndInv'
  <1>1. /\ TypeOK /\ pc[LogThread] = "wait" /\ Goto(LogThread, "take") /\ token' = FALSE
        /\ UNCHANGED <<setup, lock, queue, batch, logged, buffered, doing, calls, aborted>>
    BY DEF IndInv, Wake, At
  <1>2. "take" \in Points \ (HoldPoints \cup ClientPoints \cup BatchPoints
                   \cup {"dolog_claim", "sinks"})
        /\ "take" \in AsleepPoints
        /\ pc[LogThread] \notin HoldPoints \cup {"sinks", "dolog_claim", "dolog_hold"}
    BY <1>1 DEF Points, HoldPoints, ClientPoints, AsleepPoints, BatchPoints
  <1>3. TypeOK'
    BY <1>1, <1>2, WhoIsWho, LoopType DEF TypeOK
  <1> QED
    BY <1>1, <1>2, <1>3, LoopKeeps DEF IndInv, GuardsConsistent, LogThreadInPlace

(* The log thread's places when it panics: it is not asleep, so a hook is  *)
(* there only with calls that log.                                         *)
LEMMA LogThreadPanics ==
    ASSUME IndInv, Panic(LogThread), UNCHANGED setup,
           pc[LogThread] \notin AsleepPoints
    PROVE  ClientsInPlace' /\ LogThreadInPlace'
  <1>1. TypeOK /\ LogThread \in Threads /\ \A c \in Clients : c \in Threads /\ c # LogThread
    BY WhoIsWho DEF IndInv
  <1>2. \A c \in Clients : job'[c] = job[c]
    BY <1>1 DEF Panic, doing, TypeOK
  <1>3. ~OnlyHookLogs(setup)
    BY DEF IndInv, GuardsConsistent, LogThreadInPlace
  <1>4. CASE setup.hook
    <2>1. Goto(LogThread, "dolog_claim") /\ job' = [job EXCEPT ![LogThread] = "panic"]
      BY <1>4 DEF Panic
    <2>2. "dolog_claim" \in Points /\ "dolog_claim" \notin ClientPoints \cup BatchPoints
      BY DEF Points, ClaimPoints, ClientPoints, BatchPoints
    <2>3. job'[LogThread] = "panic"
      BY <1>1, <2>1 DEF TypeOK
    <2> QED
      BY <1>1, <1>2, <1>3, <2>1, <2>2, <2>3, ClientsStay, LogThreadMoves
  <1>5. CASE ~setup.hook
    <2>1. Goto(LogThread, "dead")
      BY <1>5 DEF Panic, Ended
    <2>2. "dead" \in Points /\ "dead" \notin ClientPoints \cup BatchPoints
      BY DEF Points, ClientPoints, BatchPoints
    <2> QED
      BY <1>1, <1>2, <1>3, <2>1, <2>2, ClientsStay, LogThreadMoves
  <1> QED
    BY <1>4, <1>5

(* Reading the configuration and splitting *)
LEMMA ReadConfigKeeps ==
    ASSUME IndInv, ReadConfig
    PROVE  IndInv'
  <1>1. /\ TypeOK /\ LogThread \in Threads /\ pc[LogThread] = "config"
        /\ UNCHANGED <<setup, writer, queue, token, batch, logged, buffered, calls, aborted>>
    BY WhoIsWho DEF IndInv, ReadConfig, At, entries
  <1>2. /\ pc[LogThread] \notin HoldPoints \cup {"sinks", "dolog_claim", "dolog_hold"}
        /\ pc[LogThread] \notin AsleepPoints /\ pc[LogThread] \in BatchPoints
    BY <1>1 DEF HoldPoints, AsleepPoints, BatchPoints
  <1>3. CASE Panic(LogThread)
    <2>1. TypeOK'
      BY <1>1, <1>3, PanicType DEF TypeOK
    <2>2. WriterHolds' /\ ReadersCallSinks'
      BY <1>1, <1>2, <1>3, PanicKeepsGuards
    <2>3. ClientsInPlace' /\ LogThreadInPlace'
      BY <1>1, <1>2, <1>3, LogThreadPanics
    <2> QED
      BY <2>1, <2>2, <2>3 DEF IndInv, GuardsConsistent
  <1>4. CASE Goto(LogThread, "batch_claim") /\ UNCHANGED <<readers, doing>>
    <2>1. "batch_claim" \in Points \ (HoldPoints \cup ClientPoints \cup {"dolog_claim", "sinks"})
      BY DEF Points, HoldPoints, ClaimPoints, ClientPoints
    <2>2. TypeOK'
      BY <1>1, <1>4, <2>1, LoopType DEF TypeOK, lock
    <2> QED
      BY <1>1, <1>2, <1>4, <2>1, <2>2, LoopKeeps
      DEF lock, IndInv, GuardsConsistent, LogThreadInPlace
  <1> QED
    BY <1>3, <1>4 DEF ReadConfig

(* do_log_batch writes. *)
LEMMA WriteBatchKeeps ==
    ASSUME IndInv, WriteBatch
    PROVE  IndInv'
  <1>1. /\ TypeOK /\ LogThread \in Threads /\ pc[LogThread] = "batch_hold"
        /\ Goto(LogThread, "sinks_read") /\ writer' = NoThread
        /\ readers = {} /\ OthersStay(LogThread)
        /\ UNCHANGED <<setup, readers, queue, token, batch, logged, buffered, job>>
    BY WhoIsWho, NothingStirs DEF IndInv, WriteBatch, Write, At, entries, doing
  <1>2. "sinks_read" \in Points \ (HoldPoints \cup {"sinks"} \cup ClientPoints)
        /\ pc[LogThread] \in HoldPoints /\ pc[LogThread] \in BatchPoints \ AsleepPoints
    BY <1>1 DEF Points, HoldPoints, ClientPoints, BatchPoints, AsleepPoints
  <1>3. TypeOK'
    <2>1. logged' \in 0..FlushEvery /\ buffered' \in BOOLEAN
      BY <1>1 DEF TypeOK
    <2> QED
      BY <1>1, <1>2, <2>1, WriteType DEF WriteBatch
  <1>4. WriterHolds' /\ ReadersCallSinks'
    BY <1>1, <1>2, WriterLetsGo
  <1>5. ClientsInPlace'
    BY <1>1, <1>2, ClientsStay
  <1>6. LogThreadInPlace'
    BY <1>1, <1>2, LogThreadMoves DEF IndInv, GuardsConsistent, LogThreadInPlace
  <1> QED
    BY <1>3, <1>4, <1>5, <1>6 DEF IndInv, GuardsConsistent

(* Flushing, in the loop or before the closure's last message *)
LEMMA FlushKeeps ==
    ASSUME IndInv, Flush
    PROVE  IndInv'
  <1>1. PICK p \in {"check_wait", "dolog_claim"} :
            /\ Goto(LogThread, p)
            /\ p = "dolog_claim" => job[LogThread] = "report"
            /\ logged' \in {0, logged}
    BY DEF Flush
  <1>2. /\ TypeOK /\ LogThread \in Threads /\ pc[LogThread] = "flush_hold"
        /\ writer' = NoThread /\ buffered' = FALSE
        /\ readers = {} /\ OthersStay(LogThread)
        /\ UNCHANGED <<setup, readers, queue, token, batch, job>>
    BY WhoIsWho, NothingStirs DEF IndInv, Flush, Write, At, doing
  <1>3. p \in Points \ (HoldPoints \cup {"sinks"} \cup ClientPoints \cup BatchPoints)
        /\ pc[LogThread] \in HoldPoints /\ (p \in AsleepPoints \/ p = "dolog_claim")
    BY <1>1, <1>2
    DEF Points, ClaimPoints, HoldPoints, ClientPoints, BatchPoints, AsleepPoints
  <1>4. TypeOK'
    <2>1. 0 \in 0..FlushEvery
      BY ReentrancyAssumption
    <2>2. logged' \in 0..FlushEvery /\ buffered' \in BOOLEAN
      BY <1>1, <1>2, <2>1 DEF TypeOK
    <2> QED
      BY <1>1, <1>2, <1>3, <2>2, WriteType DEF Flush
  <1>5. WriterHolds' /\ ReadersCallSinks'
    BY <1>1, <1>2, <1>3, WriterLetsGo
  <1>6. ClientsInPlace'
    BY <1>1, <1>2, <1>3, ClientsStay
  <1>7. LogThreadInPlace'
    BY <1>1, <1>2, <1>3, LogThreadMoves DEF IndInv, GuardsConsistent, LogThreadInPlace
  <1> QED
    BY <1>4, <1>5, <1>6, <1>7 DEF IndInv, GuardsConsistent

-----------------------------------------------------------------------------
(* do_log and the sinks, in any thread. *)

(* Where do_log's and the sinks' steps may take a thread: from a point of  *)
(* do_log to another, or to the thread's end.                              *)
LEMMA DoLogInPlace ==
    ASSUME IndInv, NEW t \in Threads,
           pc[t] \in DoLogPoints, NEW p \in Points, Goto(t, p),
           p \in DoLogPoints \/ (p = Ended(t)), UNCHANGED <<setup, job>>,
           queue' = queue \/ "queue_log" \in setup.calls \/ ~setup.hook,
           t \in Clients => batch' = batch,
           t = LogThread /\ p \in BatchPoints /\ job[t] = "batch" => batch' > 0,
           t = LogThread /\ p \in {"dolog_claim", "dolog_hold"} => job[t] # "batch"
    PROVE  ClientsInPlace' /\ LogThreadInPlace'
  <1>1. CASE t \in Clients
    <2>1. p \in ClientPoints \cup DoLogPoints
          /\ p \notin {"w_claim", "w_hold", "q_read"}
      BY <1>1, WhoIsWho DEF Ended, ClientPoints, DoLogPoints
    <2>2. setup.hook /\ job[t] = "panic"
      BY <1>1 DEF IndInv, GuardsConsistent, ClientsInPlace
    <2>3. ClientsInPlace'
      BY <1>1, <2>1, <2>2, ClientMoves
    <2>4. LogThreadInPlace'
      BY <1>1, <2>2, LogThreadStays
    <2> QED
      BY <2>3, <2>4
  <1>2. CASE t = LogThread
    <2>1. p \notin ClientPoints
      BY <1>2 DEF Ended, ClientPoints, DoLogPoints
    <2>2. ~OnlyHookLogs(setup)
      BY <1>2 DEF IndInv, GuardsConsistent, LogThreadInPlace, AsleepPoints, DoLogPoints
    <2> QED
      BY <1>2, <2>1, <2>2, ClientsStay, LogThreadMoves
  <1> QED
    BY <1>1, <1>2, WhoIsWho

(* file_logger::do_log writes. *)
LEMMA WriteLineKeeps ==
    ASSUME IndInv, NEW t \in Threads, WriteLine(t)
    PROVE  IndInv'
  <1>1. /\ TypeOK /\ pc[t] = "dolog_hold" /\ Goto(t, "sinks_read") /\ writer' = NoThread
        /\ buffered' = TRUE /\ readers = {} /\ OthersStay(t)
        /\ UNCHANGED <<setup, readers, queue, token, batch, logged, job>>
    BY NothingStirs DEF IndInv, WriteLine, Write, At, doing
  <1>2. "sinks_read" \in Points \ (HoldPoints \cup {"sinks"})
        /\ pc[t] \in HoldPoints /\ pc[t] \in DoLogPoints /\ "sinks_read" \in DoLogPoints
    BY <1>1 DEF Points, HoldPoints, DoLogPoints
  <1>3. TypeOK'
    <2>1. logged' \in 0..FlushEvery /\ buffered' \in BOOLEAN
      BY <1>1 DEF TypeOK
    <2> QED
      BY <1>1, <1>2, <2>1, WriteType DEF WriteLine
  <1>4. WriterHolds' /\ ReadersCallSinks'
    BY <1>1, <1>2, WriterLetsGo
  <1>5. t = LogThread => job[t] # "batch"
    BY <1>1 DEF IndInv, GuardsConsistent, LogThreadInPlace
  <1>6. ClientsInPlace' /\ LogThreadInPlace'
    BY <1>1, <1>2, <1>5, DoLogInPlace
  <1> QED
    BY <1>3, <1>4, <1>6 DEF IndInv, GuardsConsistent

(* sink_logger::do_log takes its read guard. *)
LEMMA ReadSinksKeeps ==
    ASSUME IndInv, NEW t \in Threads, ReadSinks(t)
    PROVE  IndInv'
  <1>1. /\ TypeOK /\ pc[t] = "sinks_read" /\ Goto(t, "sinks")
        /\ readers' = readers \cup {t} /\ next' = [next EXCEPT ![t] = 1]
        /\ UNCHANGED <<setup, writer, queue, token, batch, logged, buffered, job, messages,
                       calls, aborted>>
    BY DEF IndInv, ReadSinks, At, entries
  <1>2. "sinks" \in Points \ HoldPoints /\ "sinks" \in DoLogPoints
        /\ pc[t] \notin HoldPoints /\ pc[t] \in DoLogPoints
    BY <1>1 DEF Points, HoldPoints, DoLogPoints
  <1>3. /\ pc' \in [Threads -> Points] /\ pc'[t] = "sinks"
        /\ \A u \in Threads : u # t => pc'[u] = pc[u]
    BY <1>1, <1>2, MovedTo DEF TypeOK
  <1>4. TypeOK'
    <2>1. 1 \in 1..(Len(setup.sinks) + 1)
      BY <1>1, SetupType DEF TypeOK
    <2>2. next' \in [Threads -> 1..(Len(setup'.sinks) + 1)]
      BY <1>1, <2>1 DEF TypeOK
    <2> QED
      BY <1>1, <1>3, <2>2 DEF TypeOK
  <1>5. WriterHolds'
    BY <1>1, <1>2, WriterKeeps
  <1>6. ReadersCallSinks'
    <2>1. OthersStay(t)
      BY <1>1 DEF OthersStay, TypeOK
    <2>2. readers' \ {t} = readers \ {t} /\ t \in readers'
      BY <1>1
    <2> QED
      BY <1>1, <1>2, <2>1, <2>2, OthersRead
  <1>7. t = LogThread /\ job[t] = "batch" => batch > 0
    BY <1>1 DEF IndInv, GuardsConsistent, LogThreadInPlace, BatchPoints
  <1>8. ClientsInPlace' /\ LogThreadInPlace'
    BY <1>1, <1>2, <1>7, DoLogInPlace
  <1> QED
    BY <1>4, <1>5, <1>6, <1>8 DEF IndInv, GuardsConsistent

(* A sink's turn is over and nothing moves. *)
LEMMA NextSinkKeeps ==
    ASSUME IndInv, NEW t \in Threads, next[t] <= Len(setup.sinks), NextSink(t),
           queue' \in Nat, token' \in BOOLEAN, UNCHANGED <<batch, logged, buffered>>,
           pc[t] = "sinks", queue' = queue \/ ~OnlyHookLogs(setup)
    PROVE  IndInv'
  <1>1. TypeOK /\ UNCHANGED <<setup, writer, readers, pc, job, messages, calls, aborted>>
    BY DEF IndInv, NextSink, lock
  <1>2. TypeOK'
    BY <1>1, NextSinkType DEF TypeOK
  <1>3. WriterHolds' /\ ClientsInPlace'
    BY <1>1 DEF IndInv, GuardsConsistent, WriterHolds, ClientsInPlace
  <1>4. LogThreadInPlace'
    BY <1>1 DEF IndInv, GuardsConsistent, LogThreadInPlace
  <1>5. ReadersCallSinks'
    <2>1. ASSUME NEW u \in Threads, u # t
          PROVE  InHookOfSink(u)' <=> InHookOfSink(u)
      <3>1. next'[u] = next[u]
        BY <1>1, <2>1 DEF NextSink, TypeOK
      <3> QED
        BY <1>1, <3>1, StaysInHook
    <2> QED
      BY <1>1, <2>1 DEF IndInv, GuardsConsistent, ReadersCallSinks
  <1> QED
    BY <1>2, <1>3, <1>4, <1>5 DEF IndInv, GuardsConsistent

(* A sink that returns *)
LEMMA SinkReturnsKeeps ==
    ASSUME IndInv, NEW t \in Threads, SinkReturns(t)
    PROVE  IndInv'
  <1>1. /\ next[t] <= Len(setup.sinks) /\ NextSink(t) /\ TypeOK /\ pc[t] = "sinks"
        /\ UNCHANGED <<queue, token, batch, logged, buffered>>
    BY DEF IndInv, SinkReturns, AtSink, At, entries
  <1>2. queue' \in Nat /\ token' \in BOOLEAN
    BY <1>1 DEF TypeOK
  <1> QED
    BY <1>1, <1>2, NextSinkKeeps

(* A sink that logs: where that is harmless there is no hook. *)
LEMMA SinkLogsKeeps ==
    ASSUME IndInv, NEW t \in Threads, SinkLogs(t)
    PROVE  IndInv'
  <1>1. /\ next[t] <= Len(setup.sinks) /\ NextSink(t) /\ TypeOK
        /\ setup.sinks[next[t]] = "logs" /\ pc[t] = "sinks"
        /\ queue' = queue + 1 /\ token' = TRUE /\ UNCHANGED <<batch, logged, buffered>>
    BY DEF IndInv, SinkLogs, AtSink, At, Queued
  <1>2. queue' \in Nat /\ token' \in BOOLEAN
    BY <1>1 DEF TypeOK
  <1>3. next[t] \in 1..Len(setup.sinks)
    BY <1>1, SetupType DEF TypeOK
  <1>4. ~OnlyHookLogs(setup)
    BY <1>1, <1>3 DEF OnlyHookLogs, Harmless
  <1> QED
    BY <1>1, <1>2, <1>4, NextSinkKeeps

(* Where the end of a message takes a thread. *)
LEMMA MessageDoneMoves ==
    ASSUME NEW t \in Threads, MessageDone(t)
    PROVE  /\ job[t] # "batch"
           /\ \E p \in {"dolog_claim", Ended(t)} : Goto(t, p)
  BY DEF MessageDone

(* Leaving sink_logger::do_log for the end of a message *)
LEMMA LeavingKeepsGuards ==
    ASSUME IndInv, NEW t \in Threads, pc[t] = "sinks", DropRead(t), UNCHANGED writer,
           OthersStay(t),
           NEW p \in Points \ (HoldPoints \cup {"sinks"}), Goto(t, p)
    PROVE  WriterHolds' /\ ReadersCallSinks'
  <1>1. pc[t] \notin HoldPoints
    BY DEF HoldPoints
  <1> QED
    BY <1>1, WriterKeeps, ReaderLeaves

(* The last sink of a message *)
LEMMA MessageDoneKeeps ==
    ASSUME IndInv, NEW t \in Threads, pc[t] = "sinks", DropRead(t), MessageDone(t),
           UNCHANGED <<setup, writer, queue, batch, job, next>>
    PROVE  GuardsConsistent'
  <1>1. PICK p \in {"dolog_claim", Ended(t)} : Goto(t, p)
    BY MessageDoneMoves
  <1>2. job[t] # "batch" /\ pc[t] \in DoLogPoints
    BY MessageDoneMoves DEF DoLogPoints
  <1>3. p \in Points \ (HoldPoints \cup {"sinks"}) /\ (p \in DoLogPoints \/ p = Ended(t))
    BY <1>1 DEF Points, HoldPoints, ClaimPoints, DoLogPoints, Ended
  <1>4. WriterHolds' /\ ReadersCallSinks'
    BY <1>1, <1>3, NothingStirs, LeavingKeepsGuards
  <1>5. ClientsInPlace' /\ LogThreadInPlace'
    BY <1>1, <1>2, <1>3, DoLogInPlace
  <1> QED
    BY <1>4, <1>5 DEF GuardsConsistent

(* A client that calls sinks runs the panic hook. *)
LEMMA SinksOfWhom ==
    ASSUME IndInv, NEW t \in Threads, pc[t] = "sinks"
    PROVE  /\ job[t] # "panic" => t = LogThread
           /\ t = LogThread => ~OnlyHookLogs(setup)
           /\ job[t] = "batch" => t = LogThread /\ batch > 0
  BY WhoIsWho DEF IndInv, GuardsConsistent, ClientsInPlace, LogThreadInPlace, DoLogPoints,
     BatchPoints, AsleepPoints

(* A sink that fails *)
LEMMA SinkFailsKeeps ==
    ASSUME IndInv, NEW t \in Threads, SinkFails(t)
    PROVE  IndInv'
  <1>1. /\ TypeOK /\ pc[t] = "sinks" /\ DropRead(t)
        /\ UNCHANGED <<setup, writer, queue, token, batch, logged, buffered, next, calls,
                       aborted>>
    BY DEF IndInv, SinkFails, AtSink, At, entries
  <1>2. readers' \in SUBSET Threads
    BY <1>1 DEF TypeOK, DropRead
  <1>3. CASE MessageDone(t) /\ UNCHANGED job
    <2>1. TypeOK'
      BY <1>1, <1>2, <1>3, MessageDoneType, NextType DEF TypeOK
    <2>2. GuardsConsistent'
      BY <1>1, <1>3, MessageDoneKeeps
    <2> QED
      BY <2>1, <2>2 DEF IndInv
  <1>4. CASE /\ job[t] = "batch" /\ job' = [job EXCEPT ![t] = "report"]
             /\ Goto(t, "flush_claim") /\ UNCHANGED messages
    <2>1. t = LogThread /\ ~OnlyHookLogs(setup)
      BY <1>1, <1>4, SinksOfWhom
    <2>2. "flush_claim" \in Points \ (HoldPoints \cup {"sinks"})
          /\ "flush_claim" \notin ClientPoints \cup BatchPoints \cup {"dolog_claim", "dolog_hold"}
      BY DEF Points, HoldPoints, ClaimPoints, ClientPoints, BatchPoints
    <2>3. TypeOK'
      <3>1. job' \in [Threads -> {"batch", "report", "panic"}]
        BY <1>1, <1>4 DEF TypeOK
      <3> QED
        BY <1>1, <1>2, <1>4, <2>2, <3>1, MovedTo, NextType DEF TypeOK
    <2>4. WriterHolds' /\ ReadersCallSinks'
      <3>1. OthersStay(t)
        BY <1>1, <1>4 DEF OthersStay, TypeOK
      <3> QED
        BY <1>1, <1>4, <2>2, <3>1, LeavingKeepsGuards
    <2>5. \A c \in Clients : job'[c] = job[c]
      BY <1>1, <1>4, <2>1, WhoIsWho DEF TypeOK
    <2>6. ClientsInPlace' /\ LogThreadInPlace'
      BY <1>1, <1>4, <2>1, <2>2, <2>5, ClientsStay, LogThreadMoves
    <2> QED
      BY <2>3, <2>4, <2>6 DEF IndInv, GuardsConsistent
  <1> QED
    BY <1>3, <1>4 DEF SinkFails

(* A sink that panics: in the log thread, or in a hook. *)
LEMMA SinkPanicsKeeps ==
    ASSUME IndInv, NEW t \in Threads, SinkPanics(t)
    PROVE  IndInv'
  <1>1. /\ TypeOK /\ pc[t] = "sinks" /\ next[t] <= Len(setup.sinks)
        /\ setup.sinks[next[t]] = "panics"
        /\ UNCHANGED <<setup, writer, queue, token, batch, logged, buffered, calls>>
    BY DEF IndInv, SinkPanics, AtSink, At, entries
  <1>2. pc[t] \notin HoldPoints \cup {"dolog_claim", "dolog_hold"}
    BY <1>1 DEF HoldPoints
  <1>3. CASE job[t] # "panic" /\ Panic(t) /\ UNCHANGED aborted
    <2>1. t = LogThread /\ ~OnlyHookLogs(setup)
      BY <1>1, <1>3, SinksOfWhom
    <2>2. TypeOK'
      BY <1>1, <1>3, PanicType DEF TypeOK
    <2>3. WriterHolds' /\ ReadersCallSinks'
      BY <1>1, <1>2, <1>3, <2>1, PanicKeepsGuards
    <2>4. ClientsInPlace' /\ LogThreadInPlace'
      BY <1>1, <1>3, <2>1, LogThreadPanics DEF AsleepPoints
    <2> QED
      BY <2>2, <2>3, <2>4 DEF IndInv, GuardsConsistent
  <1>4. CASE aborted' = TRUE /\ UNCHANGED <<readers, pc, doing>>
    <2>1. TypeOK'
      BY <1>1, <1>4, NextType DEF TypeOK, doing
    <2>2. WriterHolds' /\ ReadersCallSinks' /\ ClientsInPlace'
      BY <1>1, <1>4
      DEF IndInv, GuardsConsistent, WriterHolds, ReadersCallSinks, InHookOfSink,
          ClientsInPlace, doing
    <2>3. LogThreadInPlace'
      BY <1>1, <1>4 DEF IndInv, GuardsConsistent, LogThreadInPlace, doing
    <2> QED
      BY <2>1, <2>2, <2>3 DEF IndInv, GuardsConsistent
  <1> QED
    BY <1>3, <1>4 DEF SinkPanics

(* All sinks have been called. *)
LEMMA SinksDoneKeeps ==
    ASSUME IndInv, NEW t \in Threads, SinksDone(t)
    PROVE  IndInv'
  <1>1. /\ TypeOK /\ pc[t] = "sinks" /\ DropRead(t)
        /\ UNCHANGED <<setup, writer, queue, token, logged, buffered, job, next, calls,
                       aborted>>
    BY DEF IndInv, SinksDone, At
  <1>2. readers' \in SUBSET Threads
    BY <1>1 DEF TypeOK, DropRead
  <1>3. CASE MessageDone(t) /\ UNCHANGED batch
    <2>1. TypeOK'
      BY <1>1, <1>2, <1>3, MessageDoneType, NextType DEF TypeOK
    <2>2. GuardsConsistent'
      BY <1>1, <1>3, MessageDoneKeeps
    <2> QED
      BY <2>1, <2>2 DEF IndInv
  <1>4. CASE /\ job[t] = "batch" /\ batch' = batch - 1
             /\ Goto(t, IF LastEntry THEN "check_flush" ELSE "sinks_read")
             /\ UNCHANGED messages
    <2>1. t = LogThread /\ batch > 0 /\ ~OnlyHookLogs(setup)
      BY <1>1, <1>4, SinksOfWhom
    <2>2. PICK p \in {"check_flush", "sinks_read"} :
              Goto(t, p) /\ (p = "sinks_read" => batch # 1)
      BY <1>4 DEF LastEntry
    <2>3. batch \in Nat /\ batch' \in Nat /\ (p = "sinks_read" => batch' > 0)
      BY <1>1, <1>4, <2>1, <2>2 DEF TypeOK
    <2>4. p \in Points \ (HoldPoints \cup {"sinks"})
          /\ p \notin ClientPoints \cup {"dolog_claim", "dolog_hold"}
          /\ (p \in BatchPoints => p = "sinks_read")
      BY <2>2 DEF Points, HoldPoints, ClientPoints, BatchPoints
    <2>5. TypeOK'
      BY <1>1, <1>2, <1>4, <2>2, <2>3, <2>4, MovedTo, NextType DEF TypeOK
    <2>6. WriterHolds' /\ ReadersCallSinks'
      BY <1>1, <2>2, <2>4, NothingStirs, LeavingKeepsGuards
    <2>7. ClientsInPlace' /\ LogThreadInPlace'
      BY <1>1, <2>1, <2>2, <2>3, <2>4, ClientsStay, LogThreadMoves
    <2> QED
      BY <2>5, <2>6, <2>7 DEF IndInv, GuardsConsistent
  <1> QED
    BY <1>3, <1>4 DEF SinksDone

-----------------------------------------------------------------------------
(* The theorems. *)

(* Nothing is held at the start. *)
LEMMA InitInv == Init => IndInv
  <1> SUFFICES ASSUME Init PROVE IndInv
    OBVIOUS
  <1> USE DEF Init
  <1>1. 0 \in 0..FlushEvery /\ 0 \in 0..HookMessages
    BY ReentrancyAssumption
  <1>2. 1 \in 1..(Len(setup.sinks) + 1)
    BY SetupType
  <1>3. TypeOK
    <2>1. pc \in [Threads -> Points]
      BY DEF Points
    <2>2. next \in [Threads -> 1..(Len(setup.sinks) + 1)]
      BY <1>2
    <2>3. messages \in [Threads -> 0..HookMessages] /\ logged \in 0..FlushEvery
      BY <1>1
    <2> QED
      BY <2>1, <2>2, <2>3 DEF TypeOK
  <1>4. WriterHolds /\ ReadersCallSinks
    BY WhoIsWho DEF WriterHolds, ReadersCallSinks, HoldPoints
  <1>5. ClientsInPlace /\ LogThreadInPlace
    BY WhoIsWho
    DEF ClientsInPlace, LogThreadInPlace, ClientPoints, DoLogPoints, BatchPoints, AsleepPoints
  <1> QED
    BY <1>3, <1>4, <1>5 DEF IndInv, GuardsConsistent

(* Every step of every program keeps the invariant. *)
LEMMA NextInv ==
    ASSUME IndInv, [Next]_vars
    PROVE  IndInv'
  <1>1. CASE UNCHANGED vars
    <2>1. UNCHANGED <<setup, writer, readers, queue, token, batch, logged, buffered, pc,
                      job, next, messages, calls, aborted>>
      BY <1>1 DEF vars, lock, entries, doing
    <2>2. TypeOK'
      BY <2>1, NextType DEF IndInv, TypeOK
    <2>3. WriterHolds' /\ ReadersCallSinks' /\ ClientsInPlace'
      BY <2>1
      DEF IndInv, GuardsConsistent, WriterHolds, ReadersCallSinks, InHookOfSink,
          ClientsInPlace
    <2>4. LogThreadInPlace'
      BY <2>1 DEF IndInv, GuardsConsistent, LogThreadInPlace
    <2> QED
      BY <2>2, <2>3, <2>4 DEF IndInv, GuardsConsistent
  <1>2. ASSUME NEW c \in Clients, NEW name \in CallNames, Call(c, name)
        PROVE  IndInv'
    BY <1>2, CallKeeps
  <1>3. ASSUME NEW t \in Threads, Step(t)
        PROVE  IndInv'
    <2>1. CASE LogStep
      BY <2>1, TakeQueueKeeps, ReadConfigKeeps, WriteBatchKeeps, CheckFlushKeeps,
         FlushKeeps, CheckWaitKeeps, WakeKeeps DEF LogStep
    <2>2. CASE t \in Clients /\ (QueueLog(t) \/ Manage(t))
      BY <2>2, QueueLogKeeps, ManageKeeps
    <2>3. CASE Claim(t) \/ WriteLine(t) \/ ReadSinks(t)
      BY <2>3, ClaimKeeps, WriteLineKeeps, ReadSinksKeeps
    <2>4. CASE SinkReturns(t) \/ SinkLogs(t) \/ SinkFails(t) \/ SinkPanics(t) \/ SinksDone(t)
      BY <2>4, SinkReturnsKeeps, SinkLogsKeeps, SinkFailsKeeps, SinkPanicsKeeps,
         SinksDoneKeeps
    <2> QED
      BY <1>3, <2>1, <2>2, <2>3, <2>4 DEF Step
  <1> QED
    BY <1>1, <1>2, <1>3 DEF Next

(* A thread that holds a read guard and needs another guard is sent for it *)
(* by a sink.                                                              *)
LEMMA SentBySink ==
    ASSUME IndInv, NEW t \in Threads, t \in readers, WantsGuard(t)
    PROVE  InLoggingSink(t) \/ (t = LogThread /\ InHookOfSink(t))
  BY DEF IndInv, GuardsConsistent, ReadersCallSinks, WantsGuard, ClaimPoints, HoldPoints

(* A harmless program's sinks send nobody for a guard that is not free:    *)
(* there is no hook to run after a panic, and no client that writes while  *)
(* a sink logs.                                                            *)
LEMMA HarmlessSinks ==
    ASSUME IndInv, Harmless(setup), NEW t \in Threads,
           InLoggingSink(t) \/ (t = LogThread /\ InHookOfSink(t))
    PROVE  InLoggingSink(t) /\ writer = NoThread
  <1>1. /\ TypeOK /\ next[t] <= Len(setup.sinks)
        /\ InLoggingSink(t) => setup.sinks[next[t]] = "logs"
        /\ InHookOfSink(t) => setup.sinks[next[t]] = "panics"
    BY DEF IndInv, InLoggingSink, InHookOfSink
  <1>2. next[t] \in 1..Len(setup.sinks)
    BY <1>1, SetupType DEF TypeOK
  <1>3. CASE t = LogThread /\ InHookOfSink(t)
    <2>1. OnlyHookLogs(setup)
      BY <1>1, <1>2, <1>3 DEF Harmless, OnlyHookLogs, InHookOfSink
    <2> QED
      BY <1>3, <2>1 DEF IndInv, GuardsConsistent, LogThreadInPlace, InHookOfSink
  <1>4. CASE InLoggingSink(t)
    <2>1. ~setup.hook /\ "manage" \notin setup.calls
      BY <1>1, <1>2, <1>4 DEF Harmless
    <2>2. \A u \in Threads : pc[u] \in DoLogPoints => u = LogThread
      BY <2>1, WhoIsWho DEF IndInv, GuardsConsistent, ClientsInPlace
    <2>3. t = LogThread /\ pc[t] = "sinks"
      BY <1>4, <2>2 DEF InLoggingSink, DoLogPoints
    <2> SUFFICES ASSUME writer # NoThread PROVE FALSE
      BY <1>4
    <2>4. writer \in Threads /\ pc[writer] \in HoldPoints
      BY <1>1 DEF IndInv, TypeOK, GuardsConsistent, WriterHolds
    <2>5. writer \in Clients
      BY <2>3, <2>4, WhoIsWho DEF HoldPoints
    <2> QED
      BY <2>1, <2>4, <2>5
      DEF IndInv, GuardsConsistent, ClientsInPlace, HoldPoints, ClientPoints, DoLogPoints
  <1> QED
    BY <1>3, <1>4

(* In a circle some thread holds a read guard: a writer waits for one.     *)
LEMMA CircleReads ==
    ASSUME IndInv, NEW S \in SUBSET Threads, Circle(S)
    PROVE  \E t \in S \cap readers : WaitsFor(t) # {}
  <1>1. PICK t \in S : WaitsFor(t) \cap S # {}
    BY DEF Circle
  <1>2. CASE pc[t] \in HoldPoints
    BY <1>1, <1>2 DEF WaitsFor, Circle
  <1>3. CASE pc[t] \notin HoldPoints
    <2>1. writer \in S /\ writer \in Threads
      BY <1>1, <1>3 DEF WaitsFor
    <2>2. pc[writer] \in HoldPoints
      BY <2>1 DEF IndInv, GuardsConsistent, WriterHolds
    <2>3. WaitsFor(writer) \cap S # {} /\ WaitsFor(writer) \subseteq readers
      BY <2>1, <2>2 DEF Circle, WaitsFor
    <2> QED
      BY <2>3 DEF Circle
  <1> QED
    BY <1>2, <1>3

(* Where the places are as they should be, a circle closes only through a  *)
(* sink, and in no harmless program.                                       *)
LEMMA CirclesThroughSinks ==
    ASSUME IndInv
    PROVE  DeadlocksFromSinks
  <1> SUFFICES ASSUME NEW S \in SUBSET Threads, Circle(S)
               PROVE  /\ ~Harmless(setup)
                      /\ \E t \in S \cap readers : InLoggingSink(t) \/ InHookOfSink(t)
    BY DEF DeadlocksFromSinks
  <1>1. PICK t \in S \cap readers : WaitsFor(t) # {}
    BY CircleReads
  <1>2. t \in Threads /\ t \in readers /\ WantsGuard(t)
    BY <1>1 DEF WaitsFor
  <1>3. InLoggingSink(t) \/ (t = LogThread /\ InHookOfSink(t))
    BY <1>2, SentBySink
  <1>4. ASSUME Harmless(setup) PROVE FALSE
    <2>1. InLoggingSink(t) /\ writer = NoThread
      BY <1>2, <1>3, <1>4, HarmlessSinks
    <2>2. pc[t] \notin HoldPoints
      BY <2>1 DEF InLoggingSink, HoldPoints
    <2> QED
      BY <1>1, <2>1, <2>2 DEF WaitsFor
  <1> QED
    BY <1>1, <1>3, <1>4

(* The invariant holds in every reachable state. *)
THEOREM InvariantHolds == Spec => []IndInv
  BY InitInv, NextInv, PTL DEF Spec

(* Every variable keeps its type, and the log thread's batch never goes    *)
(* below zero, in every program, one that hangs included                   *)
(* (src/src/logger/sink_logger.rs:11).                                     *)
THEOREM TypeCorrect == Spec => []TypeOK
  <1>1. IndInv => TypeOK
    BY DEF IndInv
  <1> QED
    BY <1>1, InvariantHolds, PTL

(* In every program, whatever its threads, calls and sinks: a circle of    *)
(* threads that wait for one another's guards closes only through a thread *)
(* that a sink sends for a second guard while sink_logger::do_log keeps    *)
(* the first (src/src/logger/sink_logger.rs:11), and in a harmless program *)
(* none closes at all.                                                     *)
THEOREM DeadlocksFromSinksAlways == Spec => []DeadlocksFromSinks
  <1>1. IndInv => DeadlocksFromSinks
    BY CirclesThroughSinks
  <1> QED
    BY <1>1, InvariantHolds, PTL
==============================================================================
