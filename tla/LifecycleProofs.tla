--------------------------- MODULE LifecycleProofs ---------------------------
(* Theorems about Lifecycle, for any threads, programs and configurations. *)
EXTENDS Lifecycle, TLAPS

(* A program's call is one of the requests, and only an init carries a     *)
(* configuration.                                                          *)
LEMMA RequestsTyped ==
    ASSUME NEW name \in CallNames, NEW r \in RequestsFor(name)
    PROVE  /\ r \in Requests
           /\ r.name = name
           /\ name \in InitNames => r.config \in Configs
  <1>1. /\ r \in [name : {name}, config : Configs \cup {NoConfig},
                  level : (1..MaxLevel) \cup {0}, ok : BOOLEAN]
        /\ name \in InitNames => r.config \in Configs
    BY DEF RequestsFor
  <1>2. (1..MaxLevel) \cup {0} = 0..MaxLevel
    BY LifecycleAssumption
  <1> QED BY <1>1, <1>2 DEF Requests

(* The points that calls begin at. *)
LEMMA FirstPoints ==
    ASSUME NEW name \in CallNames
    PROVE  /\ FirstPoint(name) \in Points \ (InitPoints \cup {"idle"})
           /\ FirstPoint(name) = "enter" => name \in InitNames
           /\ FirstPoint(name) = "install" => name = "init_with_max_level"
           /\ FirstPoint(name) # "set_level"
  BY DEF FirstPoint, CallNames, InitNames, QueueNames, Points, InitPoints

(* Lifecycle's inductive invariant holds at the start. *)
LEMMA InitInv == Init => IndInv
  <1> SUFFICES ASSUME Init PROVE IndInv
    OBVIOUS
  <1>1. NoRequest \in Requests
    BY LifecycleAssumption DEF NoRequest, Requests, CallNames, InitNames, QueueNames
  <1>2. TypeOK
    <2>1. 0 \in 0..MaxLevel
      BY LifecycleAssumption
    <2>2. created \in Seq(Configs)
      BY DEF Init
    <2>3. request \in [Threads -> Requests]
      BY <1>1 DEF Init
    <2> QED BY <2>1, <2>2, <2>3 DEF Init, TypeOK, Points, Outcomes
  <1>3. CellConsistent
    BY DEF Init, CellConsistent, InitPoints
  <1>4. KnownSound /\ ServedOnceKnown
    BY DEF Init, KnownSound, ServedOnceKnown
  <1> QED BY <1>2, <1>3, <1>4 DEF IndInv

(* A call begins. *)
LEMMA CallInv ==
    ASSUME IndInv, NEW t \in Threads, NEW name \in CallNames,
           NEW r \in RequestsFor(name), Call(t, r)
    PROVE  IndInv'
  <1> DEFINE p == FirstPoint(name)
  <1>1. /\ r \in Requests
        /\ r.name = name
        /\ name \in InitNames => r.config \in Configs
    BY RequestsTyped
  <1>2. /\ p \in Points \ (InitPoints \cup {"idle"})
        /\ p = "enter" => name \in InitNames
        /\ p = "install" => name = "init_with_max_level"
        /\ p # "set_level"
    BY FirstPoints
  <1>3. /\ pc' = [pc EXCEPT ![t] = p]
        /\ request' = [request EXCEPT ![t] = r]
        /\ outcome' = [outcome EXCEPT ![t] = "none"]
        /\ late' = [late EXCEPT ![t] = known]
        /\ calls' = [calls EXCEPT ![t] = @ + 1]
        /\ UNCHANGED <<cellVars, facadeVars, known>>
    BY <1>1 DEF Call
  <1> HIDE DEF p
  <1>4. TypeOK'
    BY <1>1, <1>2, <1>3 DEF IndInv, TypeOK, Outcomes, cellVars, facadeVars
  <1>5. CellConsistent'
    BY <1>1, <1>2, <1>3, "spawn" \in InitPoints, "publish" \in InitPoints
    DEF IndInv, TypeOK, CellConsistent, InitPoints, cellVars, facadeVars, Call, At
  <1>6. KnownSound'
    BY <1>1, <1>2, <1>3 DEF IndInv, TypeOK, KnownSound, InitPoints, cellVars, facadeVars
  <1>7. ServedOnceKnown'
    BY <1>3 DEF IndInv, TypeOK, ServedOnceKnown
  <1> QED BY <1>4, <1>5, <1>6, <1>7 DEF IndInv

(* A call that is not inside the closure returns: its result must be one   *)
(* that the program may rely on.                                           *)
LEMMA ReturnInv ==
    ASSUME IndInv, NEW t \in Threads, pc[t] \notin InitPoints \cup {"idle"},
           NEW value \in Outcomes, Return(t, value),
           value = "true" => cell = "set" \/ request[t].name = "init_with_max_level",
           value = "false" => ~(late[t] /\ request[t].ok),
           facade' \in BOOLEAN, max_level' \in 0..MaxLevel,
           UNCHANGED <<cellVars, callVars>>
    PROVE  IndInv'
  <1> USE DEF IndInv, cellVars, callVars, Return
  <1>1. TypeOK'
    BY DEF TypeOK, Points
  <1>2. CellConsistent'
    BY DEF TypeOK, CellConsistent, InitPoints
  <1>3. known' => cell = "set"
    BY DEF KnownSound, InitNames
  <1>4. KnownSound' /\ ServedOnceKnown'
    BY <1>3 DEF TypeOK, KnownSound, ServedOnceKnown, InitPoints
  <1> QED BY <1>1, <1>2, <1>4

(* A call that is not inside the closure goes on to another such point. *)
LEMMA GotoInv ==
    ASSUME IndInv, NEW t \in Threads, pc[t] \notin InitPoints \cup {"idle"},
           NEW point \in Points \ (InitPoints \cup {"idle", "enter"}), Goto(t, point),
           point \in {"install", "set_level"} =>
               request[t].name = "init_with_max_level",
           facade' \in BOOLEAN, max_level' \in 0..MaxLevel,
           UNCHANGED <<cellVars, callVars>>
    PROVE  IndInv'
  <1> USE DEF IndInv, cellVars, callVars, Goto
  <1>1. TypeOK'
    BY DEF TypeOK
  <1>2. CellConsistent'
    BY DEF TypeOK, CellConsistent, InitPoints
  <1>3. KnownSound' /\ ServedOnceKnown'
    BY DEF TypeOK, KnownSound, ServedOnceKnown, InitPoints
  <1> QED BY <1>1, <1>2, <1>3

(* A step inside an init. *)
LEMMA InitStepInv ==
    ASSUME IndInv, NEW t \in Threads, InitStep(t)
    PROVE  IndInv'
  <1> USE DEF IndInv, TypeOK, At, callVars, cellVars, facadeVars
  <1>1. CASE RejectPath(t)
    BY <1>1 DEF RejectPath, Return, CellConsistent, KnownSound, ServedOnceKnown,
                InitPoints, Points, Outcomes
  <1>2. CASE FindLogger(t)
    BY <1>2 DEF FindLogger, Return, CellConsistent, KnownSound, ServedOnceKnown,
                InitPoints, Points, Outcomes
  <1>3. CASE StartInit(t)
    BY <1>3 DEF StartInit, Goto, CellConsistent, KnownSound, ServedOnceKnown,
                InitPoints, Points, Outcomes
  <1>4. CASE CreateDirs(t)
    BY <1>4 DEF CreateDirs, Goto, CellConsistent, KnownSound, ServedOnceKnown,
                InitPoints, Points, Outcomes
  <1>5. CASE CreateFile(t)
    BY <1>5 DEF CreateFile, Goto, CellConsistent, KnownSound, ServedOnceKnown,
                InitPoints, Points, Outcomes
  <1>6. CASE SpawnLogThread(t)
    BY <1>6 DEF SpawnLogThread, Goto, CellConsistent, KnownSound, ServedOnceKnown,
                InitPoints, Points, Outcomes
  <1>7. CASE Publish(t)
    BY <1>7 DEF Publish, Return, CellConsistent, KnownSound, ServedOnceKnown,
                InitPoints, Points, Outcomes
  <1> QED BY <1>1, <1>2, <1>3, <1>4, <1>5, <1>6, <1>7 DEF InitStep

(* An init that panics. *)
LEMMA InitPanicsInv ==
    ASSUME IndInv, NEW t \in Threads, InitPanics(t)
    PROVE  IndInv'
  <1> USE DEF IndInv, TypeOK, At, callVars, cellVars, facadeVars, InitPanics, Return,
              Goto, InitPoints, Points, Outcomes
  <1>1. PICK point \in {"dirs", "create", "spawn"} : At(t, point)
    OBVIOUS
  <1>2. CASE request[t].name = "init_logger"
    <2>1. TypeOK'
      BY <1>1, <1>2 DEF CellConsistent
    <2>2. CellConsistent'
      BY <1>1, <1>2, ZenonT(40) DEF CellConsistent
    <2>3. KnownSound' /\ ServedOnceKnown'
      BY <1>1, <1>2 DEF CellConsistent, KnownSound, ServedOnceKnown
    <2> QED BY <2>1, <2>2, <2>3
  <1>3. CASE request[t].name # "init_logger"
    <2>1. aborted' \in BOOLEAN
          /\ UNCHANGED <<cell, logger, created, log_threads, facade, max_level, pc,
                         request, outcome, calls, known, late>>
      BY <1>1, <1>3
    <2> QED BY <2>1 DEF CellConsistent, KnownSound, ServedOnceKnown
  <1> QED BY <1>2, <1>3

(* A step of a call on the logger. *)
LEMMA UseStepInv ==
    ASSUME IndInv, NEW t \in Threads, UseStep(t)
    PROVE  IndInv'
  <1> DEFINE Outside == pc[t] \notin InitPoints \cup {"idle"}
             Kept == UNCHANGED <<cellVars, callVars>>
             TypesKept == facade' \in BOOLEAN /\ max_level' \in 0..MaxLevel
  <1>1. /\ Outside
        /\ Kept
    BY DEF UseStep, GetInited, QueueLog, Use, InstallFacade, SetMaxLevel, CheckEnabled,
           At, InitPoints, cellVars, callVars, facadeVars
  <1>2. TypesKept
    <2>1. request[t].level \in 0..MaxLevel
      BY DEF IndInv, TypeOK, Requests
    <2> QED BY <2>1 DEF UseStep, GetInited, QueueLog, Use, InstallFacade, SetMaxLevel,
                        CheckEnabled, facadeVars, IndInv, TypeOK
  <1>3. late[t] => cell = "set"
    BY DEF IndInv, KnownSound
  <1>4. \A v \in Outcomes :
            /\ Return(t, v)
            /\ v = "true" => cell = "set" \/ request[t].name = "init_with_max_level"
            /\ v = "false" => ~(late[t] /\ request[t].ok)
            => IndInv'
    BY <1>1, <1>2, ReturnInv
  <1>5. \A point \in Points \ (InitPoints \cup {"idle", "enter"}) :
            /\ Goto(t, point)
            /\ point \in {"install", "set_level"} =>
                   request[t].name = "init_with_max_level"
            => IndInv'
    BY <1>1, <1>2, GotoInv
  <1> HIDE DEF Outside, Kept, TypesKept
  <1> USE <1>3, <1>4, <1>5 DEF Outcomes, Points, InitPoints, At
  <1>6. CASE GetInited(t)
    BY <1>6 DEF GetInited
  <1>7. CASE QueueLog(t)
    BY <1>7 DEF QueueLog
  <1>8. CASE Use(t)
    BY <1>8 DEF Use
  <1>9. CASE InstallFacade(t)
    <2>1. request[t].name = "init_with_max_level"
      BY <1>9 DEF InstallFacade, IndInv, KnownSound
    <2> QED BY <1>9, <2>1 DEF InstallFacade
  <1>10. CASE SetMaxLevel(t)
    <2>1. request[t].name = "init_with_max_level"
      BY <1>10 DEF SetMaxLevel, IndInv, KnownSound
    <2> QED BY <1>10, <2>1 DEF SetMaxLevel
  <1>11. CASE CheckEnabled(t)
    BY <1>11 DEF CheckEnabled
  <1> QED BY <1>6, <1>7, <1>8, <1>9, <1>10, <1>11 DEF UseStep

(* Lifecycle's inductive invariant is inductive. *)
LEMMA NextInv == IndInv /\ [Next]_vars => IndInv'
  <1> SUFFICES ASSUME IndInv, [Next]_vars PROVE IndInv'
    OBVIOUS
  <1>1. CASE UNCHANGED vars
    BY <1>1 DEF vars, cellVars, facadeVars, IndInv, TypeOK, CellConsistent, KnownSound,
                ServedOnceKnown
  <1>2. ASSUME NEW t \in Threads, NEW name \in CallNames, NEW r \in RequestsFor(name),
               Call(t, r)
        PROVE  IndInv'
    BY <1>2, CallInv
  <1>3. ASSUME NEW t \in Threads, InitStep(t)
        PROVE  IndInv'
    BY <1>3, InitStepInv
  <1>4. ASSUME NEW t \in Threads, InitPanics(t)
        PROVE  IndInv'
    BY <1>4, InitPanicsInv
  <1>5. ASSUME NEW t \in Threads, UseStep(t)
        PROVE  IndInv'
    BY <1>5, UseStepInv
  <1> QED BY <1>1, <1>2, <1>3, <1>4, <1>5 DEF Next

(* Every state the program reaches satisfies the inductive invariant: who   *)
(* is inside the closure of init_logger, and what callers have been told.  *)
THEOREM InvariantHolds == Spec => []IndInv
  BY InitInv, NextInv, PTL DEF Spec

(* The types, for any number of threads and calls. *)
THEOREM TypeCorrect == Spec => []TypeOK
  <1>1. IndInv => TypeOK
    BY DEF IndInv
  <1> QED BY <1>1, InvariantHolds, PTL

(* Racing and failing inits never start a second log thread. *)
THEOREM OneLogThreadAlways == Spec => []OneLogThread
  <1>1. IndInv => OneLogThread
    BY DEF IndInv, CellConsistent, OneLogThread
  <1> QED BY <1>1, InvariantHolds, PTL

(* No call is refused that begins after a thread was told that the logger  *)
(* is there.                                                               *)
THEOREM ServedOnceKnownAlways == Spec => []ServedOnceKnown
  <1>1. IndInv => ServedOnceKnown
    BY DEF IndInv
  <1> QED BY <1>1, InvariantHolds, PTL

(* Once the cell is set, no step changes it, its logger or the files       *)
(* created: only a thread inside the closure could.                        *)
THEOREM FirstInitWinsAlways == Spec => FirstInitWins
  <1> DEFINE Wins == cell = "set" =>
                       /\ created # <<>> /\ created[Len(created)] = logger
                       /\ UNCHANGED <<cell, logger, created>>
  <1>1. IndInv /\ [Next]_vars => [Wins]_vars
    <2> SUFFICES ASSUME IndInv, Next, cell = "set"
                 PROVE  /\ created # <<>> /\ created[Len(created)] = logger
                        /\ UNCHANGED <<cell, logger, created>>
      OBVIOUS
    <2>1. created # <<>> /\ created[Len(created)] = logger
      BY DEF IndInv, CellConsistent
    <2>2. \A t \in Threads : pc[t] \notin InitPoints
      BY DEF IndInv, CellConsistent
    <2>3. ASSUME NEW t \in Threads, InitStep(t)
          PROVE  UNCHANGED <<cell, logger, created>>
      BY <2>2, <2>3 DEF InitStep, RejectPath, FindLogger, StartInit, CreateDirs,
                        CreateFile, SpawnLogThread, Publish, At, InitPoints, cellVars
    <2>4. ASSUME NEW t \in Threads, InitPanics(t)
          PROVE  UNCHANGED <<cell, logger, created>>
      BY <2>2, <2>4 DEF InitPanics, At, InitPoints
    <2>5. ASSUME NEW t \in Threads, UseStep(t)
          PROVE  UNCHANGED <<cell, logger, created>>
      BY <2>5 DEF UseStep, GetInited, QueueLog, Use, InstallFacade, SetMaxLevel,
                  CheckEnabled, cellVars
    <2>6. ASSUME NEW t \in Threads, NEW name \in CallNames,
                 NEW r \in RequestsFor(name), Call(t, r)
          PROVE  UNCHANGED <<cell, logger, created>>
      BY <2>6 DEF Call, cellVars
    <2> QED BY <2>1, <2>3, <2>4, <2>5, <2>6 DEF Next
  <1>2. Spec => [][Wins]_vars
    BY <1>1, InvariantHolds, PTL DEF Spec
  <1> QED BY <1>2 DEF FirstInitWins
=============================================================================
