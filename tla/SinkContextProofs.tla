-------------------------- MODULE SinkContextProofs --------------------------
(***************************************************************************)
(* Proofs about what LoggerThread hands to the sinks and writes to the     *)
(* files of the contexts, for any clients, tags, programs and bounds.      *)
(***************************************************************************)
EXTENDS LoggerThreadProofs

-----------------------------------------------------------------------------
(* The sinks. *)

(* What the step added to the record of all pushed entries. *)
Added == SubSeq(pushed', Len(pushed) + 1, Len(pushed'))

(* Every sink is promised what it was promised before, followed by what the
   step pushed. *)
KeepsPromises == \A j \in 1..Len(sinks) : PromisedTo(j)' = PromisedTo(j) \o Added

(* What is pushed, queued, taken but not delivered, delivered to a sink or
   promised to it is a sequence of entries. *)
LEMMA PromiseType ==
  ASSUME TypeOK
  PROVE  /\ queue \in Seq(Entries) /\ pushed \in Seq(Entries)
         /\ SplitLogs(queue) \in Seq(Entries) /\ Undelivered \in Seq(Entries)
         /\ \A j \in 1..Len(sinks) : /\ sinks[j] \in Seq(Entries)
                                     /\ PromisedTo(j) \in Seq(Entries)
  <1>1. /\ queue \in Seq(Entries) /\ batch \in Seq(Entries) /\ sinks \in Seq(Seq(Entries))
        /\ pushed \in Seq(Entries)
    BY DEF TypeOK
  <1>2. next \in Nat \ {0} /\ Len(batch) \in Nat
    BY DEF TypeOK
  <1>3. SubSeq(batch, next, Len(batch)) \in Seq(Entries)
    <2>1. \A i \in next..Len(batch) : batch[i] \in Entries
      BY <1>1, <1>2, ElementOfSeq
    <2> QED BY <1>2, <2>1, SubSeqProperties
  <1>4. /\ <<>> \in Seq(Entries)
        /\ SplitLogs(queue) \in Seq(Entries) /\ SplitLogs(batch) \in Seq(Entries)
    BY <1>1, EmptySeq, SplitType
  <1>5. Undelivered \in Seq(Entries)
    <2>1. CASE lpc \in {"config", "batch_lock", "batch_write"}
      BY <1>1, <1>4, <2>1 DEF Undelivered
    <2>2. CASE lpc = "backends"
      BY <1>3, <2>2 DEF Undelivered
    <2>3. CASE lpc \notin {"config", "batch_lock", "batch_write", "backends"}
      BY <1>4, <2>3 DEF Undelivered
    <2> QED BY <2>1, <2>2, <2>3
  <1>6. ASSUME NEW j \in 1..Len(sinks)
        PROVE  sinks[j] \in Seq(Entries) /\ PromisedTo(j) \in Seq(Entries)
    <2>1. sinks[j] \in Seq(Entries)
      BY <1>1, ElementOfSeq
    <2>2. sinks[j] \o Undelivered \in Seq(Entries)
      BY <1>5, <2>1, ConcatProperties
    <2>3. sinks[j] \o Undelivered \o SplitLogs(queue) \in Seq(Entries)
      BY <1>4, <2>2, ConcatProperties
    <2> QED BY <2>1, <2>3 DEF PromisedTo
  <1> QED BY <1>1, <1>4, <1>5, <1>6

(* A step that pushes nothing keeps the promises when it leaves each of
   them as it is: Added is empty. *)
LEMMA NothingAdded ==
  ASSUME TypeOK, pushed' = pushed,
         \A j \in 1..Len(sinks) : PromisedTo(j)' = PromisedTo(j)
  PROVE  KeepsPromises
  <1>1. Len(pushed) + 1 \in Int /\ Len(pushed) \in Int /\ Len(pushed) < Len(pushed) + 1
    BY PromiseType, LenProperties
  <1>2. Added = <<>>
    BY <1>1, SubSeqEmpty DEF Added
  <1> QED
    BY <1>2, PromiseType, ConcatEmptySeq DEF KeepsPromises

(* queue_log appends to the queue what it appends to the record, and the
   queue is the tail of every promise. *)
LEMMA PushPromises ==
  ASSUME TypeOK, NEW c \in Clients, Push(c)
  PROVE  KeepsPromises
  <1>1. PICK logs \in Seq(Entries) :
           queue' = queue \o logs /\ pushed' = pushed \o SplitLogs(logs)
    BY PushAdds
  <1> DEFINE d == SplitLogs(logs)
             q == SplitLogs(queue)
  <1>2. d \in Seq(Entries)
    BY SplitType
  <1>3. SplitLogs(queue') = q \o d /\ pushed' = pushed \o d
    BY <1>1, PromiseType, SplitConcat
  <1>4. sinks' = sinks /\ Undelivered' = Undelivered
    BY DEF Push, logVars, Undelivered
  <1> HIDE DEF d
  <1>5. Added = d
    BY <1>2, <1>3, PromiseType, AddedSuffix DEF Added
  <1>6. ASSUME NEW j \in 1..Len(sinks)
        PROVE  PromisedTo(j)' = PromisedTo(j) \o d
    <2> DEFINE a == sinks[j] \o Undelivered
    <2>1. a \in Seq(Entries) /\ q \in Seq(Entries)
      BY PromiseType, ConcatProperties
    <2>2. PromisedTo(j)' = a \o (q \o d) /\ PromisedTo(j) = a \o q
      BY <1>3, <1>4 DEF PromisedTo
    <2> HIDE DEF a, q
    <2>3. (a \o q) \o d = a \o (q \o d)
      BY <1>2, <2>1, ConcatAssociative, SMTT(30)
    <2> QED BY <2>2, <2>3
  <1> QED BY <1>5, <1>6 DEF KeepsPromises

(* std::mem::replace moves the queue to the batch whole: what every sink is
   promised does not change while the queue is emptied. *)
LEMMA TakePromises ==
  ASSUME TypeOK, PointsConsistent, TakeQueue
  PROVE  KeepsPromises
  <1>1. sinks' = sinks /\ pushed' = pushed /\ queue' = <<>> /\ batch' = queue
    BY DEF TakeQueue, history
  <1>2. Undelivered = <<>>
    BY DEF TakeQueue, Undelivered
  <1> DEFINE q == SplitLogs(queue)
  <1>3. Undelivered' = q /\ SplitLogs(queue') = <<>>
    <2>1. CASE queue = <<>>
      BY <1>1, <2>1, SplitNothing DEF TakeQueue, LogGoto, Undelivered
    <2>2. CASE queue # <<>>
      BY <1>1, <2>2, SplitNothing DEF TakeQueue, LogGoto, Undelivered
    <2> QED BY <2>1, <2>2
  <1>4. ASSUME NEW j \in 1..Len(sinks)
        PROVE  PromisedTo(j)' = PromisedTo(j)
    <2>1. sinks[j] \in Seq(Entries) /\ q \in Seq(Entries)
      BY PromiseType
    <2> DEFINE s == sinks[j]
               sq == s \o q
    <2>2. PromisedTo(j)' = sq \o <<>> /\ PromisedTo(j) = (s \o <<>>) \o q
      BY <1>1, <1>2, <1>3 DEF PromisedTo
    <2>3. sq \in Seq(Entries)
      BY <2>1, ConcatProperties
    <2> HIDE DEF sq
    <2>4. sq \o <<>> = sq
      BY <2>3, ConcatEmptySeq
    <2>5. s \o <<>> = s
      BY <2>1, ConcatEmptySeq
    <2> QED BY <2>2, <2>4, <2>5 DEF sq
  <1> QED BY <1>1, <1>4, NothingAdded

(* One round of the do_log loop moves the chunk at next from the
   undelivered part of the batch to the end of every registered sink, so
   the promise to each stays the same. *)
LEMMA DeliverPromises ==
  ASSUME TypeOK, DeliverToSinks
  PROVE  KeepsPromises
  <1> DEFINE e == batch[next]
             r == SubSeq(batch, next + 1, Len(batch))
             q == SplitLogs(queue)
  <1>1. next \in 1..Len(batch) /\ Len(batch) \in next..Len(batch) /\ batch \in Seq(Entries)
    BY DEF TypeOK, DeliverToSinks
  <1>2. e \in Entries
    BY <1>1, ElementOfSeq
  <1>3. r \in Seq(Entries)
    <2>1. \A i \in next + 1..Len(batch) : batch[i] \in Entries
      BY <1>1, ElementOfSeq
    <2> QED BY <1>1, <2>1, SubSeqProperties
  <1>4. Undelivered = <<e>> \o r
    <2>1. Undelivered = SubSeq(batch, next, Len(batch))
      BY DEF DeliverToSinks, Undelivered
    <2> QED BY <1>1, <2>1, SubSeqRecursiveFirst
  <1>5. Undelivered' = r /\ SplitLogs(queue') = q /\ pushed' = pushed
    BY DEF DeliverToSinks, Undelivered, history
  <1>6. ASSUME NEW j \in 1..Len(sinks)
        PROVE  PromisedTo(j)' = PromisedTo(j)
    <2>1. sinks[j] \in Seq(Entries) /\ q \in Seq(Entries)
      BY PromiseType
    <2>2. sinks'[j] = Append(sinks[j], e)
      <3>1. Len(sinks) \in Nat
        BY DEF TypeOK
      <3>2. sinks' = [i \in 1..Len(sinks) |->
                        IF i <= Len(sinks) THEN Append(sinks[i], e) ELSE sinks[i]]
        BY DEF DeliverToSinks, Delivered
      <3> HIDE DEF e
      <3>3. sinks'[j] = IF j <= Len(sinks) THEN Append(sinks[j], e) ELSE sinks[j]
        BY <3>2, Zenon
      <3>4. j <= Len(sinks)
        BY <3>1
      <3> QED BY <3>3, <3>4
    <2> DEFINE s == sinks[j]
               u == <<e>>
    <2>3. Append(s, e) = s \o u
      BY <1>2, <2>1, AppendIsConcat
    <2>4. PromisedTo(j)' = (s \o u) \o r \o q /\ PromisedTo(j) = s \o (u \o r) \o q
      BY <1>4, <1>5, <2>2, <2>3 DEF PromisedTo
    <2>5. u \in Seq(Entries)
      BY <1>2
    <2> HIDE DEF e, s, u, r, q
    <2>6. s \o (u \o r) \o q = (s \o u) \o r \o q
      <3>1. s \in Seq(Entries)
        BY <2>1 DEF s
      <3>2. u \in Seq(Entries) /\ r \in Seq(Entries) /\ q \in Seq(Entries)
        BY <1>3, <2>1, <2>5
      <3> QED BY <3>1, <3>2, WriteAccount, SMTT(30)
    <2> QED BY <2>4, <2>6
  <1> QED BY <1>5, <1>6, NothingAdded

(* A step that neither pushes, nor takes the queue, nor delivers leaves
   every promise alone: registering a sink only adds a sink, the file loop
   and the points around it leave the batch whole, and after the last
   delivery nothing of it is left. Failures are excluded by the hypothesis
   on failed. *)
LEMMA QuietPromises ==
  ASSUME TypeOK, PointsConsistent, Next, \A c \in Clients : ~Push(c),
         ~TakeQueue, ~DeliverToSinks, ~failed', lpc' # "dead"
  PROVE  KeepsPromises
  <1>1. ASSUME UNCHANGED <<queue, pushed>>, Undelivered' = Undelivered,
               \A j \in 1..Len(sinks) : sinks'[j] = sinks[j]
        PROVE  KeepsPromises
    <2>1. \A j \in 1..Len(sinks) : PromisedTo(j)' = PromisedTo(j)
      BY <1>1 DEF PromisedTo
    <2> QED BY <1>1, <2>1, NothingAdded
  <1>2. ASSUME NEW c \in Clients,
               \/ \E name \in CallNames : \E t \in TagsOf(name) : Call(c, name, t)
               \/ ClientStep(c) \/ AddContextFails(c) \/ WaitTimesOut(c)
        PROVE  KeepsPromises
    <2>1. UNCHANGED <<queue, pushed, lpc, batch, next>>
      BY <1>2 DEF Call, ClientStep, ReadLock, Signal, WaitForFlush, ClientClaim,
                  AddContext, RemoveContext, AddSink, AddContextFails, WaitTimesOut,
                  logVars, history
    <2>2. sinks' = sinks \/ sinks' = Append(sinks, <<>>)
      BY <1>2 DEF Call, ClientStep, ReadLock, Signal, WaitForFlush, ClientClaim,
                  AddContext, RemoveContext, AddSink, AddContextFails, WaitTimesOut
    <2>3. \A j \in 1..Len(sinks) : sinks'[j] = sinks[j]
      <3>1. sinks \in Seq(Seq(Entries)) /\ <<>> \in Seq(Entries)
        BY EmptySeq DEF TypeOK
      <3> QED BY <2>2, <3>1, AppendProperties
    <2>4. Undelivered' = Undelivered
      BY <2>1 DEF Undelivered
    <2> QED BY <1>1, <2>1, <2>3, <2>4
  <1>3. CASE ReadConfig
    <2>1. UNCHANGED <<queue, pushed, sinks>>
      BY <1>3 DEF ReadConfig, shared, history
    <2>2. Undelivered' = Undelivered
      BY <1>3, lpc' # "dead" DEF ReadConfig, LogGoto, Undelivered
    <2> QED BY <1>1, <2>1, <2>2
  <1>3a. CASE LogClaim \/ BatchWrite
    <2>1. UNCHANGED <<queue, pushed, sinks, batch>>
      BY <1>3a DEF LogClaim, BatchWrite, history
    <2>2. Undelivered' = Undelivered
      BY <1>3a DEF LogClaim, BatchWrite, LogGoto, Undelivered
    <2> QED BY <1>1, <2>1, <2>2
  <1>4. CASE BatchWritten
    <2>1. UNCHANGED <<queue, pushed, sinks, batch>>
      BY <1>4 DEF BatchWritten, history
    <2>2. Undelivered = batch /\ Undelivered' = SubSeq(batch, 1, Len(batch))
      BY <1>4 DEF BatchWritten, LogGoto, Undelivered
    <2>3. batch \in Seq(Entries)
      BY DEF TypeOK
    <2>4. Undelivered' = Undelivered
      BY <2>2, <2>3, SubSeqFull
    <2> QED BY <1>1, <2>1, <2>4
  <1>5. CASE BackendsDone
    <2>1. UNCHANGED <<queue, pushed, sinks, batch>>
      BY <1>5 DEF BackendsDone, shared, history
    <2>2. next \in Int /\ Len(batch) \in Int /\ Len(batch) < next
      BY <1>5 DEF BackendsDone, TypeOK
    <2>3. Undelivered = <<>>
      BY <1>5, <2>2, SubSeqEmpty DEF BackendsDone, Undelivered
    <2>4. Undelivered' = <<>>
      BY <1>5 DEF BackendsDone, LogGoto, Undelivered
    <2> QED BY <1>1, <2>1, <2>3, <2>4
  <1>6. CASE \/ CheckFlush \/ FlushGlobal \/ (\E t \in Tags : FlushContext(t))
             \/ FlushDone \/ CheckWait \/ Wake
    <2>1. UNCHANGED <<queue, pushed, sinks>>
      BY <1>6 DEF CheckFlush, FlushGlobal, FlushContext, FlushDone, CheckWait, Wake,
                  shared, history
    <2>2. /\ lpc \in {"check_flush", "flush_global", "flush_contexts", "check_wait", "wait"}
          /\ lpc' \notin {"config", "batch_lock", "batch_write", "backends"}
      BY <1>6 DEF CheckFlush, FlushGlobal, FlushContext, FlushDone, CheckWait, Wake, LogGoto
    <2>3. Undelivered = <<>> /\ Undelivered' = <<>>
      BY <2>2 DEF Undelivered
    <2> QED BY <1>1, <2>1, <2>3
  <1>7. ~LogFailure
    BY DEF LogFailure, BatchWriteFails, SinkFails, FlushFails, LogGoto
  <1>8. ~ErrorStep
    <2>1. lpc \in ErrorPoints => failed
      BY DEF PointsConsistent
    <2> QED BY <2>1 DEF ErrorStep, ErrorWrite, ErrorToSinks, ErrorPoints
  <1> QED
    BY <1>2, <1>3, <1>3a, <1>4, <1>5, <1>6, <1>7, <1>8 DEF Next, LogStep

(* Every registered sink receives, each once and in the order they were    *)
(* pushed, the chunks not yet delivered when it was registered and all     *)
(* later ones, until the log thread fails: whoever takes the write guard   *)
(* between two read guards of sink_logger, the promise after a step is the *)
(* one before it followed by the chunks of what the step pushed.           *)
THEOREM SinksInOrderAlways == Spec => SinksInOrder
  <1>1. ASSUME TypeOK, PointsConsistent, [Next]_vars
        PROVE  [~failed' /\ lpc' # "dead" => KeepsPromises]_vars
    <2>1. CASE UNCHANGED vars
      BY <2>1
    <2>2. ASSUME Next, ~failed', lpc' # "dead" PROVE KeepsPromises
      BY <1>1, <2>2, PushPromises, TakePromises, DeliverPromises, QuietPromises
    <2> QED BY <1>1, <2>1, <2>2
  <1>2. [~failed' /\ lpc' # "dead" => KeepsPromises]_vars
           <=> [~failed' /\ lpc' # "dead" =>
                  \A j \in 1..Len(sinks) :
                     PromisedTo(j)' =
                        PromisedTo(j) \o SubSeq(pushed', Len(pushed) + 1, Len(pushed'))]_vars
    BY DEF KeepsPromises, Added
  <1>3. Spec => [](TypeOK /\ PointsConsistent)
    BY TypeCorrect
  <1> QED BY <1>1, <1>2, <1>3, PTL DEF Spec, SinksInOrder

-----------------------------------------------------------------------------
(* Filtering by a tag. *)

(* f[i] is what filtering by t keeps of the first i entries of seq. *)
Kept(f, t, seq, S) ==
    /\ f \in [0..Len(seq) -> Seq(S)]
    /\ TaggedWith(t, seq) = f[Len(seq)]
    /\ f[0] = <<>>
    /\ \A i \in 1..Len(seq) :
          f[i] = IF seq[i].tag = t THEN Append(f[i - 1], seq[i]) ELSE f[i - 1]

(* TaggedWith is the last value of a function f that keeps an entry when
   its tag is t, defined on every prefix: the choice in the recursive
   definition of TaggedWith is of this function and no other. *)
LEMMA TaggedRecursive ==
  ASSUME NEW S, NEW seq \in Seq(S), NEW t
  PROVE  \E f : Kept(f, t, seq, S)
  <1> DEFINE n == Len(seq)
             X == Seq(S)
             F == [p \in (1..n) \X X |->
                      IF seq[p[1]].tag = t THEN Append(p[2], seq[p[1]]) ELSE p[2]]
             Step(f, i) == IF i = 0 THEN <<>>
                           ELSE IF seq[i].tag = t THEN Append(f[i - 1], seq[i])
                           ELSE f[i - 1]
             kept == CHOOSE f : f = [i \in 0..n |-> Step(f, i)]
  <1>1. n \in Nat /\ <<>> \in X
    BY EmptySeq
  <1>2. F \in [(1..n) \X X -> X]
    <2>1. ASSUME NEW p \in (1..n) \X X
          PROVE  (IF seq[p[1]].tag = t THEN Append(p[2], seq[p[1]]) ELSE p[2]) \in X
      <3>1. p[1] \in 1..n /\ p[2] \in X
        OBVIOUS
      <3>2. seq[p[1]] \in S
        BY <3>1, ElementOfSeq
      <3> QED BY <3>1, <3>2, AppendProperties
    <2> QED BY <2>1
  <1>3. \A i \in 1..n : \A x \in X :
           F[<<i, x>>] = IF seq[i].tag = t THEN Append(x, seq[i]) ELSE x
    OBVIOUS
  <1> HIDE DEF F, X, n
  <1>3a. PICK f : Recursive(f, X, <<>>, n, F)
    <2>1. IsRecursion(X, <<>>, n, F)
      BY <1>1, <1>2 DEF IsRecursion
    <2> QED BY <2>1, RecursiveExists
  <1>4. /\ f \in [0..n -> X]
        /\ f[0] = <<>> /\ \A i \in 1..n : f[i] = F[<<i, f[i - 1]>>]
    BY <1>3a DEF Recursive
  <1>5. \A i \in 1..n : f[i] = IF seq[i].tag = t THEN Append(f[i - 1], seq[i]) ELSE f[i - 1]
    <2> TAKE i \in 1..n
    <2>1. i - 1 \in 0..n
      BY <1>1
    <2>2. f[i - 1] \in X
      BY <1>4, <2>1
    <2> QED BY <1>3, <1>4, <2>2
  <1>6. f = [i \in 0..n |-> Step(f, i)]
    <2>1. \A i \in 0..n : f[i] = Step(f, i)
      <3> TAKE i \in 0..n
      <3>1. CASE i = 0
        BY <1>4, <3>1
      <3>2. CASE i # 0
        <4>1. i \in 1..n
          BY <1>1, <3>2
        <4> QED BY <1>5, <3>2, <4>1
      <3> QED BY <3>1, <3>2
    <2> QED BY <1>4, <2>1
  <1>7. kept = [i \in 0..n |-> Step(kept, i)]
    BY <1>6
  <1>8. TaggedWith(t, seq) = kept[n]
    BY DEF TaggedWith, n
  <1> HIDE DEF kept
  <1>9. \A i \in 0..n : kept[i] = f[i]
    <2>1. \A i \in 0..n : kept[i] = Step(kept, i)
      BY <1>7
    <2>2. kept[0] = f[0]
      <3>1. 0 \in 0..n
        BY <1>1
      <3> QED BY <1>4, <2>1, <3>1
    <2>3. ASSUME NEW i \in 1..n, kept[i - 1] = f[i - 1] PROVE kept[i] = f[i]
      <3>1. i \in 0..n /\ i # 0
        BY <1>1
      <3> QED BY <1>5, <2>1, <2>3, <3>1
    <2>4. AlikeStepwise(kept, f, n)
      BY <1>1, <2>2, <2>3 DEF AlikeStepwise
    <2>5. AlikeUpTo(kept, f, n)
      BY <2>4, AlikeByInduction
    <2> QED BY <2>5 DEF AlikeUpTo
  <1>10. n \in 0..n
    BY <1>1
  <1> QED BY <1>4, <1>5, <1>8, <1>9, <1>10 DEF n, X, Kept

(* Filtering by a tag, one entry more: it is kept at the end when it has
   the tag, as do_log_batch writes an entry to the file of its own tag. *)
LEMMA TaggedAppend ==
  ASSUME NEW S, NEW seq \in Seq(S), NEW e \in S, NEW t
  PROVE  /\ TaggedWith(t, seq) \in Seq(S)
         /\ TaggedWith(t, Append(seq, e)) =
               IF e.tag = t THEN Append(TaggedWith(t, seq), e) ELSE TaggedWith(t, seq)
  <1> DEFINE n == Len(seq)
             more == Append(seq, e)
  <1>1. /\ n \in Nat /\ more \in Seq(S) /\ Len(more) = n + 1
        /\ more[n + 1] = e /\ \A i \in 1..n : more[i] = seq[i]
    BY AppendProperties, LenProperties
  <1>2. PICK f : Kept(f, t, seq, S)
    BY TaggedRecursive
  <1> HIDE DEF more
  <1>3. PICK g : Kept(g, t, more, S)
    BY <1>1, TaggedRecursive
  <1>a. /\ f \in [0..n -> Seq(S)] /\ TaggedWith(t, seq) = f[n] /\ f[0] = <<>>
        /\ \A i \in 1..n :
              f[i] = IF seq[i].tag = t THEN Append(f[i - 1], seq[i]) ELSE f[i - 1]
    BY <1>2 DEF Kept
  <1>b. /\ g \in [0..(n + 1) -> Seq(S)] /\ TaggedWith(t, more) = g[n + 1] /\ g[0] = <<>>
        /\ \A i \in 1..(n + 1) :
              g[i] = IF more[i].tag = t THEN Append(g[i - 1], more[i]) ELSE g[i - 1]
    BY <1>1, <1>3 DEF Kept
  <1> HIDE DEF n
  <1>4. ASSUME NEW i \in 1..n, f[i - 1] = g[i - 1] PROVE f[i] = g[i]
    <2>1. i \in 1..(n + 1) /\ more[i] = seq[i]
      BY <1>1
    <2> QED BY <1>a, <1>b, <1>4, <2>1
  <1>5. \A i \in 0..n : f[i] = g[i]
    <2>1. AlikeStepwise(f, g, n)
      BY <1>1, <1>a, <1>b, <1>4 DEF AlikeStepwise
    <2>2. AlikeUpTo(f, g, n)
      BY <2>1, AlikeByInduction
    <2> QED BY <2>2 DEF AlikeUpTo
  <1>6. n \in 0..n /\ n + 1 \in 1..(n + 1) /\ (n + 1) - 1 = n
    BY <1>1
  <1>7. g[n] = f[n] /\ f[n] \in Seq(S)
    BY <1>5, <1>6, <1>a
  <1>8. g[n + 1] = IF more[n + 1].tag = t THEN Append(g[(n + 1) - 1], more[n + 1])
                   ELSE g[(n + 1) - 1]
    BY <1>b, <1>6
  <1>9. g[n + 1] = IF e.tag = t THEN Append(f[n], e) ELSE f[n]
    BY <1>1, <1>6, <1>7, <1>8
  <1> QED BY <1>a, <1>b, <1>7, <1>9 DEF more

(* Nothing is kept of the empty sequence. *)
LEMMA TaggedEmpty ==
  ASSUME NEW t
  PROVE  TaggedWith(t, <<>>) = <<>>
  <1>1. <<>> \in Seq({}) /\ Len(<<>>) = 0
    BY EmptySeq
  <1>2. PICK f : Kept(f, t, <<>>, {})
    BY <1>1, TaggedRecursive
  <1> QED BY <1>1, <1>2 DEF Kept

(* The lines since a context was created, filtered by its tag, when the
   global log gets one more line: do_log_batch writes every line to the global
   file and then to the file of the tag. *)
LEMMA FilterAppend ==
  ASSUME NEW S, NEW g \in Seq(S), NEW e \in S, NEW s \in Nat, s <= Len(g), NEW t
  PROVE  TaggedWith(t, SubSeq(g \o <<e>>, s + 1, Len(g \o <<e>>))) =
            IF e.tag = t THEN Append(TaggedWith(t, SubSeq(g, s + 1, Len(g))), e)
            ELSE TaggedWith(t, SubSeq(g, s + 1, Len(g)))
  <1> DEFINE old == SubSeq(g, s + 1, Len(g))
  <1>1. /\ old \in Seq(S)
        /\ SubSeq(g \o <<e>>, s + 1, Len(g \o <<e>>)) = Append(old, e)
    BY SuffixAppend
  <1> HIDE DEF old
  <1>2. TaggedWith(t, Append(old, e)) =
           IF e.tag = t THEN Append(TaggedWith(t, old), e) ELSE TaggedWith(t, old)
    BY <1>1, TaggedAppend
  <1> QED BY <1>1, <1>2 DEF old

-----------------------------------------------------------------------------
(* What each step does to the file and the writer of a context. *)

(* The step touches neither the file nor the writer of t. *)
CtxSame(t) ==
    /\ disk'[PathOf[t]] = disk[PathOf[t]]
    /\ context_map'[t] = context_map[t]
    /\ since'[t] = since[t]

(* The BufWriter of t writes a part of its buffer to its file. *)
CtxDrains(t) ==
    /\ context_map[t] # NoFile
    /\ \E k \in 0..Len(context_map[t].buf) :
           /\ disk'[PathOf[t]] = DrainedCells(disk[PathOf[t]], context_map[t], k)
           /\ context_map'[t] = Drained(context_map[t], k)
    /\ since'[t] = since[t]

(* The BufWriter of t, after making room, takes the entry e. *)
CtxWrites(t, e) ==
    /\ context_map[t] # NoFile
    /\ \E k \in 0..Len(context_map[t].buf) :
           /\ disk'[PathOf[t]] = DrainedCells(disk[PathOf[t]], context_map[t], k)
           /\ context_map'[t] = Buffered(Drained(context_map[t], k), e)
    /\ since'[t] = since[t]

(* remove_context drops the BufWriter of t, which drains it as far as the
   writes succeed. *)
CtxRemoved(t) ==
    /\ context_map[t] # NoFile
    /\ \E k \in DropCounts(context_map[t]) :
           disk'[PathOf[t]] = DrainedCells(disk[PathOf[t]], context_map[t], k)
    /\ context_map'[t] = NoFile

(* add_context truncates the file of t and gives it a new BufWriter. *)
CtxCreated(t) ==
    /\ \E c \in Clients : cpc[c] = "r_create" /\ tag[c] = t
    /\ disk'[PathOf[t]] = <<>>
    /\ context_map'[t] = NewWriter
    /\ since'[t] = Len(GlobalLines)

(* do_log_batch writes an entry to the file of its tag when that tag is
   registered, and touches the file of no other tag. *)
LEMMA WriteEntryCtx ==
  ASSUME FilesTyped, GlobalPathPrivate, OwnFiles, since' = since,
         NEW e \in Entries, WriteEntry(e), NEW t \in Tags
  PROVE  IF HasContext(e) /\ e.tag = t THEN CtxWrites(t, e) ELSE CtxSame(t)
  <1> DEFINE d(g) == [disk EXCEPT ![GlobalPath] = DrainedCells(@, global_file, g)]
  <1>1. PICK g :
           \/ ~HasContext(e) /\ disk' = d(g) /\ UNCHANGED context_map
           \/ /\ HasContext(e)
              /\ \E k \in SpillCounts(context_map[e.tag]) :
                    /\ disk' = [d(g) EXCEPT ![PathOf[e.tag]] =
                                   DrainedCells(@, context_map[e.tag], k)]
                    /\ context_map' = [context_map EXCEPT ![e.tag] =
                                   Buffered(Drained(context_map[e.tag], k), e)]
    BY DEF WriteEntry
  <1>2. /\ \A u \in Tags : PathOf[u] \in Paths /\ d(g)[PathOf[u]] = disk[PathOf[u]]
        /\ d(g) \in [Paths -> UNION {{d(g)[p]} : p \in Paths}]
    BY DEF FilesTyped, Paths, GlobalPathPrivate
  <1>3. context_map \in [Tags -> Writers \cup {NoFile}]
    BY DEF FilesTyped
  <1> HIDE DEF d
  <1>4. CASE ~HasContext(e)
    BY <1>1, <1>2, <1>4 DEF CtxSame
  <1>5. CASE HasContext(e)
    <2>1. e.tag \in Tags /\ context_map[e.tag] # NoFile
      BY <1>5 DEF HasContext
    <2>2. PICK k \in SpillCounts(context_map[e.tag]) :
             /\ disk' = [d(g) EXCEPT ![PathOf[e.tag]] =
                            DrainedCells(@, context_map[e.tag], k)]
             /\ context_map' = [context_map EXCEPT ![e.tag] =
                            Buffered(Drained(context_map[e.tag], k), e)]
      BY <1>1, <1>5
    <2>3. k \in 0..Len(context_map[e.tag].buf)
      <3>1. context_map[e.tag] \in Writers
        BY <1>3, <2>1
      <3> QED BY <3>1, CountsType
    <2>4. CASE e.tag = t
      <3>1. disk'[PathOf[t]] = DrainedCells(disk[PathOf[t]], context_map[t], k)
        BY <1>2, <2>1, <2>2, <2>4
      <3>2. context_map'[t] = Buffered(Drained(context_map[t], k), e)
        BY <1>3, <2>2, <2>4
      <3> QED BY <1>5, <2>1, <2>3, <2>4, <3>1, <3>2 DEF CtxWrites
    <2>5. CASE e.tag # t
      <3>1. PathOf[e.tag] # PathOf[t]
        BY <2>1, <2>5 DEF OwnFiles
      <3>2. disk'[PathOf[t]] = disk[PathOf[t]]
        BY <1>2, <2>2, <3>1
      <3>3. context_map'[t] = context_map[t]
        BY <1>3, <2>2, <2>5
      <3> QED BY <2>5, <3>2, <3>3 DEF CtxSame
    <2> QED BY <2>4, <2>5
  <1> QED BY <1>4, <1>5

(* A do_log_batch that returns an error has at most drained the writer of the
   tag: the entry is in no file of a context. *)
LEMMA WriteEntryFailsCtx ==
  ASSUME FilesTyped, GlobalPathPrivate, OwnFiles, since' = since,
         NEW e \in Entries, WriteEntryFails(e), NEW t \in Tags
  PROVE  CtxSame(t) \/ CtxDrains(t)
  <1> DEFINE d(g) == [disk EXCEPT ![GlobalPath] = DrainedCells(@, global_file, g)]
  <1>1. PICK g :
           \/ disk' = d(g) /\ UNCHANGED context_map
           \/ /\ HasContext(e)
              /\ \E k \in FailedWriteCounts(context_map[e.tag]) :
                    /\ disk' = [d(g) EXCEPT ![PathOf[e.tag]] =
                                   DrainedCells(@, context_map[e.tag], k)]
                    /\ context_map' = [context_map EXCEPT ![e.tag] =
                                   Drained(context_map[e.tag], k)]
    BY DEF WriteEntryFails
  <1>2. /\ \A u \in Tags : PathOf[u] \in Paths /\ d(g)[PathOf[u]] = disk[PathOf[u]]
        /\ d(g) \in [Paths -> UNION {{d(g)[p]} : p \in Paths}]
    BY DEF FilesTyped, Paths, GlobalPathPrivate
  <1>3. context_map \in [Tags -> Writers \cup {NoFile}]
    BY DEF FilesTyped
  <1> HIDE DEF d
  <1>4. CASE disk' = d(g) /\ UNCHANGED context_map
    BY <1>2, <1>4 DEF CtxSame
  <1>5. CASE /\ HasContext(e)
             /\ \E k \in FailedWriteCounts(context_map[e.tag]) :
                    /\ disk' = [d(g) EXCEPT ![PathOf[e.tag]] =
                                   DrainedCells(@, context_map[e.tag], k)]
                    /\ context_map' = [context_map EXCEPT ![e.tag] =
                                   Drained(context_map[e.tag], k)]
    <2>1. e.tag \in Tags /\ context_map[e.tag] # NoFile
      BY <1>5 DEF HasContext
    <2>2. PICK k \in FailedWriteCounts(context_map[e.tag]) :
             /\ disk' = [d(g) EXCEPT ![PathOf[e.tag]] =
                            DrainedCells(@, context_map[e.tag], k)]
             /\ context_map' = [context_map EXCEPT ![e.tag] =
                            Drained(context_map[e.tag], k)]
      BY <1>5
    <2>3. k \in 0..Len(context_map[e.tag].buf)
      <3>1. context_map[e.tag] \in Writers
        BY <1>3, <2>1
      <3> QED BY <3>1, CountsType
    <2>4. CASE e.tag = t
      <3>1. disk'[PathOf[t]] = DrainedCells(disk[PathOf[t]], context_map[t], k)
        BY <1>2, <2>1, <2>2, <2>4
      <3>2. context_map'[t] = Drained(context_map[t], k)
        BY <1>3, <2>2, <2>4
      <3> QED BY <1>5, <2>1, <2>3, <2>4, <3>1, <3>2 DEF CtxDrains
    <2>5. CASE e.tag # t
      <3>1. PathOf[e.tag] # PathOf[t]
        BY <2>1, <2>5 DEF OwnFiles
      <3>2. disk'[PathOf[t]] = disk[PathOf[t]]
        BY <1>2, <2>2, <3>1
      <3>3. context_map'[t] = context_map[t]
        BY <1>3, <2>2, <2>5
      <3> QED BY <2>5, <3>2, <3>3 DEF CtxSame
    <2> QED BY <2>4, <2>5
  <1> QED BY <1>1, <1>4, <1>5

(* add_context creates the file of its tag and leaves the others alone. The
   BufWriter it replaces is dropped after the file was truncated, and
   RegistersFlushed says that it holds nothing then. *)
LEMMA AddContextCtx ==
  ASSUME TypeOK, PointsConsistent, OwnFiles, RegistersFlushed,
         NEW c \in Clients, AddContext(c), NEW t \in Tags
  PROVE  CtxSame(t) \/ CtxCreated(t)
  <1> DEFINE u == tag[c]
             old == IF context_map[u] = NoFile THEN NewWriter ELSE context_map[u]
  <1>0. /\ disk \in [Paths -> Seq(Cells)] /\ context_map \in [Tags -> Writers \cup {NoFile}]
        /\ since \in [Tags -> Nat]
    BY TypeSplit DEF FilesTyped, RestTyped
  <1>1. u \in Tags /\ PathOf[u] \in Paths /\ PathOf[t] \in Paths
    BY DEF AddContext, PointsConsistent, Paths
  <1>2. old \in Writers /\ old.buf = <<>>
    <2>1. CASE context_map[u] = NoFile
      BY <2>1, NewWriterType DEF NewWriter
    <2>2. CASE context_map[u] # NoFile
      BY <1>0, <1>1, <2>2 DEF RegistersFlushed, FileFlushed, AddContext
    <2> QED BY <2>1, <2>2
  <1>3. PICK k \in DropCounts(old) :
           disk' = [disk EXCEPT ![PathOf[u]] = DrainedCells(<<>>, old, k)]
    BY DEF AddContext
  <1>4. /\ context_map' = [context_map EXCEPT ![u] = NewWriter]
        /\ since' = [since EXCEPT ![u] = Len(GlobalLines)]
    BY DEF AddContext
  <1> HIDE DEF old
  <1>5. k = 0
    <2>1. Len(old.buf) = 0
      BY <1>2, EmptySeq
    <2> QED BY <2>1 DEF DropCounts
  <1>6. DrainedCells(<<>>, old, k) = <<>>
    <2>1. SubSeq(old.buf, 1, k) = <<>>
      BY <1>5, SubSeqEmpty
    <2> QED BY <2>1 DEF DrainedCells, WriteAt
  <1> HIDE DEF u
  <1>7. CASE t = u
    <2>1. \E b \in Clients : cpc[b] = "r_create" /\ tag[b] = t
      BY <1>7 DEF AddContext, u
    <2>2. disk'[PathOf[t]] = <<>> /\ context_map'[t] = NewWriter
            /\ since'[t] = Len(GlobalLines)
      BY <1>0, <1>1, <1>3, <1>4, <1>6, <1>7
    <2> QED BY <2>1, <2>2 DEF CtxCreated
  <1>8. CASE t # u
    <2>1. PathOf[t] # PathOf[u]
      BY <1>1, <1>8 DEF OwnFiles
    <2> QED BY <1>0, <1>1, <1>3, <1>4, <1>8, <2>1 DEF CtxSame
  <1> QED BY <1>7, <1>8

(* remove_context drops the writer of its tag, when there is one, and
   leaves the others alone. *)
LEMMA RemoveContextCtx ==
  ASSUME TypeOK, PointsConsistent, OwnFiles,
         NEW c \in Clients, RemoveContext(c), NEW t \in Tags
  PROVE  CtxSame(t) \/ CtxRemoved(t)
  <1> DEFINE u == tag[c]
  <1>0. /\ disk \in [Paths -> Seq(Cells)] /\ context_map \in [Tags -> Writers \cup {NoFile}]
    BY TypeSplit DEF FilesTyped
  <1>1. u \in Tags /\ PathOf[u] \in Paths /\ PathOf[t] \in Paths
    BY DEF RemoveContext, PointsConsistent, Paths
  <1>2. since' = since
    BY DEF RemoveContext, history
  <1>3. CASE UNCHANGED <<disk, context_map>>
    BY <1>2, <1>3 DEF CtxSame
  <1>4. CASE /\ context_map[u] # NoFile
             /\ \E k \in DropCounts(context_map[u]) :
                   disk' = [disk EXCEPT ![PathOf[u]] = DrainedCells(@, context_map[u], k)]
             /\ context_map' = [context_map EXCEPT ![u] = NoFile]
    <2>1. PICK k \in DropCounts(context_map[u]) :
             disk' = [disk EXCEPT ![PathOf[u]] = DrainedCells(@, context_map[u], k)]
      BY <1>4
    <2> HIDE DEF u
    <2>2. CASE t = u
      <3>1. disk'[PathOf[t]] = DrainedCells(disk[PathOf[t]], context_map[t], k)
        BY <1>0, <1>1, <2>1, <2>2
      <3>2. context_map'[t] = NoFile /\ context_map[t] # NoFile
        BY <1>0, <1>4, <2>2
      <3>3. k \in DropCounts(context_map[t])
        BY <2>2
      <3> QED BY <3>1, <3>2, <3>3 DEF CtxRemoved
    <2>3. CASE t # u
      <3>1. PathOf[t] # PathOf[u]
        BY <1>1, <2>3 DEF OwnFiles
      <3> QED BY <1>0, <1>1, <1>2, <1>4, <2>1, <2>3, <3>1 DEF CtxSame
    <2> QED BY <2>2, <2>3
  <1> QED BY <1>3, <1>4 DEF RemoveContext

(* Draining the writer of one tag touches the file of no other tag. *)
LEMMA DrainCtx ==
  ASSUME FilesTyped, OwnFiles, since' = since,
         NEW u \in Tags, context_map[u] # NoFile, NEW k \in 0..Len(context_map[u].buf),
         disk' = [disk EXCEPT ![PathOf[u]] = DrainedCells(@, context_map[u], k)],
         context_map' = [context_map EXCEPT ![u] = Drained(context_map[u], k)],
         NEW t \in Tags
  PROVE  CtxSame(t) \/ CtxDrains(t)
  <1>1. PathOf[u] \in Paths /\ PathOf[t] \in Paths
    BY DEF Paths
  <1>2. CASE t = u
    <2>1. disk'[PathOf[t]] = DrainedCells(disk[PathOf[t]], context_map[t], k)
      BY <1>1, <1>2 DEF FilesTyped
    <2>2. context_map'[t] = Drained(context_map[t], k)
      BY <1>2 DEF FilesTyped
    <2> QED BY <1>2, <2>1, <2>2 DEF CtxDrains
  <1>3. CASE t # u
    <2>1. PathOf[t] # PathOf[u]
      BY <1>3 DEF OwnFiles
    <2> QED BY <1>1, <1>3, <2>1 DEF CtxSame, FilesTyped
  <1> QED BY <1>2, <1>3

(* The flush of the global file, of one context, or one that fails only
   drains writers. *)
LEMMA FlushCtx ==
  ASSUME FilesTyped, todo \subseteq Tags, PointsConsistent, GlobalPathPrivate, OwnFiles,
         \/ FlushGlobal \/ FlushFails \/ (\E u \in Tags : FlushContext(u)),
         NEW t \in Tags
  PROVE  CtxSame(t) \/ CtxDrains(t)
  <1>0. since' = since
    BY DEF FlushGlobal, FlushFails, FlushContext, history
  <1>1. ASSUME NEW k, context_map' = context_map,
               disk' = [disk EXCEPT ![GlobalPath] = DrainedCells(@, global_file, k)]
        PROVE  CtxSame(t)
    <2>1. PathOf[t] \in Paths /\ PathOf[t] # GlobalPath
      BY DEF Paths, GlobalPathPrivate
    <2> QED BY <1>0, <1>1, <2>1 DEF CtxSame, FilesTyped
  <1>2. CASE FlushGlobal
    BY <1>1, <1>2 DEF FlushGlobal
  <1>3. ASSUME NEW u \in Tags, FlushContext(u)
        PROVE  CtxSame(t) \/ CtxDrains(t)
    <2>1. context_map[u] # NoFile /\ context_map[u] \in Writers
      BY <1>3 DEF FlushContext, PointsConsistent, FilesTyped
    <2>2. Len(context_map[u].buf) \in 0..Len(context_map[u].buf)
      <3>1. Len(context_map[u].buf) \in Nat
        BY <2>1 DEF Writers
      <3> QED BY <3>1
    <2> QED BY <1>0, <1>3, <2>1, <2>2, DrainCtx DEF FlushContext
  <1>4. CASE FlushFails
    <2>1. CASE /\ \E k \in FailedFlushCounts(global_file) :
                     disk' = [disk EXCEPT ![GlobalPath] = DrainedCells(@, global_file, k)]
               /\ UNCHANGED context_map
      BY <1>1, <2>1
    <2>2. CASE \E u \in todo : \E k \in FailedFlushCounts(context_map[u]) :
                 /\ disk' = [disk EXCEPT ![PathOf[u]] = DrainedCells(@, context_map[u], k)]
                 /\ context_map' = [context_map EXCEPT ![u] = Drained(context_map[u], k)]
      <3>1. PICK u \in todo : \E k \in FailedFlushCounts(context_map[u]) :
                 /\ disk' = [disk EXCEPT ![PathOf[u]] = DrainedCells(@, context_map[u], k)]
                 /\ context_map' = [context_map EXCEPT ![u] = Drained(context_map[u], k)]
        BY <2>2
      <3>2. u \in Tags /\ context_map[u] # NoFile /\ context_map[u] \in Writers
        BY DEF PointsConsistent, FilesTyped
      <3>3. PICK k \in FailedFlushCounts(context_map[u]) :
                 /\ disk' = [disk EXCEPT ![PathOf[u]] = DrainedCells(@, context_map[u], k)]
                 /\ context_map' = [context_map EXCEPT ![u] = Drained(context_map[u], k)]
        BY <3>1
      <3>4. k \in 0..Len(context_map[u].buf)
        BY <3>2, CountsType
      <3> QED BY <1>0, <3>2, <3>3, <3>4, DrainCtx
    <2> QED BY <1>4, <2>1, <2>2 DEF FlushFails
  <1> QED BY <1>2, <1>3, <1>4

(* Every step but the writing of an entry leaves a tag's file and writer
   alone, drains, drops or creates them. *)
LEMMA QuietCtx ==
  ASSUME TypeOK, PointsConsistent, GlobalPathPrivate, OwnFiles, RegistersFlushed,
         Next, ~BatchWrite, ~BatchWriteFails, ~ErrorWrite, NEW t \in Tags
  PROVE  CtxSame(t) \/ CtxDrains(t) \/ CtxRemoved(t) \/ CtxCreated(t)
  <1>0. FilesTyped /\ todo \subseteq Tags
    BY TypeSplit DEF RestTyped
  <1>1. ASSUME UNCHANGED <<disk, context_map, since>> PROVE CtxSame(t)
    BY <1>1 DEF CtxSame
  <1>2. ASSUME NEW c \in Clients, AddContext(c) \/ RemoveContext(c)
        PROVE  CtxSame(t) \/ CtxRemoved(t) \/ CtxCreated(t)
    BY <1>2, AddContextCtx, RemoveContextCtx
  <1>3. ASSUME NEW c \in Clients,
               \/ \E name \in CallNames : \E u \in TagsOf(name) : Call(c, name, u)
               \/ ReadLock(c) \/ Push(c) \/ Signal(c) \/ WaitForFlush(c) \/ ClientClaim(c)
               \/ AddSink(c) \/ AddContextFails(c) \/ WaitTimesOut(c)
        PROVE  CtxSame(t)
    <2>1. UNCHANGED <<disk, context_map, since>>
      BY <1>3 DEF Call, ReadLock, Push, Signal, WaitForFlush, ClientClaim, AddSink,
                  AddContextFails, WaitTimesOut, files, history
    <2> QED BY <1>1, <2>1
  <1>4. CASE \/ TakeQueue \/ ReadConfig \/ LogClaim \/ BatchWritten \/ DeliverToSinks
             \/ BackendsDone \/ CheckFlush \/ FlushDone \/ CheckWait \/ Wake
             \/ SinkFails \/ ErrorToSinks
    <2>1. UNCHANGED <<disk, context_map, since>>
      BY <1>4 DEF TakeQueue, ReadConfig, LogClaim, BatchWritten, DeliverToSinks,
                  BackendsDone, CheckFlush, FlushDone, CheckWait, Wake, SinkFails,
                  ErrorToSinks, shared, files, history
    <2> QED BY <1>1, <2>1
  <1>5. CASE FlushGlobal \/ FlushFails \/ (\E u \in Tags : FlushContext(u))
    BY <1>0, <1>5, FlushCtx
  <1> QED
    BY <1>2, <1>3, <1>4, <1>5 DEF Next, ClientStep, LogStep, LogFailure, ErrorStep

(* Every step of the system does one of the five things to a tag. *)
LEMMA StepCtx ==
  ASSUME TypeOK, PointsConsistent, GlobalPathPrivate, OwnFiles, RegistersFlushed,
         Next, NEW t \in Tags
  PROVE  \/ CtxSame(t) \/ CtxDrains(t) \/ CtxRemoved(t) \/ CtxCreated(t)
         \/ \E e \in Entries : CtxWrites(t, e)
  <1>0. FilesTyped
    BY TypeSplit
  <1>1. CASE BatchWrite \/ BatchWriteFails
    <2>1. batch[next] \in Entries /\ since' = since
      <3>1. batch \in Seq(Entries) /\ next \in 1..Len(batch)
        BY <1>1 DEF BatchWrite, BatchWriteFails, TypeOK
      <3> QED BY <1>1, <3>1, ElementOfSeq DEF BatchWrite, BatchWriteFails, history
    <2>2. WriteEntry(batch[next]) \/ WriteEntryFails(batch[next])
      BY <1>1 DEF BatchWrite, BatchWriteFails
    <2> QED BY <1>0, <2>1, <2>2, WriteEntryCtx, WriteEntryFailsCtx
  <1>2. CASE ErrorWrite
    <2>1. since' = since /\ (WriteEntry(ErrorEntry) \/ WriteEntryFails(ErrorEntry))
      BY <1>2 DEF ErrorWrite, history
    <2> QED BY <1>0, <2>1, ErrorEntryType, WriteEntryCtx, WriteEntryFailsCtx
  <1> QED BY <1>1, <1>2, QuietCtx

-----------------------------------------------------------------------------
(* The lines of a context, in its file and in its buffer. *)

(* The file of a tag is a sequence of cells, and the buffer of its writer
   too. *)
LEMMA CtxType ==
  ASSUME FilesTyped, NEW t \in Tags
  PROVE  /\ disk[PathOf[t]] \in Seq(Cells)
         /\ ContextLines(t) \in Seq(Cells)
         /\ context_map[t] # NoFile =>
               /\ context_map[t] \in Writers
               /\ context_map[t] \in [pos : Nat, buf : Seq(Cells)]
  <1>1. disk[PathOf[t]] \in Seq(Cells) /\ <<>> \in Seq(Cells)
    BY EmptySeq DEF FilesTyped, Paths
  <1>2. ASSUME context_map[t] # NoFile
        PROVE  /\ context_map[t] \in Writers
               /\ context_map[t] \in [pos : Nat, buf : Seq(Cells)]
    <2>1. context_map[t] \in Writers
      BY <1>2 DEF FilesTyped
    <2>2. context_map[t].buf \in Seq(Entries)
      BY <2>1 DEF Writers
    <2>3. context_map[t].buf \in Seq(Cells)
      BY <2>2, SeqMonotonic DEF Cells
    <2> QED BY <2>1, <2>3 DEF Writers
  <1>3. ContextLines(t) \in Seq(Cells)
    <2>1. CASE context_map[t] = NoFile
      BY <1>1, <2>1, ConcatProperties DEF ContextLines
    <2>2. CASE context_map[t] # NoFile
      <3>1. context_map[t].buf \in Seq(Cells)
        BY <1>2, <2>2
      <3>2. disk[PathOf[t]] \o context_map[t].buf \in Seq(Cells)
        BY <1>1, <3>1, ConcatProperties
      <3> QED BY <2>2, <3>2 DEF ContextLines
    <2> QED BY <2>1, <2>2
  <1> QED BY <1>1, <1>2, <1>3

(* Draining a writer that stands at the end of its file moves lines from
   the buffer to the file: the lines of the context stay the same, and the
   writer stays at the end. *)
LEMMA DrainsLines ==
  ASSUME FilesTyped, ContextsOrdered, NEW t \in Tags, context_map[t] # NoFile,
         NEW k \in 0..Len(context_map[t].buf)
  PROVE  LET cells == DrainedCells(disk[PathOf[t]], context_map[t], k)
             w == Drained(context_map[t], k)
         IN  /\ w \in Writers /\ w # NoFile
             /\ cells \in Seq(Cells) /\ w.buf \in Seq(Cells)
             /\ w.pos = Len(cells)
             /\ cells \o w.buf = ContextLines(t)
  <1>1. /\ disk[PathOf[t]] \in Seq(Cells) /\ context_map[t] \in Writers
        /\ context_map[t] \in [pos : Nat, buf : Seq(Cells)]
        /\ context_map[t].pos = Len(disk[PathOf[t]])
    BY CtxType DEF ContextsOrdered
  <1>2. Drained(context_map[t], k) \in Writers
    BY <1>1, DrainType
  <1>3. Drained(context_map[t], k) # NoFile
    BY <1>2, FilesAssumption
  <1>4. Drained(context_map[t], k).buf \in Seq(Cells)
    <2>1. Drained(context_map[t], k).buf \in Seq(Entries)
      BY <1>2 DEF Writers
    <2> QED BY <2>1, SeqMonotonic DEF Cells
  <1>5. ContextLines(t) = disk[PathOf[t]] \o context_map[t].buf
    BY DEF ContextLines
  <1> DEFINE D == disk[PathOf[t]]
             w == context_map[t]
  <1>6. D \in Seq(Cells) /\ w \in [pos : Nat, buf : Seq(Cells)] /\ w.pos = Len(D)
          /\ k \in 0..Len(w.buf)
    BY <1>1
  <1> HIDE DEF D, w
  <1>7. /\ DrainedCells(D, w, k) \in Seq(Cells)
        /\ Drained(w, k).pos = Len(DrainedCells(D, w, k))
        /\ DrainedCells(D, w, k) \o Drained(w, k).buf = D \o w.buf
    BY <1>6, DrainKeepsLines, ZenonT(30)
  <1> QED BY <1>2, <1>3, <1>4, <1>5, <1>7 DEF D, w

(* The writer of t, when there is one, stands at the end of its file. *)
Appends(t) == context_map[t] # NoFile => context_map[t].pos = Len(disk[PathOf[t]])

(* What the five things do to the lines of a context: only an entry of its
   tag adds a line, only add_context takes lines away, and the drop of a
   BufWriter loses none unless a write fails. *)
LEMMA CtxLines ==
  ASSUME FilesTyped, ContextsOrdered, NEW t \in Tags
  PROVE  /\ CtxSame(t) => ContextLines(t)' = ContextLines(t) /\ Appends(t)'
         /\ CtxDrains(t) => ContextLines(t)' = ContextLines(t) /\ Appends(t)'
         /\ \A e \in Entries : CtxWrites(t, e) =>
               ContextLines(t)' = ContextLines(t) \o <<e>> /\ Appends(t)'
         /\ CtxRemoved(t) /\ ~MayFail => ContextLines(t)' = ContextLines(t)
         /\ CtxCreated(t) => ContextLines(t)' = <<>> /\ Appends(t)'
  <1>1. CtxSame(t) => ContextLines(t)' = ContextLines(t) /\ Appends(t)'
    BY DEF CtxSame, ContextLines, ContextsOrdered, Appends
  <1>2. ASSUME CtxDrains(t) PROVE ContextLines(t)' = ContextLines(t) /\ Appends(t)'
    <2>1. PICK k \in 0..Len(context_map[t].buf) :
             /\ disk'[PathOf[t]] = DrainedCells(disk[PathOf[t]], context_map[t], k)
             /\ context_map'[t] = Drained(context_map[t], k)
      BY <1>2 DEF CtxDrains
    <2>2. context_map[t] # NoFile
      BY <1>2 DEF CtxDrains
    <2> QED BY <2>1, <2>2, DrainsLines DEF ContextLines, Appends
  <1>3. ASSUME NEW e \in Entries, CtxWrites(t, e)
        PROVE  ContextLines(t)' = ContextLines(t) \o <<e>> /\ Appends(t)'
    <2>1. context_map[t] # NoFile
      BY <1>3 DEF CtxWrites
    <2>2. PICK k \in 0..Len(context_map[t].buf) :
             /\ disk'[PathOf[t]] = DrainedCells(disk[PathOf[t]], context_map[t], k)
             /\ context_map'[t] = Buffered(Drained(context_map[t], k), e)
      BY <1>3 DEF CtxWrites
    <2> DEFINE cells == DrainedCells(disk[PathOf[t]], context_map[t], k)
               w == Drained(context_map[t], k)
    <2>3. /\ w \in Writers /\ cells \in Seq(Cells) /\ w.buf \in Seq(Cells)
          /\ w.pos = Len(cells) /\ cells \o w.buf = ContextLines(t)
      BY <2>1, DrainsLines
    <2>4. disk'[PathOf[t]] = cells /\ context_map'[t] = Buffered(w, e)
      BY <2>2
    <2> HIDE DEF cells, w
    <2>5. /\ Buffered(w, e) \in Writers /\ Buffered(w, e).pos = w.pos
          /\ Buffered(w, e).buf = Append(w.buf, e)
      BY <2>3, BufferedType
    <2>6. context_map'[t] # NoFile
      BY <2>4, <2>5, FilesAssumption
    <2>7. Append(w.buf, e) = w.buf \o <<e>> /\ <<e>> \in Seq(Cells)
      <3>1. e \in Cells
        BY DEF Cells
      <3> QED BY <2>3, <3>1, AppendIsConcat
    <2>8. ContextLines(t)' = cells \o (w.buf \o <<e>>)
      BY <2>4, <2>5, <2>6, <2>7 DEF ContextLines
    <2>9. (cells \o w.buf) \o <<e>> = cells \o (w.buf \o <<e>>)
      <3> DEFINE b == w.buf
                 one == <<e>>
      <3>1. b \in Seq(Cells) /\ one \in Seq(Cells) /\ cells \in Seq(Cells)
        BY <2>3, <2>7
      <3> HIDE DEF b, one
      <3>2. (cells \o b) \o one = cells \o (b \o one)
        BY <3>1, ConcatAssociative, SMTT(30)
      <3> QED BY <3>2 DEF b, one
    <2>10. ContextLines(t)' = ContextLines(t) \o <<e>>
      BY <2>3, <2>8, <2>9
    <2>11. Appends(t)'
      BY <2>3, <2>4, <2>5 DEF Appends
    <2> QED BY <2>10, <2>11
  <1>4. ASSUME CtxRemoved(t), ~MayFail PROVE ContextLines(t)' = ContextLines(t)
    <2>1. context_map[t] # NoFile
      BY <1>4 DEF CtxRemoved
    <2> DEFINE n == Len(context_map[t].buf)
    <2>2. disk'[PathOf[t]] = DrainedCells(disk[PathOf[t]], context_map[t], n)
            /\ context_map'[t] = NoFile
      BY <1>4 DEF CtxRemoved, DropCounts
    <2>3. n \in 0..n
      <3>1. context_map[t] \in Writers
        BY <2>1, CtxType
      <3>2. n \in Nat
        BY <3>1 DEF Writers
      <3> QED BY <3>2
    <2> DEFINE cells == DrainedCells(disk[PathOf[t]], context_map[t], n)
               w == Drained(context_map[t], n)
    <2>4. cells \in Seq(Cells) /\ cells \o w.buf = ContextLines(t)
      BY <2>1, <2>3, DrainsLines
    <2>5. w.buf = <<>>
      <3>1. n \in Nat
        BY <2>3
      <3>2. w.buf = SubSeq(context_map[t].buf, n + 1, n)
        BY DEF Drained
      <3> HIDE DEF n, w
      <3>3. n + 1 \in Int /\ n \in Int /\ n < n + 1
        BY <3>1
      <3> QED BY <3>2, <3>3, SubSeqEmpty
    <2>6. ContextLines(t)' = cells \o <<>>
      BY <2>2 DEF ContextLines
    <2> HIDE DEF cells, w
    <2> QED BY <2>4, <2>5, <2>6
  <1>5. ASSUME CtxCreated(t) PROVE ContextLines(t)' = <<>> /\ Appends(t)'
    <2>1. NewWriter # NoFile
      BY NewWriterType, FilesAssumption
    <2>2. <<>> \o <<>> = <<>> /\ Len(<<>>) = 0
      <3>1. <<>> \in Seq(Cells)
        BY EmptySeq
      <3> QED BY <3>1, ConcatEmptySeq, EmptySeq
    <2> QED BY <1>5, <2>1, <2>2 DEF CtxCreated, ContextLines, Appends, NewWriter
  <1> QED BY <1>1, <1>2, <1>3, <1>4, <1>5

(* The lines of the global log after a step are a sequence of cells. *)
LEMMA GlobalGrowsType ==
  ASSUME FilesTyped'
  PROVE  GlobalLines' \in Seq(Cells)
  <1>1. disk'[GlobalPath] \in Seq(Cells)
    BY DEF FilesTyped, Paths
  <1>2. global_file'.buf \in Seq(Entries)
    BY DEF FilesTyped, Writers
  <1>3. global_file'.buf \in Seq(Cells)
    BY <1>2, SeqMonotonic DEF Cells
  <1> QED
    BY <1>1, <1>3, ConcatProperties DEF GlobalLines

(* Every step keeps the writers of the contexts at the end of their files
   and their starting points within the global log, which never shrinks. *)
LEMMA ContextsOrderedStep ==
  ASSUME TypeOK, TypeOK', PointsConsistent, GlobalPathPrivate, OwnFiles, RegistersFlushed,
         global_file.pos = Len(disk[GlobalPath]), ContextsOrdered, Next
  PROVE  ContextsOrdered'
  <1>0. FilesTyped /\ RestTyped /\ since' \in [Tags -> Nat]
    BY TypeSplit DEF TypeOK
  <1>1. GlobalLines \in Seq(Cells) /\ Len(GlobalLines) \in Nat
          /\ Len(GlobalLines) <= Len(GlobalLines')
    <2>1. GlobalLines \in Seq(Cells)
      BY <1>0, GlobalLinesType
    <2>2. GlobalLines' = GlobalLines \/ \E e \in Entries : GlobalLines' = GlobalLines \o <<e>>
      <3>1. CASE BatchWrite \/ BatchWriteFails
        <4>1. batch[next] \in Entries
          <5>1. batch \in Seq(Entries) /\ next \in 1..Len(batch)
            BY <3>1 DEF BatchWrite, BatchWriteFails, TypeOK
          <5> QED BY <5>1, ElementOfSeq
        <4>2. WriteEntry(batch[next]) \/ WriteEntryFails(batch[next])
          BY <3>1 DEF BatchWrite, BatchWriteFails
        <4> QED BY <1>0, <4>1, <4>2, WriteEntryGlobal, WriteEntryFailsGlobal
      <3>2. CASE ErrorWrite
        <4>1. WriteEntry(ErrorEntry) \/ WriteEntryFails(ErrorEntry)
          BY <3>2 DEF ErrorWrite
        <4> QED BY <1>0, <4>1, ErrorEntryType, WriteEntryGlobal, WriteEntryFailsGlobal
      <3>3. CASE FlushGlobal \/ FlushFails
        BY <1>0, <3>3, FlushDrains DEF RestTyped
      <3>4. CASE ~BatchWrite /\ ~BatchWriteFails /\ ~ErrorWrite /\ ~FlushGlobal /\ ~FlushFails
        BY <1>0, <3>4, GlobalQuiet DEF GlobalLines
      <3> QED BY <3>1, <3>2, <3>3, <3>4
    <2>3. ASSUME NEW e \in Entries
          PROVE  Len(GlobalLines \o <<e>>) = Len(GlobalLines) + 1
      <3>1. <<e>> \in Seq(Cells) /\ Len(<<e>>) = 1
        BY DEF Cells
      <3> QED BY <2>1, <3>1, ConcatProperties
    <2>4. Len(GlobalLines) \in Nat
      BY <2>1, LenProperties
    <2>5. CASE GlobalLines' = GlobalLines
      <3>1. Len(GlobalLines') = Len(GlobalLines)
        BY <2>5
      <3> QED BY <2>1, <2>4, <3>1
    <2>6. CASE \E e \in Entries : GlobalLines' = GlobalLines \o <<e>>
      <3>1. Len(GlobalLines') = Len(GlobalLines) + 1
        BY <2>3, <2>6
      <3> QED BY <2>1, <2>4, <3>1
    <2> QED BY <2>2, <2>5, <2>6
  <1>2. ASSUME NEW t \in Tags, context_map'[t] # NoFile
        PROVE  /\ context_map'[t].pos = Len(disk'[PathOf[t]])
               /\ since'[t] <= Len(GlobalLines')
    <2>1. \/ CtxSame(t) \/ CtxDrains(t) \/ CtxRemoved(t) \/ CtxCreated(t)
          \/ \E e \in Entries : CtxWrites(t, e)
      BY StepCtx
    <2>2. ~CtxRemoved(t)
      BY <1>2 DEF CtxRemoved
    <2>3. Appends(t)'
      BY <1>0, <2>1, <2>2, CtxLines
    <2>4. since'[t] <= Len(GlobalLines')
      <3>1. CASE CtxCreated(t)
        BY <1>1, <3>1 DEF CtxCreated
      <3>2. CASE ~CtxCreated(t)
        <4>1. since'[t] = since[t] /\ context_map[t] # NoFile
          BY <1>2, <2>1, <2>2, <3>2 DEF CtxSame, CtxDrains, CtxWrites
        <4>2. since[t] <= Len(GlobalLines) /\ since[t] \in Nat
          BY <1>0, <4>1 DEF ContextsOrdered, RestTyped
        <4>3. Len(GlobalLines') \in Nat
          <5>1. FilesTyped'
            BY TypeSplitNext
          <5>2. GlobalLines' \in Seq(Cells)
            BY <1>0, <5>1, GlobalGrowsType
          <5> QED BY <5>2, LenProperties
        <4> QED BY <1>1, <4>1, <4>2, <4>3
      <3> QED BY <3>1, <3>2
    <2> QED BY <1>2, <2>3, <2>4 DEF Appends
  <1> QED BY <1>2 DEF ContextsOrdered

(* ContextFiltered for one tag. *)
Filtered(t) ==
    context_map[t] # NoFile =>
        ContextLines(t) = TaggedWith(t, SubSeq(GlobalLines, since[t] + 1, Len(GlobalLines)))

(* Writing an entry keeps ContextFiltered: the global log gets the line,
   and the file of a context gets it exactly when it has its tag. *)
LEMMA WriteFiltered ==
  ASSUME FilesTyped, since \in [Tags -> Nat], GlobalPathPrivate, OwnFiles,
         global_file.pos = Len(disk[GlobalPath]), ContextsOrdered, since' = since,
         NEW e \in Entries, WriteEntry(e), NEW t \in Tags, Filtered(t)
  PROVE  Filtered(t)'
  <1> DEFINE G == GlobalLines
             s == since[t]
             old == TaggedWith(t, SubSeq(G, s + 1, Len(G)))
             new == TaggedWith(t, SubSeq(G \o <<e>>, s + 1, Len(G \o <<e>>)))
  <1>1. GlobalLines' = G \o <<e>> /\ G \in Seq(Cells) /\ s \in Nat /\ e \in Cells
    BY WriteEntryGlobal, GlobalLinesType DEF Cells
  <1>2. SUFFICES ASSUME context_map'[t] # NoFile PROVE ContextLines(t)' = new
    BY <1>1 DEF Filtered
  <1>3. context_map[t] # NoFile
    BY <1>2, WriteEntryCtx DEF CtxWrites, CtxSame
  <1>4. s <= Len(G) /\ ContextLines(t) = old
    BY <1>3 DEF ContextsOrdered, Filtered
  <1>5. new = IF e.tag = t THEN Append(old, e) ELSE old
    <2> HIDE DEF G, s
    <2>1. s <= Len(G) /\ G \in Seq(Cells) /\ s \in Nat /\ e \in Cells
      BY <1>1, <1>4
    <2> QED BY <2>1, FilterAppend
  <1> HIDE DEF G, s, old, new
  <1>6. CASE e.tag = t
    <2>1. CtxWrites(t, e)
      BY <1>3, <1>6, WriteEntryCtx DEF HasContext
    <2>2. ContextLines(t)' = ContextLines(t) \o <<e>>
      BY <2>1, CtxLines
    <2>3. ContextLines(t) \in Seq(Cells)
      BY CtxType
    <2>4. Append(old, e) = old \o <<e>>
      BY <1>1, <1>4, <2>3, AppendIsConcat
    <2> QED BY <1>4, <1>5, <1>6, <2>2, <2>4
  <1>7. CASE e.tag # t
    <2>1. CtxSame(t)
      BY <1>7, WriteEntryCtx
    <2> QED BY <1>4, <1>5, <1>7, <2>1, CtxLines
  <1> QED BY <1>6, <1>7

(* A step that writes no entry keeps ContextFiltered: the global log has
   the same lines, and a context has the lines it had, or is created with
   none and with the global log's end as its starting point. *)
LEMMA QuietFiltered ==
  ASSUME TypeOK, PointsConsistent, GlobalPathPrivate, OwnFiles, RegistersFlushed,
         global_file.pos = Len(disk[GlobalPath]), ContextsOrdered,
         Next, ~BatchWrite, ~BatchWriteFails, ~ErrorWrite, NEW t \in Tags, Filtered(t)
  PROVE  Filtered(t)'
  <1>0. FilesTyped /\ RestTyped
    BY TypeSplit
  <1>1. GlobalLines' = GlobalLines
    <2>1. CASE FlushGlobal \/ FlushFails
      BY <1>0, <2>1, FlushDrains DEF RestTyped
    <2>2. CASE ~FlushGlobal /\ ~FlushFails
      BY <1>0, <2>2, GlobalQuiet DEF GlobalLines
    <2> QED BY <2>1, <2>2
  <1>2. CtxSame(t) \/ CtxDrains(t) \/ CtxRemoved(t) \/ CtxCreated(t)
    BY QuietCtx
  <1>3. CASE CtxSame(t) \/ CtxDrains(t)
    <2>1. context_map'[t] # NoFile => context_map[t] # NoFile
      BY <1>3 DEF CtxSame, CtxDrains
    <2>2. since'[t] = since[t] /\ ContextLines(t)' = ContextLines(t)
      BY <1>0, <1>3, CtxLines DEF CtxSame, CtxDrains
    <2> QED BY <1>1, <2>1, <2>2 DEF Filtered
  <1>4. CASE CtxRemoved(t)
    BY <1>4 DEF CtxRemoved, Filtered
  <1>5. CASE CtxCreated(t)
    <2> DEFINE n == Len(GlobalLines)
    <2>1. n \in Nat
      BY <1>0, GlobalLinesType, LenProperties
    <2>2. since'[t] = n /\ ContextLines(t)' = <<>>
      BY <1>0, <1>5, CtxLines DEF CtxCreated
    <2>3. Filtered(t)' <=> (context_map'[t] # NoFile =>
                               <<>> = TaggedWith(t, SubSeq(GlobalLines, n + 1, n)))
      BY <1>1, <2>2 DEF Filtered
    <2> HIDE DEF n
    <2>4. SubSeq(GlobalLines, n + 1, n) = <<>>
      <3>1. n + 1 \in Int /\ n \in Int /\ n < n + 1
        BY <2>1
      <3> QED BY <3>1, SubSeqEmpty
    <2> QED BY <2>3, <2>4, TaggedEmpty
  <1> QED BY <1>2, <1>3, <1>4, <1>5

(* Every step keeps ContextFiltered. *)
LEMMA FilteredStep ==
  ASSUME TypeOK, PointsConsistent, PointsConsistent', GlobalPathPrivate, OwnFiles,
         RegistersFlushed, global_file.pos = Len(disk[GlobalPath]), ContextsOrdered,
         ContextFiltered, Next
  PROVE  ContextFiltered'
  <1> SUFFICES ASSUME ~failed', NEW t \in Tags PROVE Filtered(t)'
    BY DEF ContextFiltered, Filtered
  <1>1. ~failed /\ ~BatchWriteFails /\ ~ErrorWrite
    <2>1. failed => failed'
      <3>1. CASE \/ TakeQueue \/ BatchWrite \/ BatchWriteFails \/ ErrorWrite
                 \/ \E c \in Clients : Push(c)
        BY <3>1 DEF TakeQueue, BatchWrite, BatchWriteFails, ErrorWrite, Push, logVars
      <3>2. CASE /\ ~TakeQueue /\ ~BatchWrite /\ ~BatchWriteFails /\ ~ErrorWrite
                 /\ \A c \in Clients : ~Push(c)
        BY <3>2, OthersKeep
      <3> QED BY <3>1, <3>2
    <2> QED BY <2>1 DEF BatchWriteFails, ErrorWrite, PointsConsistent, ErrorPoints
  <1>2. Filtered(t)
    BY <1>1 DEF ContextFiltered, Filtered
  <1>3. CASE BatchWrite
    <2>1. batch[next] \in Entries
      <3>1. batch \in Seq(Entries) /\ next \in 1..Len(batch)
        BY <1>3 DEF BatchWrite, TypeOK
      <3> QED BY <3>1, ElementOfSeq
    <2>2. FilesTyped /\ since \in [Tags -> Nat] /\ since' = since
      BY <1>3, TypeSplit DEF RestTyped, BatchWrite, history
    <2> QED BY <1>2, <1>3, <2>1, <2>2, WriteFiltered DEF BatchWrite
  <1>4. CASE ~BatchWrite
    BY <1>1, <1>2, <1>4, QuietFiltered
  <1> QED BY <1>3, <1>4

(* The inductive invariant: the writers stand at the end of their files,
   the global one (OrderInv) and those of the contexts, which started
   within the global log, and the files are filtered. *)
ContextInv == OrderInv /\ ContextsOrdered /\ ContextFiltered

(* No context is registered at first. *)
LEMMA InitContext ==
  ASSUME Init
  PROVE  ContextInv
  <1>1. OrderInv
    BY InitOrder
  <1>2. \A t \in Tags : context_map[t] = NoFile
    BY DEF Init
  <1> QED BY <1>1, <1>2 DEF ContextInv, ContextsOrdered, ContextFiltered

(* Every step from a state where registrations find flushed files keeps the
   invariant. *)
LEMMA StepContext ==
  ASSUME GlobalPathPrivate, OwnFiles, RegistersFlushed, ContextInv, [Next]_vars
  PROVE  ContextInv'
  <1>1. OrderInv'
    BY StepOrder DEF ContextInv
  <1>2. CASE Next
    <2>1. /\ TypeOK /\ TypeOK' /\ PointsConsistent /\ PointsConsistent'
          /\ global_file.pos = Len(disk[GlobalPath])
      BY <1>1 DEF ContextInv, OrderInv, GlobalOrdered
    <2>2. ContextsOrdered'
      BY <1>2, <2>1, ContextsOrderedStep DEF ContextInv
    <2>3. ContextFiltered'
      BY <1>2, <2>1, FilteredStep DEF ContextInv
    <2> QED BY <1>1, <2>2, <2>3 DEF ContextInv
  <1>3. CASE UNCHANGED vars
    <2>1. UNCHANGED <<disk, global_file, context_map, since, failed>>
      BY <1>3 DEF vars, files, history, logVars
    <2>2. ContextsOrdered'
      BY <2>1 DEF ContextInv, ContextsOrdered, GlobalLines
    <2>3. ContextFiltered'
      BY <2>1 DEF ContextInv, ContextFiltered, ContextLines, GlobalLines
    <2> QED BY <1>1, <2>2, <2>3 DEF ContextInv
  <1> QED BY <1>2, <1>3

(* A registered context's file and buffer hold exactly the lines of the
   global log that have its tag, since its registration and in the same
   order, until do_log_batch fails. This needs that no tag is registered again
   while lines of it are buffered (RegistersFlushed): add_context opens the
   file anew with File::create and the BufWriter that it replaces in
   context_map writes its buffer to the truncated file when it is dropped,
   after the new one. It holds whether or not the other writes can fail. *)
THEOREM ContextFilteredAlways ==
  ASSUME GlobalPathPrivate, OwnFiles
  PROVE  Spec /\ []RegistersFlushed => []ContextFiltered
  <1>1. Init => ContextInv
    BY InitContext
  <1>2. RegistersFlushed /\ ContextInv /\ [Next]_vars => ContextInv'
    BY StepContext
  <1>3. ContextInv => ContextFiltered
    BY DEF ContextInv
  <1> QED BY <1>1, <1>2, <1>3, PTL DEF Spec

(* A step extends the lines of every context but one being created. *)
AppendsOrCreates ==
    \A t \in Tags :
        \/ IsPrefix(ContextLines(t), ContextLines(t)')
        \/ \E c \in Clients : cpc[c] = "r_create" /\ tag[c] = t

(* Nothing but a registration takes a line from a context: the lines in its
   file and buffer only grow, through do_log_batch, flush and the drop of its
   BufWriter in remove_context. The drop is the reason for ~MayFail: it
   ignores the error of a write and loses what was buffered. *)
THEOREM ContextAppendOnlyAlways ==
  ASSUME GlobalPathPrivate, OwnFiles, ~MayFail
  PROVE  Spec /\ []RegistersFlushed => ContextAppendOnly
  <1>1. Init => ContextInv
    BY InitContext
  <1>2. RegistersFlushed /\ ContextInv /\ [Next]_vars => ContextInv'
    BY StepContext
  <1>3. RegistersFlushed /\ ContextInv /\ [Next]_vars => [AppendsOrCreates]_vars
    <2> SUFFICES ASSUME RegistersFlushed, ContextInv, Next, NEW t \in Tags
                 PROVE  \/ IsPrefix(ContextLines(t), ContextLines(t)')
                        \/ \E c \in Clients : cpc[c] = "r_create" /\ tag[c] = t
      BY DEF AppendsOrCreates
    <2>1. TypeOK /\ PointsConsistent /\ FilesTyped /\ ContextsOrdered
      BY TypeSplit DEF ContextInv, OrderInv
    <2>2. ContextLines(t) \in Seq(Cells)
      BY <2>1, CtxType
    <2>3. \/ CtxSame(t) \/ CtxDrains(t) \/ CtxRemoved(t) \/ CtxCreated(t)
          \/ \E e \in Entries : CtxWrites(t, e)
      BY <2>1, StepCtx
    <2>4. CASE CtxSame(t) \/ CtxDrains(t) \/ CtxRemoved(t)
      <3>1. ContextLines(t)' = ContextLines(t)
        BY <2>1, <2>4, CtxLines
      <3> QED BY <2>2, <3>1, PrefixSelf
    <2>5. CASE \E e \in Entries : CtxWrites(t, e)
      <3>1. PICK e \in Entries : CtxWrites(t, e)
        BY <2>5
      <3>2. ContextLines(t)' = ContextLines(t) \o <<e>>
        BY <2>1, <3>1, CtxLines
      <3>3. <<e>> \in Seq(Cells)
        BY DEF Cells
      <3> QED BY <2>2, <3>2, <3>3, PrefixConcat
    <2> QED BY <2>3, <2>4, <2>5 DEF CtxCreated
  <1> QED BY <1>1, <1>2, <1>3, PTL DEF Spec, ContextAppendOnly, AppendsOrCreates
-----------------------------------------------------------------------------
(* Programs that register at most once. *)

(* Writing an entry gives no tag a writer and takes none. *)
LEMMA WriteKeepsContexts ==
  ASSUME FilesTyped, NEW e \in Entries, WriteEntry(e) \/ WriteEntryFails(e), NoContexts
  PROVE  NoContexts'
  <1>1. ~HasContext(e)
    BY DEF HasContext, NoContexts
  <1>2. context_map' = context_map
    BY <1>1 DEF WriteEntry, WriteEntryFails
  <1> QED BY <1>2 DEF NoContexts

(* Only add_context makes a context of none. *)
LEMMA OnlyAddContext ==
  ASSUME TypeOK, PointsConsistent, NoContexts, Next, \A c \in Clients : ~AddContext(c)
  PROVE  NoContexts'
  <1>1. ASSUME NEW c \in Clients,
               \/ \E name \in CallNames : \E t \in TagsOf(name) : Call(c, name, t)
               \/ ClientStep(c) \/ AddContextFails(c) \/ WaitTimesOut(c)
        PROVE  NoContexts'
    <2>1. CASE RemoveContext(c)
      <3>1. cpc[c] = "u_remove"
        BY <2>1 DEF RemoveContext
      <3>2. tag[c] \in Tags
        BY <3>1 DEF PointsConsistent
      <3>3. context_map' = context_map
        BY <2>1, <3>2 DEF RemoveContext, NoContexts
      <3> QED BY <3>3 DEF NoContexts
    <2>2. CASE ~RemoveContext(c)
      <3>1. context_map' = context_map
        BY <1>1, <2>2 DEF Call, ClientStep, ReadLock, Push, Signal, WaitForFlush,
                          ClientClaim, AddSink, AddContextFails, WaitTimesOut, files
      <3> QED BY <3>1 DEF NoContexts
    <2> QED BY <2>1, <2>2
  <1>2. CASE BatchWrite \/ BatchWriteFails
    <2>1. batch[next] \in Entries
      <3>1. batch \in Seq(Entries) /\ next \in 1..Len(batch)
        BY <1>2 DEF BatchWrite, BatchWriteFails, TypeOK
      <3> QED BY <3>1, ElementOfSeq
    <2>2. WriteEntry(batch[next]) \/ WriteEntryFails(batch[next])
      BY <1>2 DEF BatchWrite, BatchWriteFails
    <2> QED BY <2>1, <2>2, TypeSplit, WriteKeepsContexts
  <1>3. CASE ErrorWrite
    <2>1. WriteEntry(ErrorEntry) \/ WriteEntryFails(ErrorEntry)
      BY <1>3 DEF ErrorWrite
    <2> QED BY <2>1, TypeSplit, ErrorEntryType, WriteKeepsContexts
  <1>4. CASE \/ TakeQueue \/ ReadConfig \/ LogClaim \/ BatchWritten \/ DeliverToSinks
             \/ BackendsDone \/ CheckFlush \/ FlushGlobal \/ FlushDone \/ CheckWait
             \/ Wake \/ SinkFails \/ ErrorToSinks
    <2>1. context_map' = context_map
      BY <1>4 DEF TakeQueue, ReadConfig, LogClaim, BatchWritten, DeliverToSinks,
                  BackendsDone, CheckFlush, FlushGlobal, FlushDone, CheckWait, Wake,
                  SinkFails, ErrorToSinks, shared, files
    <2> QED BY <2>1 DEF NoContexts
  <1>5. CASE FlushFails \/ \E t \in Tags : FlushContext(t)
    <2>1. todo = {}
      BY DEF PointsConsistent, NoContexts, TypeOK
    <2>2. context_map' = context_map
      BY <1>5, <2>1 DEF FlushFails, FlushContext
    <2> QED BY <2>2 DEF NoContexts
  <1> QED
    BY <1>1, <1>2, <1>3, <1>4, <1>5 DEF Next, LogStep, LogFailure, ErrorStep

(* The log thread makes no call and returns from none. *)
LEMMA LogKeepsCalls ==
  ASSUME LogStep \/ LogFailure \/ ErrorStep \/ UNCHANGED vars
  PROVE  cpc' = cpc /\ calls' = calls
  BY DEF LogStep, LogFailure, ErrorStep, TakeQueue, ReadConfig, LogClaim,
         BatchWrite, BatchWritten, DeliverToSinks, BackendsDone, CheckFlush,
         FlushGlobal, FlushContext, FlushDone, CheckWait, Wake, BatchWriteFails,
         SinkFails, FlushFails, ErrorWrite, ErrorToSinks, shared, clientVars, vars

(* Every step keeps the one registration spent and the contexts absent
   until it returns. *)
LEMMA RegistrationSpentStep ==
  ASSUME TypeOK, PointsConsistent, RegistersOnce, RegistrationSpent, [Next]_vars
  PROVE  RegistrationSpent'
  <1> DEFINE R == {"r_lock", "r_create"}
             may(c) == "register_context" \in Program[c]
  <1>a. /\ cpc \in [Clients -> ClientPoints] /\ calls \in [Clients -> Nat]
        /\ Budget \in [Clients -> Nat]
    BY ConstantsAssumption DEF TypeOK
  <1>1. ASSUME NoContexts => NoContexts', \A c \in Clients : calls'[c] >= calls[c],
               calls' \in [Clients -> Nat],
               \A c \in Clients : cpc'[c] \in R => cpc[c] \in R
        PROVE  RegistrationSpent'
    <2>1. ASSUME NEW c \in Clients, calls[c] >= Budget[c] PROVE calls'[c] >= Budget[c]
      <3>1. calls'[c] >= calls[c] /\ calls'[c] \in Nat /\ calls[c] \in Nat
              /\ Budget[c] \in Nat
        BY <1>1, <1>a
      <3> QED BY <2>1, <3>1
    <2> QED BY <1>1, <2>1 DEF RegistrationSpent
  <1>2. ASSUME NEW c \in Clients, NEW name \in CallNames, NEW t \in TagsOf(name),
               Call(c, name, t)
        PROVE  RegistrationSpent'
    <2>1. /\ context_map' = context_map
          /\ calls' = [calls EXCEPT ![c] = @ + 1]
          /\ cpc' = [cpc EXCEPT ![c] = FirstPoint[name]]
          /\ calls[c] < Budget[c] /\ name \in Program[c]
      BY <1>2 DEF Call, Goto, files
    <2>2. \A d \in Clients : calls'[d] >= calls[d]
      BY <1>a, <2>1
    <2>3. NoContexts' = NoContexts
      BY <2>1 DEF NoContexts
    <2>4. CASE name = "register_context"
      <3>1. may(c) /\ Budget[c] <= 1
        BY <2>1, <2>4 DEF RegistersOnce
      <3>2. calls'[c] >= Budget[c]
        BY <1>a, <2>1, <3>1
      <3>3. ~(calls[c] >= Budget[c])
        BY <1>a, <2>1
      <3>4. NoContexts
        BY <3>1, <3>3 DEF RegistrationSpent
      <3>5. \A d \in Clients : cpc[d] \notin R
        <4> SUFFICES ASSUME NEW d \in Clients, cpc[d] \in R PROVE FALSE
          OBVIOUS
        <4>1. may(d) /\ calls[d] >= Budget[d]
          BY DEF RegistrationSpent
        <4>2. d = c
          BY <3>1, <4>1 DEF RegistersOnce
        <4> QED BY <3>3, <4>1, <4>2
      <3>6. \A d \in Clients : cpc'[d] \in R => d = c
        BY <1>a, <2>1, <3>5
      <3> QED BY <2>3, <3>1, <3>2, <3>4, <3>6 DEF RegistrationSpent
    <2>5. CASE name # "register_context"
      <3>1. FirstPoint[name] \notin R
        BY <2>5 DEF FirstPoint, CallNames
      <3>2. \A d \in Clients : cpc'[d] \in R => cpc[d] \in R
        BY <1>a, <2>1, <3>1
      <3>3. calls' \in [Clients -> Nat]
        BY <1>a, <2>1
      <3> QED BY <1>1, <2>2, <2>3, <3>2, <3>3
    <2> QED BY <2>4, <2>5
  <1>3. ASSUME NEW c \in Clients, AddContext(c) PROVE RegistrationSpent'
    <2>1. /\ cpc[c] = "r_create" /\ calls' = calls
          /\ cpc' = [cpc EXCEPT ![c] = "idle"]
      BY <1>3 DEF AddContext, Return, Goto
    <2>2. may(c) /\ calls[c] >= Budget[c]
      BY <2>1 DEF RegistrationSpent
    <2>3. \A d \in Clients : may(d) => d = c
      BY <2>2 DEF RegistersOnce
    <2>4. \A d \in Clients : cpc'[d] \notin R
      <3> SUFFICES ASSUME NEW d \in Clients, cpc'[d] \in R PROVE FALSE
        OBVIOUS
      <3>1. d # c /\ cpc[d] \in R
        BY <1>a, <2>1
      <3> QED BY <2>3, <3>1 DEF RegistrationSpent
    <2> QED BY <2>1, <2>2, <2>3, <2>4 DEF RegistrationSpent
  <1>4. ASSUME NEW c \in Clients,
               (ClientStep(c) /\ ~AddContext(c)) \/ AddContextFails(c) \/ WaitTimesOut(c)
        PROVE  calls' = calls /\ \A d \in Clients : cpc'[d] \in R => cpc[d] \in R
    <2>1. calls' = calls
      BY <1>4 DEF ClientStep, ReadLock, Push, Signal, WaitForFlush, WaitTimesOut,
                  ClientClaim, AddContextFails, RemoveContext, AddSink
    <2>2. \E p \in ClientPoints : /\ cpc' = [cpc EXCEPT ![c] = p]
                                  /\ p \in R => cpc[c] \in R
      BY <1>4
         DEF ClientStep, ReadLock, Push, Signal, WaitForFlush, WaitTimesOut, ClientClaim,
             AddContextFails, RemoveContext, AddSink, Return, Goto, ClientPoints
    <2> QED BY <1>a, <2>1, <2>2
  <1>5. CASE UNCHANGED vars
    <2>1. context_map' = context_map /\ cpc' = cpc /\ calls' = calls
      BY <1>5 DEF vars, files, clientVars
    <2> QED BY <2>1 DEF RegistrationSpent, NoContexts
  <1>6. CASE Next /\ \A c \in Clients : ~AddContext(c)
    <2>1. NoContexts => NoContexts'
      BY <1>6, OnlyAddContext
    <2>2. ASSUME calls' = calls, \A d \in Clients : cpc'[d] \in R => cpc[d] \in R
          PROVE  RegistrationSpent'
      <3>1. \A c \in Clients : calls'[c] >= calls[c]
        BY <1>a, <2>2
      <3> QED BY <1>1, <1>a, <2>1, <2>2, <3>1
    <2>3. CASE LogStep \/ LogFailure \/ ErrorStep
      BY <2>2, <2>3, LogKeepsCalls
    <2> QED BY <1>2, <1>4, <1>6, <2>2, <2>3 DEF Next
  <1> QED BY <1>3, <1>5, <1>6

(* A program that registers once registers no tag that has a writer: the
   hypothesis of the two theorems above holds of it. *)
LEMMA RegistersFlushedAlways ==
  ASSUME RegistersOnce
  PROVE  Spec => []RegistersFlushed
  <1>1. Init => RegistrationSpent
    BY DEF Init, RegistrationSpent, NoContexts
  <1>2. TypeOK /\ PointsConsistent /\ RegistrationSpent /\ [Next]_vars => RegistrationSpent'
    BY RegistrationSpentStep
  <1>3. PointsConsistent /\ RegistrationSpent => RegistersFlushed
    BY DEF RegistrationSpent, RegistersFlushed, FileFlushed, NoContexts, PointsConsistent
  <1>4. Spec => [](TypeOK /\ PointsConsistent)
    BY TypeCorrect
  <1> QED BY <1>1, <1>2, <1>3, <1>4, PTL DEF Spec

(* In a program that registers once, whatever else it calls and however
   its threads interleave, the file of a context is the global log filtered
   by its tag, from its registration on. *)
THEOREM ContextFilteredOnce ==
  ASSUME GlobalPathPrivate, OwnFiles, RegistersOnce
  PROVE  Spec => []ContextFiltered
  BY ContextFilteredAlways, RegistersFlushedAlways, PTL

(* In such a program, where no write fails, nothing written to a context is
   lost again. *)
THEOREM ContextAppendOnlyOnce ==
  ASSUME GlobalPathPrivate, OwnFiles, RegistersOnce, ~MayFail
  PROVE  Spec => ContextAppendOnly
  BY ContextAppendOnlyAlways, RegistersFlushedAlways, PTL

-----------------------------------------------------------------------------
(* The cells of a context's file. *)

(* The files of the contexts hold whole lines. *)
ContextsWhole == \A t \in Tags : disk[PathOf[t]] \in Seq(Entries)

(* What is appended by a writer at the end of its file is whole lines.     *)
LEMMA DrainsWhole ==
  ASSUME FilesTyped, ContextsOrdered, ContextsWhole, NEW t \in Tags, context_map[t] # NoFile,
         NEW k \in 0..Len(context_map[t].buf)
  PROVE  DrainedCells(disk[PathOf[t]], context_map[t], k) \in Seq(Entries)
  <1> DEFINE cells == disk[PathOf[t]]
             w == context_map[t]
  <1>1. cells \in Seq(Entries) /\ w \in Writers /\ w.pos = Len(cells)
    BY DEF ContextsWhole, ContextsOrdered, FilesTyped
  <1>2. w \in [pos : Nat, buf : Seq(Entries)] /\ k \in 0..Len(w.buf)
    BY <1>1 DEF Writers
  <1> HIDE DEF cells, w
  <1>3. DrainedCells(cells, w, k) \in Seq(Entries)
    BY <1>1, <1>2, DrainKeepsLines
  <1> QED BY <1>3 DEF cells, w

(* Every step keeps the files of the contexts whole. *)
LEMMA ContextsWholeStep ==
  ASSUME GlobalPathPrivate, OwnFiles, RegistersFlushed, ContextInv, ContextsWhole, [Next]_vars
  PROVE  ContextsWhole'
  <1>0. TypeOK /\ PointsConsistent /\ FilesTyped /\ ContextsOrdered
    BY TypeSplit DEF ContextInv, OrderInv
  <1>1. CASE UNCHANGED vars
    BY <1>1 DEF vars, files, ContextsWhole
  <1>2. ASSUME Next, NEW t \in Tags PROVE disk'[PathOf[t]] \in Seq(Entries)
    <2>1. \/ CtxSame(t) \/ CtxDrains(t) \/ CtxRemoved(t) \/ CtxCreated(t)
          \/ \E e \in Entries : CtxWrites(t, e)
      BY <1>0, <1>2, StepCtx
    <2>2. CASE CtxSame(t)
      BY <2>2 DEF CtxSame, ContextsWhole
    <2>3. CASE CtxCreated(t)
      BY <2>3, EmptySeq DEF CtxCreated
    <2>4. CASE CtxDrains(t) \/ CtxRemoved(t) \/ \E e \in Entries : CtxWrites(t, e)
      <3>1. context_map[t] # NoFile
        BY <2>4 DEF CtxDrains, CtxRemoved, CtxWrites
      <3>2. DropCounts(context_map[t]) \subseteq 0..Len(context_map[t].buf)
        BY <1>0, <3>1, CtxType, CountsType
      <3>3. \E k \in 0..Len(context_map[t].buf) :
               disk'[PathOf[t]] = DrainedCells(disk[PathOf[t]], context_map[t], k)
        BY <2>4, <3>2 DEF CtxDrains, CtxRemoved, CtxWrites
      <3> QED BY <1>0, <3>1, <3>3, DrainsWhole
    <2> QED BY <2>1, <2>2, <2>3, <2>4
  <1> QED BY <1>1, <1>2 DEF ContextsWhole

(* A context's file has no gap, whatever fails, as long as nobody registers
   a tag while lines of it are buffered: what the dropped writer of such a
   tag does to the new file is all that can go wrong with it. *)
THEOREM ContextFileNoHoleAlways ==
  ASSUME GlobalPathPrivate, OwnFiles
  PROVE  Spec /\ []RegistersFlushed => []ContextFileNoHole
  <1>1. Init => ContextInv /\ ContextsWhole
    <2>1. Init => ContextsWhole
      BY EmptySeq DEF Init, ContextsWhole, Paths
    <2> QED BY <2>1, InitContext
  <1>2. RegistersFlushed /\ ContextInv /\ ContextsWhole /\ [Next]_vars
          => ContextInv' /\ ContextsWhole'
    BY StepContext, ContextsWholeStep
  <1>3. ContextsWhole => ContextFileNoHole
    <2> SUFFICES ASSUME ContextsWhole, NEW t \in Tags
                 PROVE  Hole \notin Range(disk[PathOf[t]])
      BY DEF ContextFileNoHole
    <2>1. disk[PathOf[t]] \in Seq(Entries)
      BY DEF ContextsWhole
    <2> DEFINE cells == disk[PathOf[t]]
    <2> HIDE DEF cells
    <2>2. \A i \in DOMAIN cells : cells[i] \in Entries
      BY <2>1, ElementOfSeq, LenProperties DEF cells
    <2> QED BY <2>2, FilesAssumption DEF Range, cells
  <1> QED BY <1>1, <1>2, <1>3, PTL DEF Spec
=============================================================================
