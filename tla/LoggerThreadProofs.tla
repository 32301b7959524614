------------------------- MODULE LoggerThreadProofs --------------------------
(***************************************************************************)
(* Proofs about LoggerThread for any clients, tags, programs and bounds.   *)
(***************************************************************************)
EXTENDS LoggerThread, SequenceLemmas

-----------------------------------------------------------------------------
(* The operators of BufferedFile, for any entries: a writer that is at the *)
(* end of its file appends, and draining its buffer moves entries to the   *)
(* file without changing the lines of file and buffer together.            *)

(* A write through a File leaves a sequence of cells, whatever its offset. *)
LEMMA WriteAtType ==
  ASSUME NEW S, Hole \in S, NEW cells \in Seq(S), NEW pos \in Nat,
         NEW entries \in Seq(S)
  PROVE  WriteAt(cells, pos, entries) \in Seq(S)
  <1> DEFINE end == pos + Len(entries)
             len == IF end > Len(cells) THEN end ELSE Len(cells)
             at(j) == IF pos < j /\ j <= end THEN entries[j - pos]
                      ELSE IF j <= Len(cells) THEN cells[j] ELSE Hole
  <1>1. len \in Nat
    OBVIOUS
  <1>2. ASSUME NEW j \in 1..len PROVE at(j) \in S
    <2>1. CASE pos < j /\ j <= end
      BY <2>1, j - pos \in 1..Len(entries), ElementOfSeq
    <2>2. CASE ~(pos < j /\ j <= end) /\ j <= Len(cells)
      BY <2>2, j \in 1..Len(cells), ElementOfSeq
    <2> QED BY <2>1, <2>2
  <1> HIDE DEF len
  <1>3. [j \in 1..len |-> at(j)] \in Seq(S)
    BY <1>1, <1>2
  <1> QED
    BY <1>3 DEF WriteAt, len

(* At the end of the file, a write appends. *)
LEMMA WriteAtEnd ==
  ASSUME NEW S, NEW cells \in Seq(S), NEW entries \in Seq(S)
  PROVE  WriteAt(cells, Len(cells), entries) = cells \o entries
  <1>1. CASE entries = <<>>
    BY <1>1, ConcatEmptySeq DEF WriteAt
  <1>2. CASE entries # <<>>
    <2> DEFINE end == Len(cells) + Len(entries)
    <2>1. Len(entries) \in Nat \ {0} /\ Len(cells) \in Nat
      BY <1>2, EmptySeq
    <2>2. WriteAt(cells, Len(cells), entries)
            = [j \in 1..end |-> IF Len(cells) < j /\ j <= end
                                THEN entries[j - Len(cells)]
                                ELSE IF j <= Len(cells) THEN cells[j] ELSE Hole]
      BY <1>2, <2>1 DEF WriteAt
    <2>3. @ = [j \in 1..end |-> IF j <= Len(cells) THEN cells[j]
                                ELSE entries[j - Len(cells)]]
      BY <2>1
    <2> DEFINE f == [j \in 1..end |-> IF j <= Len(cells) THEN cells[j]
                                      ELSE entries[j - Len(cells)]]
    <2>4. ASSUME NEW j \in 1..end
          PROVE  (IF j <= Len(cells) THEN cells[j] ELSE entries[j - Len(cells)]) \in S
      <3>1. CASE j <= Len(cells)
        BY <2>1, <3>1, j \in 1..Len(cells), ElementOfSeq
      <3>2. CASE ~(j <= Len(cells))
        BY <2>1, <3>2, j - Len(cells) \in 1..Len(entries), ElementOfSeq
      <3> QED BY <3>1, <3>2
    <2>5. end \in Nat
      BY <2>1
    <2> HIDE DEF end
    <2>6. f \in Seq(S) /\ Len(f) = end
      BY <2>4, <2>5
    <2>7. \A j \in 1..end : f[j] = (cells \o entries)[j]
      BY ConcatProperties DEF end
    <2>8. cells \o entries \in Seq(S) /\ Len(cells \o entries) = end
      BY ConcatProperties DEF end
    <2> HIDE DEF f
    <2>9. f = cells \o entries
      BY <2>6, <2>7, <2>8, SeqEqual
    <2> QED BY <2>2, <2>3, <2>9 DEF f, end
  <1> QED BY <1>1, <1>2

(* Draining a writer that is at the end of its file keeps it there, and    *)
(* keeps the lines of file and buffer together.                            *)
LEMMA DrainKeepsLines ==
  ASSUME NEW S, NEW cells \in Seq(S),
         NEW w \in [pos : Nat, buf : Seq(S)], w.pos = Len(cells),
         NEW k \in 0..Len(w.buf)
  PROVE  /\ DrainedCells(cells, w, k) = cells \o SubSeq(w.buf, 1, k)
         /\ DrainedCells(cells, w, k) \in Seq(S)
         /\ Drained(w, k).pos = Len(DrainedCells(cells, w, k))
         /\ DrainedCells(cells, w, k) \o Drained(w, k).buf = cells \o w.buf
  <1> DEFINE b == w.buf
             gone == SubSeq(b, 1, k)
             kept == SubSeq(b, k + 1, Len(b))
  <1>0. b \in Seq(S) /\ k \in 0..Len(b)
    OBVIOUS
  <1>1. Drained(w, k).pos = Len(cells) + k /\ Drained(w, k).buf = kept
    BY DEF Drained
  <1>2. DrainedCells(cells, w, k) = WriteAt(cells, Len(cells), gone)
    BY DEF DrainedCells
  <1> HIDE DEF b
  <1>3. /\ gone \in Seq(S) /\ kept \in Seq(S) /\ Len(gone) = k
        /\ gone \o kept = b
    BY <1>0, BufferSplit
  <1>5. (cells \o gone) \o kept = cells \o b
    BY <1>0, BufferMoves
  <1> HIDE DEF gone, kept
  <1>4. DrainedCells(cells, w, k) = cells \o gone
    BY <1>2, <1>3, WriteAtEnd
  <1>6. /\ cells \o gone \in Seq(S)
        /\ Len(cells \o gone) = Len(cells) + k
    BY <1>3, ConcatProperties
  <1> QED
    BY <1>1, <1>4, <1>5, <1>6 DEF gone, b

-----------------------------------------------------------------------------
(* Types. *)

Cells == Entries \cup {Hole}

(* Draining a writer's buffer leaves a writer and a file. *)
LEMMA DrainType ==
  ASSUME NEW w \in Writers, NEW k \in 0..Len(w.buf), NEW cells \in Seq(Cells)
  PROVE  Drained(w, k) \in Writers /\ DrainedCells(cells, w, k) \in Seq(Cells)
  <1> DEFINE b == w.buf
             p == w.pos
  <1>1. b \in Seq(Entries) /\ p \in Nat /\ k \in 0..Len(b)
    BY DEF Writers
  <1>2. /\ Drained(w, k) = [pos |-> p + k, buf |-> SubSeq(b, k + 1, Len(b))]
        /\ DrainedCells(cells, w, k) = WriteAt(cells, p, SubSeq(b, 1, k))
    BY DEF Drained, DrainedCells
  <1> HIDE DEF b, p
  <1>3. /\ SubSeq(b, 1, k) \in Seq(Entries)
        /\ SubSeq(b, k + 1, Len(b)) \in Seq(Entries)
    BY <1>1, BufferSplit
  <1>4. SubSeq(b, 1, k) \in Seq(Cells)
    BY <1>3, SeqMonotonic DEF Cells
  <1>5. WriteAt(cells, p, SubSeq(b, 1, k)) \in Seq(Cells)
    BY <1>1, <1>4, WriteAtType DEF Cells
  <1>6. [pos |-> p + k, buf |-> SubSeq(b, k + 1, Len(b))] \in Writers
    BY <1>1, <1>3 DEF Writers
  <1> QED
    BY <1>2, <1>5, <1>6

(* Buffering a line leaves a writer; so does creating a file. *)
LEMMA BufferedType ==
  ASSUME NEW w \in Writers, NEW e \in Entries
  PROVE  /\ Buffered(w, e) \in Writers
         /\ Buffered(w, e).pos = w.pos
         /\ Buffered(w, e).buf = Append(w.buf, e)
  BY DEF Buffered, Writers

(* A file just created has a writer. *)
LEMMA NewWriterType == NewWriter \in Writers
  BY DEF NewWriter, Writers

(* The log thread's last message is an entry. *)
LEMMA ErrorEntryType == ErrorEntry \in Entries
  BY ConstantsAssumption DEF ErrorEntry, Entries

(* The entries of a call are entries. *)
LEMMA BurstType ==
  ASSUME TypeOK, NEW c \in Clients, NEW k \in Nat, NEW sizes \in [1..k -> ChunkCounts]
  PROVE  Burst(c, sizes) \in Seq(Entries)
  <1> DEFINE entry(i) == [from |-> c, n |-> calls[c], i |-> i, tag |-> tag[c],
                          chunks |-> sizes[i], part |-> 0]
  <1>1. Len(sizes) = k
    <2>1. sizes = [i \in 1..k |-> sizes[i]]
      OBVIOUS
    <2>2. \A i \in 1..k : sizes[i] \in ChunkCounts
      OBVIOUS
    <2>3. Len([i \in 1..k |-> sizes[i]]) = k
      OBVIOUS
    <2> QED BY <2>1, <2>3
  <1>2. \A i \in 1..k : entry(i) \in Entries
    <2> TAKE i \in 1..k
    <2>1. sizes[i] \in Nat
      BY ConstantsAssumption
    <2> QED BY <2>1 DEF TypeOK, Entries
  <1>3. Burst(c, sizes) = [i \in 1..k |-> entry(i)]
    BY <1>1 DEF Burst
  <1> HIDE DEF entry
  <1> QED
    BY <1>2, <1>3

-----------------------------------------------------------------------------
(* Splitting the entries of a batch into their chunks. *)

(* The chunks of an entry are entries, alike but for their part. *)
LEMMA ChunksOfType ==
  ASSUME NEW e \in Entries
  PROVE  /\ ChunksOf(e) \in Seq({x \in Entries : [x EXCEPT !.part = 0] = [e EXCEPT !.part = 0]})
         /\ ChunksOf(e) \in Seq(Entries)
  <1> DEFINE T == {x \in Entries : [x EXCEPT !.part = 0] = [e EXCEPT !.part = 0]}
  <1>1. e.chunks \in Nat
    BY DEF Entries
  <1>2. \A p \in 1..e.chunks : [e EXCEPT !.part = p] \in T
    <2> TAKE p \in 1..e.chunks
    <2>1. [e EXCEPT !.part = p] \in Entries
      BY <1>1 DEF Entries
    <2>2. [[e EXCEPT !.part = p] EXCEPT !.part = 0] = [e EXCEPT !.part = 0]
      BY DEF Entries
    <2> QED BY <2>1, <2>2
  <1> HIDE DEF T
  <1>3. ChunksOf(e) \in Seq(T)
    BY <1>1, <1>2 DEF ChunksOf
  <1>4. ChunksOf(e) \in Seq(Entries)
    BY <1>3, SeqMonotonic DEF T
  <1> QED BY <1>3, <1>4 DEF T

(* The chunks of a batch are entries, from no other entries than its own. *)
LEMMA SplitType ==
  ASSUME NEW logs \in Seq(Entries)
  PROVE  /\ SplitLogs(logs) \in Seq(Entries)
         /\ EntriesOf(SplitLogs(logs)) \subseteq EntriesOf(logs)
  <1> DEFINE T == {x \in Entries : [x EXCEPT !.part = 0] \in EntriesOf(logs)}
             parts == [k \in 1..Len(logs) |-> ChunksOf(logs[k])]
  <1>1. \A k \in 1..Len(logs) : ChunksOf(logs[k]) \in Seq(T)
    <2> TAKE k \in 1..Len(logs)
    <2> DEFINE U == {x \in Entries : [x EXCEPT !.part = 0] = [logs[k] EXCEPT !.part = 0]}
    <2>1. logs[k] \in Entries /\ k \in DOMAIN logs
      BY ElementOfSeq, LenProperties
    <2>2. [logs[k] EXCEPT !.part = 0] \in EntriesOf(logs)
      BY <2>1 DEF EntriesOf, Range
    <2>3. U \subseteq T
      BY <2>2
    <2>4. ChunksOf(logs[k]) \in Seq(U)
      BY <2>1, ChunksOfType
    <2> HIDE DEF U, T
    <2> QED BY <2>3, <2>4, SeqMonotonic
  <1>2. Len(logs) \in Nat
    BY LenProperties
  <1> HIDE DEF T
  <1>3. parts \in Seq(Seq(T))
    BY <1>1, <1>2
  <1>4. FlattenSeq(parts) \in Seq(T)
    <2> HIDE DEF parts
    <2> QED BY <1>3, EmptySeq, FlattenAppend
  <1>5. SplitLogs(logs) \in Seq(T)
    BY <1>4 DEF SplitLogs
  <1>6. SplitLogs(logs) \in Seq(Entries)
    BY <1>5, SeqMonotonic DEF T
  <1>7. Range(SplitLogs(logs)) \subseteq T
    BY <1>5, RangeOfSeq
  <1>8. EntriesOf(SplitLogs(logs)) \subseteq EntriesOf(logs)
    BY <1>7 DEF EntriesOf, T
  <1> QED BY <1>6, <1>8

(* Nothing splits into nothing. *)
LEMMA SplitNothing == SplitLogs(<<>>) = <<>>
  <1>1. [k \in 1..Len(<<>>) |-> ChunksOf(<<>>[k])] = <<>>
    OBVIOUS
  <1> QED BY <1>1, FlattenEmpty DEF SplitLogs

(* Splitting works entry by entry. *)
LEMMA SplitConcat ==
  ASSUME NEW a \in Seq(Entries), NEW b \in Seq(Entries)
  PROVE  SplitLogs(a \o b) = SplitLogs(a) \o SplitLogs(b)
  <1> DEFINE S == Seq(Entries)
             ab == a \o b
             pa == [k \in 1..Len(a) |-> ChunksOf(a[k])]
             pb == [k \in 1..Len(b) |-> ChunksOf(b[k])]
             pab == [k \in 1..Len(ab) |-> ChunksOf(ab[k])]
  <1>1. /\ ab \in Seq(Entries) /\ Len(ab) = Len(a) + Len(b)
        /\ \A i \in 1..(Len(a) + Len(b)) : ab[i] = IF i <= Len(a) THEN a[i] ELSE b[i - Len(a)]
    BY ConcatProperties
  <1>2. Len(a) \in Nat /\ Len(b) \in Nat
    BY LenProperties
  <1> HIDE DEF ab
  <1>3. /\ \A k \in 1..Len(a) : ChunksOf(a[k]) \in S
        /\ \A k \in 1..Len(b) : ChunksOf(b[k]) \in S
        /\ \A k \in 1..Len(ab) : ChunksOf(ab[k]) \in S
    BY <1>1, ElementOfSeq, ChunksOfType
  <1> HIDE DEF S
  <1>4. /\ pa \in Seq(S) /\ Len(pa) = Len(a)
        /\ pb \in Seq(S) /\ Len(pb) = Len(b)
        /\ pab \in Seq(S) /\ Len(pab) = Len(a) + Len(b)
    BY <1>1, <1>2, <1>3
  <1>5. \A i \in 1..(Len(a) + Len(b)) :
           pab[i] = IF i <= Len(a) THEN pa[i] ELSE pb[i - Len(a)]
    <2> TAKE i \in 1..(Len(a) + Len(b))
    <2>1. pab[i] = ChunksOf(ab[i])
      BY <1>1
    <2>2. CASE i <= Len(a)
      BY <1>1, <2>1, <2>2, i \in 1..Len(a)
    <2>3. CASE ~(i <= Len(a))
      <3>1. i - Len(a) \in 1..Len(b)
        BY <1>2, <2>3
      <3> QED BY <1>1, <2>1, <2>3, <3>1
    <2> QED BY <2>2, <2>3
  <1> HIDE DEF pa, pb, pab
  <1>6. pab = pa \o pb
    <2>1. /\ pa \o pb \in Seq(S) /\ Len(pa \o pb) = Len(pa) + Len(pb)
          /\ \A i \in 1..(Len(pa) + Len(pb)) :
                (pa \o pb)[i] = IF i <= Len(pa) THEN pa[i] ELSE pb[i - Len(pa)]
      <3>1. pa \in Seq(S) /\ pb \in Seq(S)
        BY <1>4
      <3> QED BY <3>1, ConcatProperties, ZenonT(30)
    <2> DEFINE l == Len(a)
               m == Len(b)
               ps == pa \o pb
    <2>2. Len(pa) = l /\ Len(pb) = m /\ Len(pab) = l + m
      BY <1>4
    <2>3. \A i \in 1..(l + m) : ps[i] = IF i <= l THEN pa[i] ELSE pb[i - l]
      BY <2>1, <2>2
    <2>4. \A i \in 1..(l + m) : pab[i] = IF i <= l THEN pa[i] ELSE pb[i - l]
      BY <1>5
    <2>5. ps \in Seq(S) /\ Len(ps) = l + m
      BY <2>1, <2>2
    <2> HIDE DEF l, m, ps
    <2>6. \A i \in 1..Len(pab) : pab[i] = ps[i]
      BY <2>2, <2>3, <2>4
    <2> QED BY <1>4, <2>2, <2>5, <2>6, SeqEqual DEF ps
  <1>7. FlattenSeq(pa \o pb) = FlattenSeq(pa) \o FlattenSeq(pb)
    BY <1>4, FlattenConcat DEF S
  <1> QED BY <1>6, <1>7 DEF SplitLogs, pa, pb, pab, ab

(* A sequence of chunks has finitely many entries, no more than chunks. *)
LEMMA EntriesOfBound ==
  ASSUME NEW q \in Seq(Entries)
  PROVE  IsFiniteSet(EntriesOf(q)) /\ Cardinality(EntriesOf(q)) <= Len(q)
  <1> DEFINE f == [i \in 1..Len(q) |-> [q[i] EXCEPT !.part = 0]]
             T == EntriesOf(q)
  <1>1. Len(q) \in Nat /\ DOMAIN q = 1..Len(q)
    BY LenProperties
  <1>2. T = {f[i] : i \in 1..Len(q)}
    BY <1>1 DEF EntriesOf, Range
  <1>3. f \in [1..Len(q) -> T] /\ T = Range(f)
    BY <1>2 DEF Range
  <1> HIDE DEF f, T
  <1>4. IsFiniteSet(Range(f)) /\ Cardinality(Range(f)) <= Len(q)
    BY <1>1, <1>3, RangeBound
  <1> QED BY <1>3, <1>4 DEF T

-----------------------------------------------------------------------------
(* Types of the steps. *)

(* What can be drained before a write, and when a write or a flush fails. *)
LEMMA CountsType ==
  ASSUME NEW w \in Writers
  PROVE  /\ SpillCounts(w) \subseteq 0..Len(w.buf)
         /\ FailedWriteCounts(w) \subseteq 0..Len(w.buf)
         /\ FailedFlushCounts(w) \subseteq 0..Len(w.buf)
         /\ DropCounts(w) \subseteq 0..Len(w.buf)
         /\ Len(w.buf) \in 0..Len(w.buf)
  BY DEF Writers, SpillCounts, FailedWriteCounts, FailedFlushCounts, DropCounts

FilesTyped ==
    /\ disk \in [Paths -> Seq(Cells)]
    /\ global_file \in Writers
    /\ context_map \in [Tags -> Writers \cup {NoFile}]

(* Writing an entry, or failing to, keeps the files' types. *)
LEMMA WriteEntryType ==
  ASSUME FilesTyped, NEW e \in Entries, WriteEntry(e) \/ WriteEntryFails(e)
  PROVE  FilesTyped'
  <1>0. GlobalPath \in Paths /\ \A t \in Tags : PathOf[t] \in Paths
    BY DEF Paths
  <1> DEFINE d(g) == [disk EXCEPT ![GlobalPath] = DrainedCells(@, global_file, g)]
  <1>1. \A g \in 0..Len(global_file.buf) :
           /\ d(g) \in [Paths -> Seq(Cells)]
           /\ Drained(global_file, g) \in Writers
           /\ Buffered(Drained(global_file, g), e) \in Writers
    BY <1>0, DrainType, BufferedType DEF FilesTyped
  <1>2. \A f \in [Paths -> Seq(Cells)] : \A t \in Tags : context_map[t] # NoFile =>
           \A k \in 0..Len(context_map[t].buf) :
              /\ [f EXCEPT ![PathOf[t]] = DrainedCells(@, context_map[t], k)]
                     \in [Paths -> Seq(Cells)]
              /\ Drained(context_map[t], k) \in Writers
              /\ Buffered(Drained(context_map[t], k), e) \in Writers
    BY <1>0, DrainType, BufferedType DEF FilesTyped
  <1>3. /\ SpillCounts(global_file) \subseteq 0..Len(global_file.buf)
        /\ FailedWriteCounts(global_file) \subseteq 0..Len(global_file.buf)
    BY CountsType DEF FilesTyped
  <1>4. \A t \in Tags : context_map[t] # NoFile =>
           /\ SpillCounts(context_map[t]) \subseteq 0..Len(context_map[t].buf)
           /\ FailedWriteCounts(context_map[t]) \subseteq 0..Len(context_map[t].buf)
    BY CountsType DEF FilesTyped
  <1>5. CASE WriteEntry(e)
    <2>1. PICK g \in SpillCounts(global_file) :
             /\ global_file' = Buffered(Drained(global_file, g), e)
             /\ \/ /\ ~HasContext(e)
                   /\ disk' = d(g)
                   /\ UNCHANGED context_map
                \/ /\ HasContext(e)
                   /\ \E k \in SpillCounts(context_map[e.tag]) :
                        /\ disk' = [d(g) EXCEPT ![PathOf[e.tag]] =
                                       DrainedCells(@, context_map[e.tag], k)]
                        /\ context_map' = [context_map EXCEPT ![e.tag] =
                                       Buffered(Drained(context_map[e.tag], k), e)]
      BY <1>5 DEF WriteEntry
    <2> HIDE DEF d
    <2>2. global_file' \in Writers /\ d(g) \in [Paths -> Seq(Cells)]
      BY <1>1, <1>3, <2>1
    <2>3. CASE ~HasContext(e)
      BY <2>1, <2>2, <2>3 DEF FilesTyped
    <2>4. CASE HasContext(e)
      <3>1. e.tag \in Tags /\ context_map[e.tag] # NoFile
        BY <2>4 DEF HasContext
      <3>2. PICK k \in 0..Len(context_map[e.tag].buf) :
               /\ disk' = [d(g) EXCEPT ![PathOf[e.tag]] =
                              DrainedCells(@, context_map[e.tag], k)]
               /\ context_map' = [context_map EXCEPT ![e.tag] =
                              Buffered(Drained(context_map[e.tag], k), e)]
        BY <1>4, <2>1, <2>4, <3>1
      <3>3. disk' \in [Paths -> Seq(Cells)]
        BY <1>2, <2>2, <3>1, <3>2
      <3>4. context_map' \in [Tags -> Writers \cup {NoFile}]
        BY <1>2, <2>2, <3>1, <3>2 DEF FilesTyped
      <3> QED BY <2>2, <3>3, <3>4 DEF FilesTyped
    <2> QED BY <2>3, <2>4
  <1>6. CASE WriteEntryFails(e)
    <2>1. CASE /\ UNCHANGED context_map
               /\ \E k \in FailedWriteCounts(global_file) :
                     /\ global_file' = Drained(global_file, k)
                     /\ disk' = d(k)
      BY <1>1, <1>3, <2>1 DEF FilesTyped
    <2>2. CASE /\ HasContext(e)
               /\ \E g \in SpillCounts(global_file),
                     k \in FailedWriteCounts(context_map[e.tag]) :
                     /\ global_file' = Buffered(Drained(global_file, g), e)
                     /\ disk' = [d(g) EXCEPT ![PathOf[e.tag]] =
                                    DrainedCells(@, context_map[e.tag], k)]
                     /\ context_map' = [context_map EXCEPT ![e.tag] =
                                    Drained(context_map[e.tag], k)]
      <3>1. e.tag \in Tags /\ context_map[e.tag] # NoFile
        BY <2>2 DEF HasContext
      <3> HIDE DEF d
      <3>2. PICK g \in 0..Len(global_file.buf), k \in 0..Len(context_map[e.tag].buf) :
               /\ global_file' = Buffered(Drained(global_file, g), e)
               /\ disk' = [d(g) EXCEPT ![PathOf[e.tag]] =
                              DrainedCells(@, context_map[e.tag], k)]
               /\ context_map' = [context_map EXCEPT ![e.tag] =
                              Drained(context_map[e.tag], k)]
        BY <1>3, <1>4, <2>2, <3>1
      <3>3. d(g) \in [Paths -> Seq(Cells)] /\ global_file' \in Writers
        BY <1>1, <3>2
      <3>4. disk' \in [Paths -> Seq(Cells)]
        BY <1>2, <3>1, <3>2, <3>3
      <3>5. context_map' \in [Tags -> Writers \cup {NoFile}]
        BY <1>2, <3>1, <3>2, <3>3 DEF FilesTyped
      <3> QED BY <3>3, <3>4, <3>5 DEF FilesTyped
    <2> QED
      BY <1>6, <2>1, <2>2 DEF WriteEntryFails
  <1> QED
    BY <1>5, <1>6

(* The state of the clients, of the log thread and of what they share      *)
(* apart from the files.                                                   *)
RestTyped ==
    /\ queue \in Seq(Entries)
    /\ pushed \in Seq(Entries)
    /\ logFlag \in BOOLEAN
    /\ flushFlag \in BOOLEAN
    /\ writer \in Clients \cup {LogThread, NoThread}
    /\ readers \in SUBSET Clients
    /\ sinks \in Seq(Seq(Entries))
    /\ lpc \in LogPoints
    /\ batch \in Seq(Entries)
    /\ next \in 1..(Len(batch) + 1)
    /\ logged \in Nat
    /\ todo \in SUBSET Tags
    /\ failed \in BOOLEAN
    /\ cpc \in [Clients -> ClientPoints]
    /\ tag \in [Clients -> Tags \cup {NoTag}]
    /\ calls \in [Clients -> Nat]
    /\ since \in [Tags -> Nat]

(* The type invariant is that of the files and that of the rest. *)
LEMMA TypeSplit == TypeOK <=> FilesTyped /\ RestTyped
  BY DEF TypeOK, FilesTyped, RestTyped, Cells

(* The same in the next state. *)
LEMMA TypeSplitNext == TypeOK' <=> FilesTyped' /\ RestTyped'
  BY DEF TypeOK, FilesTyped, RestTyped, Cells

(* The lines of the global log are cells. *)
LEMMA GlobalLinesType ==
  ASSUME FilesTyped
  PROVE  /\ disk[GlobalPath] \in Seq(Cells)
         /\ global_file.buf \in Seq(Cells)
         /\ GlobalLines \in Seq(Cells)
  <1>1. disk[GlobalPath] \in Seq(Cells)
    BY DEF FilesTyped, Paths
  <1>2. global_file.buf \in Seq(Entries)
    BY DEF FilesTyped, Writers
  <1>3. global_file.buf \in Seq(Cells)
    BY <1>2, SeqMonotonic DEF Cells
  <1> QED
    BY <1>1, <1>3, ConcatProperties DEF GlobalLines

(* Calling the first sinks with an entry keeps every sink's history one.   *)
LEMMA DeliveredType ==
  ASSUME sinks \in Seq(Seq(Entries)), NEW e \in Entries, NEW k
  PROVE  Delivered(e, k) \in Seq(Seq(Entries))
  <1>1. \A j \in 1..Len(sinks) :
           (IF j <= k THEN Append(sinks[j], e) ELSE sinks[j]) \in Seq(Entries)
    <2> TAKE j \in 1..Len(sinks)
    <2>1. sinks[j] \in Seq(Entries)
      BY ElementOfSeq
    <2> QED BY <2>1, AppendProperties
  <1> QED
    BY <1>1 DEF Delivered

(* A push adds some entries to the queue, and their chunks to the history. *)
LEMMA PushAdds ==
  ASSUME TypeOK, NEW c \in Clients, Push(c)
  PROVE  \E d \in Seq(Entries) : queue' = queue \o d /\ pushed' = pushed \o SplitLogs(d)
  <1>1. PICK k \in 0..MaxBurst \cup {1} : \E sizes \in [1..k -> ChunkCounts] :
           /\ queue' = queue \o Burst(c, sizes)
           /\ pushed' = pushed \o SplitLogs(Burst(c, sizes))
    BY DEF Push
  <1>2. PICK sizes \in [1..k -> ChunkCounts] :
           /\ queue' = queue \o Burst(c, sizes)
           /\ pushed' = pushed \o SplitLogs(Burst(c, sizes))
    BY <1>1
  <1>3. k \in Nat
    BY ConstantsAssumption
  <1>4. Burst(c, sizes) \in Seq(Entries)
    BY <1>3, BurstType
  <1> QED BY <1>2, <1>4

(* Every step of a client keeps the types. *)
LEMMA ClientType ==
  ASSUME TypeOK, PointsConsistent, NEW c \in Clients,
         \/ \E name \in CallNames : \E t \in TagsOf(name) : Call(c, name, t)
         \/ ClientStep(c) \/ AddContextFails(c) \/ WaitTimesOut(c)
  PROVE  TypeOK'
  <1> SUFFICES FilesTyped' /\ RestTyped'
    BY TypeSplitNext
  <1>a. FilesTyped /\ RestTyped
    BY TypeSplit
  <1> USE <1>a
  <1>1. ASSUME NEW name \in CallNames, NEW t \in TagsOf(name), Call(c, name, t)
        PROVE  FilesTyped' /\ RestTyped'
    <2>1. t \in Tags \cup {NoTag}
      BY DEF TagsOf
    <2>2. FirstPoint[name] \in ClientPoints
      BY DEF FirstPoint, CallNames, ClientPoints
    <2> QED
      BY <1>1, <2>1, <2>2, SMTT(30)
         DEF Call, Goto, FilesTyped, RestTyped, files, logVars, history
  <1>2. CASE ReadLock(c)
    BY <1>2 DEF ReadLock, Goto, ClientPoints, FilesTyped, RestTyped, files, logVars, history
  <1>3. CASE Push(c)
    <2>1. PICK d \in Seq(Entries) :
             queue' = queue \o d /\ pushed' = pushed \o SplitLogs(d)
      BY <1>3, PushAdds
    <2>2. SplitLogs(d) \in Seq(Entries)
      BY SplitType
    <2>4. queue' \in Seq(Entries) /\ pushed' \in Seq(Entries)
      BY <2>1, <2>2, ConcatProperties DEF RestTyped
    <2> QED
      BY <1>3, <2>4 DEF Push, Goto, ClientPoints, FilesTyped, RestTyped, files, logVars
  <1>4. CASE Signal(c) \/ WaitForFlush(c) \/ WaitTimesOut(c)
    BY <1>4 DEF Signal, WaitForFlush, WaitTimesOut, Return, Goto, ClientPoints,
                FilesTyped, RestTyped, files, logVars, history
  <1>5. CASE ClientClaim(c)
    BY <1>5 DEF ClientClaim, Claim, Goto, ClientPoints, FilesTyped, RestTyped, files,
                logVars, history
  <1>6. CASE AddContext(c)
    <2> DEFINE t == tag[c]
               old == IF context_map[t] = NoFile THEN NewWriter ELSE context_map[t]
    <2>1. t \in Tags /\ PathOf[t] \in Paths
      BY <1>6 DEF AddContext, PointsConsistent, Paths
    <2>2. old \in Writers
      BY <2>1, NewWriterType DEF FilesTyped
    <2>3. PICK k \in DropCounts(old) :
             disk' = [disk EXCEPT ![PathOf[t]] = DrainedCells(<<>>, old, k)]
      BY <1>6 DEF AddContext
    <2>4. DrainedCells(<<>>, old, k) \in Seq(Cells)
      <3> HIDE DEF old
      <3>1. k \in 0..Len(old.buf)
        BY <2>2, CountsType
      <3> QED BY <2>2, <3>1, DrainType, EmptySeq
    <2>5. disk' \in [Paths -> Seq(Cells)]
      BY <2>1, <2>3, <2>4 DEF FilesTyped
    <2>6. Len(GlobalLines) \in Nat
      BY GlobalLinesType, LenProperties
    <2>7. FilesTyped'
      BY <1>6, <2>5, NewWriterType DEF AddContext, FilesTyped
    <2>8. RestTyped'
      BY <1>6, <2>1, <2>6
         DEF AddContext, ReleaseWrite, Return, Goto, ClientPoints, RestTyped, logVars
    <2> QED BY <2>7, <2>8
  <1>7. CASE AddContextFails(c)
    BY <1>7 DEF AddContextFails, ReleaseWrite, Goto, ClientPoints, FilesTyped,
                RestTyped, files, logVars, history
  <1>8. CASE RemoveContext(c)
    <2> DEFINE t == tag[c]
    <2>1. t \in Tags /\ PathOf[t] \in Paths
      BY <1>8 DEF RemoveContext, PointsConsistent, Paths
    <2>2. disk' \in [Paths -> Seq(Cells)]
      <3>1. CASE context_map[t] = NoFile /\ UNCHANGED disk
        BY <3>1 DEF FilesTyped
      <3>2. CASE /\ context_map[t] # NoFile
                 /\ \E k \in DropCounts(context_map[t]) :
                      disk' = [disk EXCEPT ![PathOf[t]] =
                                 DrainedCells(@, context_map[t], k)]
        <4>1. context_map[t] \in Writers
          BY <2>1, <3>2 DEF FilesTyped
        <4>2. PICK k \in 0..Len(context_map[t].buf) :
                 disk' = [disk EXCEPT ![PathOf[t]] = DrainedCells(@, context_map[t], k)]
          BY <3>2, <4>1, CountsType
        <4>3. DrainedCells(disk[PathOf[t]], context_map[t], k) \in Seq(Cells)
          BY <2>1, <4>1, DrainType DEF FilesTyped
        <4> QED BY <4>2, <4>3 DEF FilesTyped
      <3> QED BY <1>8, <3>1, <3>2 DEF RemoveContext
    <2>3. context_map' \in [Tags -> Writers \cup {NoFile}]
      BY <1>8, <2>1 DEF RemoveContext, FilesTyped
    <2>4. FilesTyped'
      BY <1>8, <2>2, <2>3 DEF RemoveContext, FilesTyped
    <2>5. RestTyped'
      BY <1>8 DEF RemoveContext, ReleaseWrite, Return, Goto, ClientPoints,
                  RestTyped, logVars, history
    <2> QED BY <2>4, <2>5
  <1>9. CASE AddSink(c)
    BY <1>9 DEF AddSink, ReleaseWrite, Return, Goto, ClientPoints, FilesTyped,
                RestTyped, files, logVars, history
  <1> QED
    BY <1>1, <1>2, <1>3, <1>4, <1>5, <1>6, <1>7, <1>8, <1>9 DEF ClientStep

LogNext == LogStep \/ LogFailure \/ ErrorStep

(* Every step of the log thread keeps the types. *)
LEMMA LogType ==
  ASSUME TypeOK, PointsConsistent, LogNext
  PROVE  TypeOK'
  <1> SUFFICES FilesTyped' /\ RestTyped'
    BY TypeSplitNext
  <1>a. FilesTyped /\ RestTyped
    BY TypeSplit
  <1>b. next <= Len(batch) => batch[next] \in Entries
    BY <1>a, ElementOfSeq DEF RestTyped
  <1> USE <1>a
  <1>1. CASE TakeQueue
    BY <1>1 DEF TakeQueue, LogGoto, LogPoints, FilesTyped, RestTyped, files,
                clientVars, history
  <1>2. CASE BackendsDone \/ CheckFlush \/ CheckWait
    BY <1>2 DEF BackendsDone, CheckFlush, CheckWait, LogGoto, LogPoints,
                FilesTyped, RestTyped, shared, files, clientVars, history
  <1>2a. CASE ReadConfig
    <2>1. batch' \in Seq(Entries)
      BY <1>2a, SplitType DEF ReadConfig, RestTyped
    <2>2. next' = 1 /\ lpc' \in LogPoints
      BY <1>2a DEF ReadConfig, LogGoto, LogPoints, PointsConsistent
    <2>3. next' \in 1..(Len(batch') + 1)
      BY <2>1, <2>2
    <2> QED
      BY <1>2a, <2>1, <2>2, <2>3
         DEF ReadConfig, FilesTyped, RestTyped, shared, files, clientVars, history
  <1>3. CASE LogClaim \/ Wake
    BY <1>3 DEF LogClaim, Wake, Claim, LogGoto, LogPoints, FilesTyped, RestTyped,
                files, clientVars, history
  <1>4. CASE BatchWrite
    <2>1. FilesTyped'
      BY <1>4, <1>b, WriteEntryType DEF BatchWrite
    <2>2. RestTyped'
      BY <1>4 DEF BatchWrite, RestTyped, clientVars, history
    <2> QED BY <2>1, <2>2
  <1>5. CASE BatchWritten
    BY <1>5 DEF BatchWritten, ReleaseWrite, LogGoto, LogPoints, FilesTyped, RestTyped,
                files, clientVars, history
  <1>6. CASE BatchWriteFails
    <2>1. FilesTyped'
      BY <1>6, <1>b, WriteEntryType DEF BatchWriteFails
    <2>2. RestTyped'
      BY <1>6 DEF BatchWriteFails, ReleaseWrite, LogGoto, LogPoints, RestTyped,
                  clientVars, history
    <2> QED BY <2>1, <2>2
  <1>7. CASE DeliverToSinks
    <2>1. sinks' \in Seq(Seq(Entries))
      BY <1>7, <1>b, DeliveredType DEF DeliverToSinks, RestTyped
    <2> QED
      BY <1>7, <2>1 DEF DeliverToSinks, FilesTyped, RestTyped, files, clientVars, history
  <1>8. CASE SinkFails
    <2>1. sinks' \in Seq(Seq(Entries))
      BY <1>8, <1>b, DeliveredType DEF SinkFails, RestTyped
    <2> QED
      BY <1>8, <2>1 DEF SinkFails, LogGoto, LogPoints, FilesTyped, RestTyped, files,
                        clientVars, history
  <1>9. CASE FlushGlobal
    <2>1. /\ Drained(global_file, Len(global_file.buf)) \in Writers
          /\ DrainedCells(disk[GlobalPath], global_file, Len(global_file.buf)) \in Seq(Cells)
      BY DrainType, CountsType DEF FilesTyped, Paths
    <2>2. FilesTyped'
      BY <1>9, <2>1 DEF FlushGlobal, FilesTyped
    <2>3. RestTyped'
      BY <1>9 DEF FlushGlobal, LogGoto, LogPoints, RestTyped, clientVars, history
    <2> QED BY <2>2, <2>3
  <1>10. ASSUME NEW t \in Tags, FlushContext(t) PROVE FilesTyped' /\ RestTyped'
    <2>1. context_map[t] \in Writers /\ PathOf[t] \in Paths
      BY <1>10 DEF FlushContext, PointsConsistent, FilesTyped, Paths
    <2>2. /\ Drained(context_map[t], Len(context_map[t].buf)) \in Writers
          /\ DrainedCells(disk[PathOf[t]], context_map[t], Len(context_map[t].buf))
                \in Seq(Cells)
      BY <2>1, DrainType, CountsType DEF FilesTyped
    <2>3. FilesTyped'
      BY <1>10, <2>1, <2>2 DEF FlushContext, FilesTyped
    <2>4. RestTyped'
      BY <1>10 DEF FlushContext, RestTyped, clientVars, history
    <2> QED BY <2>3, <2>4
  <1>11. CASE FlushDone
    BY <1>11 DEF FlushDone, ReleaseWrite, LogGoto, LogPoints, FilesTyped, RestTyped,
                 files, clientVars, history
  <1>12. CASE FlushFails
    <2>1. FilesTyped'
      <3>1. CASE /\ UNCHANGED context_map
                 /\ \E k \in FailedFlushCounts(global_file) :
                      /\ disk' = [disk EXCEPT ![GlobalPath] = DrainedCells(@, global_file, k)]
                      /\ global_file' = Drained(global_file, k)
        <4>1. PICK k \in 0..Len(global_file.buf) :
                 /\ disk' = [disk EXCEPT ![GlobalPath] = DrainedCells(@, global_file, k)]
                 /\ global_file' = Drained(global_file, k)
          BY <3>1, CountsType DEF FilesTyped
        <4>2. /\ Drained(global_file, k) \in Writers
              /\ DrainedCells(disk[GlobalPath], global_file, k) \in Seq(Cells)
          BY DrainType DEF FilesTyped, Paths
        <4> QED BY <3>1, <4>1, <4>2 DEF FilesTyped
      <3>2. CASE /\ UNCHANGED global_file
                 /\ \E t \in todo : \E k \in FailedFlushCounts(context_map[t]) :
                      /\ disk' = [disk EXCEPT ![PathOf[t]] =
                                     DrainedCells(@, context_map[t], k)]
                      /\ context_map' = [context_map EXCEPT ![t] =
                                     Drained(context_map[t], k)]
        <4>1. PICK t \in todo : \E k \in FailedFlushCounts(context_map[t]) :
                 /\ disk' = [disk EXCEPT ![PathOf[t]] = DrainedCells(@, context_map[t], k)]
                 /\ context_map' = [context_map EXCEPT ![t] = Drained(context_map[t], k)]
          BY <3>2
        <4>2. t \in Tags /\ context_map[t] \in Writers /\ PathOf[t] \in Paths
          BY DEF PointsConsistent, FilesTyped, RestTyped, Paths
        <4>3. PICK k \in 0..Len(context_map[t].buf) :
                 /\ disk' = [disk EXCEPT ![PathOf[t]] = DrainedCells(@, context_map[t], k)]
                 /\ context_map' = [context_map EXCEPT ![t] = Drained(context_map[t], k)]
          BY <4>1, <4>2, CountsType
        <4>4. /\ Drained(context_map[t], k) \in Writers
              /\ DrainedCells(disk[PathOf[t]], context_map[t], k) \in Seq(Cells)
          BY <4>2, DrainType DEF FilesTyped
        <4> QED BY <3>2, <4>2, <4>3, <4>4 DEF FilesTyped
      <3> QED BY <1>12, <3>1, <3>2 DEF FlushFails
    <2>2. RestTyped'
      BY <1>12 DEF FlushFails, ReleaseWrite, LogGoto, LogPoints, RestTyped, clientVars,
                   history
    <2> QED BY <2>1, <2>2
  <1>13. CASE ErrorWrite
    <2>1. FilesTyped'
      BY <1>13, ErrorEntryType, WriteEntryType DEF ErrorWrite
    <2>2. RestTyped'
      BY <1>13 DEF ErrorWrite, ReleaseWrite, LogGoto, LogPoints, RestTyped, clientVars,
                   history
    <2> QED BY <2>1, <2>2
  <1>14. CASE ErrorToSinks
    <2>1. sinks' \in Seq(Seq(Entries))
      BY <1>14, ErrorEntryType, DeliveredType DEF ErrorToSinks, RestTyped
    <2> QED
      BY <1>14, <2>1 DEF ErrorToSinks, LogGoto, LogPoints, FilesTyped, RestTyped, files,
                         clientVars, history
  <1> QED
    BY <1>1, <1>2, <1>2a, <1>3, <1>4, <1>5, <1>6, <1>7, <1>8, <1>9, <1>10, <1>11,
       <1>12, <1>13, <1>14 DEF LogNext, LogStep, LogFailure, ErrorStep

(* The RwLock, the points of both programs and the flush under way stay    *)
(* consistent: nobody else touches the files while the log thread is       *)
(* between taking and dropping its write guard.                            *)
LEMMA PointsStep ==
  ASSUME TypeOK, PointsConsistent, [Next]_vars
  PROVE  PointsConsistent'
  <1>a. FilesTyped /\ RestTyped
    BY TypeSplit
  <1>b. /\ LogThread \notin Clients /\ NoThread \notin Clients /\ NoThread # LogThread
        /\ NoFile \notin Writers
    BY ConstantsAssumption, FilesAssumption
  <1> USE <1>a, <1>b
  <1>0. CASE UNCHANGED vars
    BY <1>0 DEF vars, PointsConsistent, files, logVars, clientVars
  <1>1. ASSUME NEW c \in Clients, NEW name \in CallNames, NEW t \in TagsOf(name),
               Call(c, name, t)
        PROVE  PointsConsistent'
    <2>1. FirstPoint[name] \notin {"r_create", "u_remove", "s_push"}
      BY DEF FirstPoint, CallNames
    <2>2. FirstPoint[name] \in {"r_lock", "u_lock"} => t \in Tags
      BY DEF FirstPoint, CallNames, TagsOf
    <2> QED
      BY <1>1, <2>1, <2>2
         DEF Call, Goto, PointsConsistent, RestTyped, files, logVars
  <1>2. ASSUME NEW c \in Clients, ReadLock(c) \/ Push(c)
        PROVE  PointsConsistent'
    <2>1. /\ cpc' \in [Clients -> ClientPoints]
          /\ cpc[c] \in {"q_read", "qs_read", "w_read", "t_read", "q_push", "qs_push"}
          /\ cpc'[c] \in {"q_push", "qs_push", "w_wait", "t_wait", "q_signal"}
          /\ \A d \in Clients \ {c} : cpc'[d] = cpc[d]
      BY <1>2 DEF ReadLock, Push, Goto, RestTyped, ClientPoints
    <2>2. UNCHANGED <<writer, context_map, todo, lpc, next, failed, tag>>
      BY <1>2 DEF ReadLock, Push, files, logVars
    <2> QED BY <2>1, <2>2 DEF PointsConsistent
  <1>2a. ASSUME NEW c \in Clients, Signal(c) \/ WaitForFlush(c) \/ WaitTimesOut(c)
         PROVE  PointsConsistent'
    <2>1. /\ cpc[c] \in {"q_signal", "w_wait", "t_wait"} /\ cpc'[c] = "idle"
          /\ \A d \in Clients \ {c} : cpc'[d] = cpc[d] /\ tag'[d] = tag[d]
      BY <1>2a DEF Signal, WaitForFlush, WaitTimesOut, Return, Goto, RestTyped
    <2>2. UNCHANGED <<writer, context_map, todo, lpc, next, failed>>
      BY <1>2a DEF Signal, WaitForFlush, WaitTimesOut, files, logVars
    <2> QED BY <2>1, <2>2 DEF PointsConsistent
  <1>3. ASSUME NEW c \in Clients, ClientClaim(c)
        PROVE  PointsConsistent'
    BY <1>3 DEF ClientClaim, Claim, Goto, PointsConsistent, RestTyped, files, logVars
  <1>4. ASSUME NEW c \in Clients,
               AddContext(c) \/ RemoveContext(c) \/ AddContextFails(c) \/ AddSink(c)
        PROVE  PointsConsistent'
    <2>1. /\ cpc[c] \in {"r_create", "u_remove", "s_push"}
          /\ cpc'[c] \in {"idle", "q_read"}
          /\ \A d \in Clients \ {c} : cpc'[d] = cpc[d] /\ tag'[d] = tag[d]
      BY <1>4 DEF AddContext, RemoveContext, AddContextFails, AddSink, Return, Goto,
                  RestTyped
    <2>2. writer = c /\ writer' = NoThread /\ UNCHANGED <<todo, lpc, next, failed>>
      BY <1>4 DEF AddContext, RemoveContext, AddContextFails, AddSink, HasWrite,
                  ReleaseWrite, logVars
    <2>3. todo = {}
      BY <2>2 DEF PointsConsistent
    <2> QED BY <2>1, <2>2, <2>3 DEF PointsConsistent
  <1>6. CASE TakeQueue \/ Wake
    BY <1>6 DEF TakeQueue, Wake, LogGoto, PointsConsistent, ErrorPoints, files, clientVars
  <1>7. CASE ReadConfig \/ BackendsDone \/ CheckFlush \/ CheckWait
    BY <1>7 DEF ReadConfig, BackendsDone, CheckFlush, CheckWait, LogGoto, shared,
                PointsConsistent, ErrorPoints, files, clientVars
  <1>8. CASE LogClaim
    BY <1>8 DEF LogClaim, Claim, LogGoto, PointsConsistent, ErrorPoints, files, clientVars
  <1>9. CASE BatchWritten \/ DeliverToSinks \/ SinkFails \/ ErrorToSinks
    BY <1>9 DEF BatchWritten, DeliverToSinks, SinkFails, ErrorToSinks, HasWrite,
                ReleaseWrite, LogGoto, PointsConsistent, ErrorPoints, RestTyped,
                files, clientVars
  <1>10. CASE BatchWrite \/ BatchWriteFails \/ ErrorWrite
    <2>1. todo = {} /\ UNCHANGED <<todo, clientVars>>
      BY <1>10 DEF BatchWrite, BatchWriteFails, ErrorWrite, PointsConsistent
    <2> QED
      BY <1>10, <2>1 DEF BatchWrite, BatchWriteFails, ErrorWrite, HasWrite, ReleaseWrite,
                         LogGoto, PointsConsistent, ErrorPoints, RestTyped, clientVars
  <1>11. CASE FlushGlobal
    BY <1>11 DEF FlushGlobal, HasWrite, LogGoto, PointsConsistent, ErrorPoints, clientVars
  <1>12. ASSUME NEW t \in Tags, FlushContext(t) PROVE PointsConsistent'
    <2>1. \A u \in Tags \ {t} : context_map'[u] = context_map[u]
      BY <1>12 DEF FlushContext, FilesTyped
    <2> QED
      BY <1>12, <2>1 DEF FlushContext, PointsConsistent, RestTyped, clientVars
  <1>13. CASE FlushDone
    BY <1>13 DEF FlushDone, HasWrite, ReleaseWrite, LogGoto, PointsConsistent,
                 ErrorPoints, RestTyped, files, clientVars
  <1>14. CASE FlushFails
    <2>1. /\ todo' = {} /\ failed' = TRUE /\ writer' = NoThread /\ UNCHANGED clientVars
          /\ lpc' = IF failed THEN "error_lock" ELSE "flush_lock"
          /\ writer = LogThread
      BY <1>14 DEF FlushFails, HasWrite, ReleaseWrite, LogGoto
    <2> QED BY <2>1 DEF PointsConsistent, ErrorPoints, clientVars
  <1> QED
    BY <1>0, <1>1, <1>2, <1>2a, <1>3, <1>4, <1>6, <1>7, <1>8, <1>9, <1>10, <1>11,
       <1>12, <1>13, <1>14
       DEF Next, ClientStep, LogStep, LogFailure, ErrorStep

-----------------------------------------------------------------------------
(* The global file. *)

(* Entries that leave the global buffer go to the end of the global file,  *)
(* and the lines of file and buffer together stay the same.                *)
LEMMA DrainGlobal ==
  ASSUME FilesTyped, global_file.pos = Len(disk[GlobalPath]),
         NEW k \in 0..Len(global_file.buf)
  PROVE  LET D == DrainedCells(disk[GlobalPath], global_file, k)
             W == Drained(global_file, k)
         IN  /\ D \in Seq(Cells) /\ W \in Writers
             /\ W.pos = Len(D)
             /\ D \o W.buf = GlobalLines
             /\ IsPrefix(disk[GlobalPath], D)
             /\ IsPrefix(D, GlobalLines)
             /\ Len(W.buf) = Len(global_file.buf) - k
  <1> DEFINE D == DrainedCells(disk[GlobalPath], global_file, k)
             W == Drained(global_file, k)
  <1>1. disk[GlobalPath] \in Seq(Cells) /\ global_file.buf \in Seq(Cells)
    BY GlobalLinesType
  <1>2. global_file \in [pos : Nat, buf : Seq(Cells)]
    BY <1>1 DEF FilesTyped, Writers
  <1>3. /\ D = disk[GlobalPath] \o SubSeq(global_file.buf, 1, k)
        /\ D \in Seq(Cells)
        /\ W.pos = Len(D)
        /\ D \o W.buf = disk[GlobalPath] \o global_file.buf
    BY <1>1, <1>2, DrainKeepsLines, ZenonT(30)
  <1>4. W \in Writers
    BY <1>1, DrainType DEF FilesTyped
  <1>5. W.buf = SubSeq(global_file.buf, k + 1, Len(global_file.buf))
    BY DEF Drained
  <1>6. W.buf \in Seq(Cells) /\ Len(W.buf) = Len(global_file.buf) - k
    BY <1>1, <1>5, BufferSplit
  <1>7. SubSeq(global_file.buf, 1, k) \in Seq(Cells)
    BY <1>1, BufferSplit
  <1> HIDE DEF D, W
  <1>8. IsPrefix(disk[GlobalPath], D)
    BY <1>1, <1>3, <1>7, PrefixConcat
  <1>9. IsPrefix(D, GlobalLines)
    BY <1>3, <1>6, PrefixConcat DEF GlobalLines
  <1> QED
    BY <1>3, <1>4, <1>6, <1>8, <1>9 DEF GlobalLines, D, W

(* What a step may do to the global file: its writer stays at the end, the *)
(* file grows, by lines that were in the buffer before.                    *)
GlobalAppends ==
    /\ global_file'.pos = Len(disk'[GlobalPath])
    /\ IsPrefix(disk[GlobalPath], disk'[GlobalPath])
    /\ IsPrefix(disk'[GlobalPath], GlobalLines)

(* Draining, then buffering an entry, appends it to the global log. *)
LEMMA BufferGlobal ==
  ASSUME FilesTyped, global_file.pos = Len(disk[GlobalPath]), NEW e \in Entries,
         NEW k \in 0..Len(global_file.buf),
         disk'[GlobalPath] = DrainedCells(disk[GlobalPath], global_file, k),
         global_file' = Buffered(Drained(global_file, k), e)
  PROVE  /\ GlobalAppends
         /\ GlobalLines' = GlobalLines \o <<e>>
         /\ Len(global_file'.buf) <= Len(global_file.buf) + 1
  <1> DEFINE D == DrainedCells(disk[GlobalPath], global_file, k)
             W == Drained(global_file, k)
  <1>1. /\ D \in Seq(Cells) /\ W \in Writers
        /\ W.pos = Len(D)
        /\ D \o W.buf = GlobalLines
        /\ IsPrefix(disk[GlobalPath], D)
        /\ IsPrefix(D, GlobalLines)
        /\ Len(W.buf) = Len(global_file.buf) - k
    BY DrainGlobal
  <1>2. disk'[GlobalPath] = D /\ global_file' = Buffered(W, e)
    OBVIOUS
  <1> HIDE DEF D, W
  <1>3. global_file'.pos = W.pos /\ global_file'.buf = Append(W.buf, e)
    BY <1>1, <1>2, BufferedType
  <1>4. W.buf \in Seq(Entries)
    BY <1>1 DEF Writers
  <1>5. W.buf \in Seq(Cells) /\ e \in Cells
    BY <1>4, SeqMonotonic DEF Cells
  <1>6. Append(W.buf, e) = W.buf \o <<e>>
    BY <1>5
  <1>7. <<e>> \in Seq(Cells)
    BY <1>5
  <1>8. D \o (W.buf \o <<e>>) = (D \o W.buf) \o <<e>>
    <2>1. D \in Seq(Cells)
      BY <1>1
    <2>2. \A b \in Seq(Cells) : D \o (b \o <<e>>) = (D \o b) \o <<e>>
      <3> TAKE b \in Seq(Cells)
      <3>1. e \in Cells
        BY <1>5
      <3> QED BY <2>1, <3>1, ConcatOne
    <2> QED BY <1>5, <2>2
  <1>9. GlobalLines' = GlobalLines \o <<e>>
    BY <1>1, <1>2, <1>3, <1>6, <1>8 DEF GlobalLines
  <1>10. Len(global_file'.buf) = Len(W.buf) + 1
    BY <1>3, <1>5, AppendProperties
  <1>11. GlobalAppends
    BY <1>1, <1>2, <1>3 DEF GlobalAppends
  <1>12. Len(global_file.buf) \in Nat
    BY GlobalLinesType
  <1> QED BY <1>1, <1>9, <1>10, <1>11, <1>12

(* Writing an entry appends it to the global log.  The context's file is   *)
(* another one.                                                            *)
LEMMA WriteEntryGlobal ==
  ASSUME FilesTyped, GlobalPathPrivate, global_file.pos = Len(disk[GlobalPath]),
         NEW e \in Entries, WriteEntry(e)
  PROVE  /\ GlobalAppends
         /\ GlobalLines' = GlobalLines \o <<e>>
         /\ Len(global_file'.buf) <= Len(global_file.buf) + 1
  <1> DEFINE d(g) == [disk EXCEPT ![GlobalPath] = DrainedCells(@, global_file, g)]
  <1>1. PICK g \in SpillCounts(global_file) :
           /\ global_file' = Buffered(Drained(global_file, g), e)
           /\ \/ disk' = d(g)
              \/ /\ HasContext(e)
                 /\ \E k \in SpillCounts(context_map[e.tag]) :
                       disk' = [d(g) EXCEPT ![PathOf[e.tag]] =
                                   DrainedCells(@, context_map[e.tag], k)]
    BY DEF WriteEntry
  <1>2. g \in 0..Len(global_file.buf)
    BY CountsType DEF FilesTyped
  <1>3. /\ GlobalPath \in DOMAIN d(g)
        /\ d(g)[GlobalPath] = DrainedCells(disk[GlobalPath], global_file, g)
    BY DEF FilesTyped, Paths
  <1>4. HasContext(e) => PathOf[e.tag] # GlobalPath
    BY DEF HasContext, GlobalPathPrivate
  <1> HIDE DEF d
  <1>5. disk'[GlobalPath] = DrainedCells(disk[GlobalPath], global_file, g)
    BY <1>1, <1>3, <1>4
  <1> QED
    BY <1>1, <1>2, <1>5, BufferGlobal

(* A failing write appends the entry or leaves the global log as it was.   *)
LEMMA WriteEntryFailsGlobal ==
  ASSUME FilesTyped, GlobalPathPrivate, global_file.pos = Len(disk[GlobalPath]),
         NEW e \in Entries, WriteEntryFails(e)
  PROVE  /\ GlobalAppends
         /\ GlobalLines' \in {GlobalLines, GlobalLines \o <<e>>}
  <1> DEFINE d(g) == [disk EXCEPT ![GlobalPath] = DrainedCells(@, global_file, g)]
  <1>0. \A g : d(g)[GlobalPath] = DrainedCells(disk[GlobalPath], global_file, g)
    BY DEF FilesTyped, Paths
  <1>1. CASE \E k \in FailedWriteCounts(global_file) :
                global_file' = Drained(global_file, k) /\ disk' = d(k)
    <2>1. PICK k \in 0..Len(global_file.buf) :
             global_file' = Drained(global_file, k) /\ disk' = d(k)
      BY <1>1, CountsType DEF FilesTyped
    <2>2. disk'[GlobalPath] = DrainedCells(disk[GlobalPath], global_file, k)
      BY <1>0, <2>1
    <2> QED
      BY <2>1, <2>2, DrainGlobal DEF GlobalAppends, GlobalLines
  <1>2. CASE /\ HasContext(e)
             /\ \E g \in SpillCounts(global_file),
                   k \in FailedWriteCounts(context_map[e.tag]) :
                   /\ global_file' = Buffered(Drained(global_file, g), e)
                   /\ disk' = [d(g) EXCEPT ![PathOf[e.tag]] =
                                  DrainedCells(@, context_map[e.tag], k)]
    <2>1. PICK g \in SpillCounts(global_file) :
             /\ global_file' = Buffered(Drained(global_file, g), e)
             /\ \E k : disk' = [d(g) EXCEPT ![PathOf[e.tag]] =
                                  DrainedCells(@, context_map[e.tag], k)]
      BY <1>2
    <2>2. g \in 0..Len(global_file.buf)
      BY CountsType DEF FilesTyped
    <2>3. PathOf[e.tag] # GlobalPath
      BY <1>2 DEF HasContext, GlobalPathPrivate
    <2> HIDE DEF d
    <2>4. disk'[GlobalPath] = DrainedCells(disk[GlobalPath], global_file, g)
      BY <1>0, <2>1, <2>3
    <2> QED
      BY <2>1, <2>2, <2>4, BufferGlobal
  <1> QED
    BY <1>1, <1>2 DEF WriteEntryFails

-----------------------------------------------------------------------------
(* Type correctness. *)

(* The initial state. *)
LEMMA InitType ==
  ASSUME Init
  PROVE  TypeOK /\ PointsConsistent
  <1>1. FilesTyped
    <2>1. disk \in [Paths -> Seq(Cells)]
      BY EmptySeq DEF Init
    <2>2. global_file \in Writers /\ context_map \in [Tags -> Writers \cup {NoFile}]
      BY NewWriterType DEF Init
    <2> QED BY <2>1, <2>2 DEF FilesTyped
  <1>2. RestTyped
    <2>1. /\ queue \in Seq(Entries) /\ pushed \in Seq(Entries)
          /\ batch \in Seq(Entries) /\ sinks \in Seq(Seq(Entries))
          /\ next \in 1..(Len(batch) + 1)
      BY EmptySeq DEF Init
    <2>2. /\ cpc \in [Clients -> ClientPoints] /\ tag \in [Clients -> Tags \cup {NoTag}]
          /\ calls \in [Clients -> Nat] /\ since \in [Tags -> Nat]
      BY DEF Init, ClientPoints
    <2> QED BY <2>1, <2>2 DEF Init, RestTyped, LogPoints
  <1>3. PointsConsistent
    BY ConstantsAssumption DEF Init, PointsConsistent, ErrorPoints
  <1> QED BY <1>1, <1>2, <1>3, TypeSplit

(* Every step, stuttering included, keeps the types and the points. *)
LEMMA StepType ==
  ASSUME TypeOK, PointsConsistent, [Next]_vars
  PROVE  TypeOK' /\ PointsConsistent'
  <1>1. CASE Next
    <2>1. TypeOK'
      BY <1>1, ClientType, LogType DEF Next, LogNext
    <2> QED BY <1>1, <2>1, PointsStep
  <1>2. CASE UNCHANGED vars
    BY <1>2 DEF vars, files, clientVars, logVars, history, TypeOK, PointsConsistent
  <1> QED BY <1>1, <1>2

(* In every behaviour of the pipeline the queue, the files, the writers    *)
(* and the program points stay what the code declares them to be, and the  *)
(* write guard belongs to the one thread whose program point needs it.     *)
THEOREM TypeCorrect == Spec => [](TypeOK /\ PointsConsistent)
  <1>1. Init => TypeOK /\ PointsConsistent
    BY InitType
  <1>2. TypeOK /\ PointsConsistent /\ [Next]_vars => TypeOK' /\ PointsConsistent'
    BY StepType
  <1> QED BY <1>1, <1>2, PTL DEF Spec

-----------------------------------------------------------------------------
(* What was pushed is what was written, what is to be written and what is  *)
(* queued.                                                                 *)

-----------------------------------------------------------------------------
(* The steps of the pipeline, seen from the global file. *)

(* Nobody but the log thread at its writes and flushes touches the global  *)
(* file: the file that a client creates or closes, or that the log thread  *)
(* flushes for a context, is another one.                                  *)
LEMMA GlobalQuiet ==
  ASSUME FilesTyped, PointsConsistent, GlobalPathPrivate, Next,
         ~BatchWrite, ~BatchWriteFails, ~ErrorWrite, ~FlushGlobal, ~FlushFails
  PROVE  disk'[GlobalPath] = disk[GlobalPath] /\ global_file' = global_file
  <1>1. ASSUME NEW c \in Clients, AddContext(c)
        PROVE  disk'[GlobalPath] = disk[GlobalPath] /\ global_file' = global_file
    <2>1. tag[c] \in Tags
      BY <1>1 DEF AddContext, PointsConsistent
    <2>2. PICK x : disk' = [disk EXCEPT ![PathOf[tag[c]]] = x]
      BY <1>1 DEF AddContext
    <2>3. PathOf[tag[c]] # GlobalPath
      BY <2>1 DEF GlobalPathPrivate
    <2> QED BY <1>1, <2>2, <2>3 DEF AddContext, FilesTyped, Paths
  <1>2. ASSUME NEW c \in Clients, RemoveContext(c)
        PROVE  disk'[GlobalPath] = disk[GlobalPath] /\ global_file' = global_file
    <2>1. tag[c] \in Tags
      BY <1>2 DEF RemoveContext, PointsConsistent
    <2>2. disk' = disk \/ \E x : disk' = [disk EXCEPT ![PathOf[tag[c]]] = x]
      BY <1>2 DEF RemoveContext
    <2>3. PathOf[tag[c]] # GlobalPath
      BY <2>1 DEF GlobalPathPrivate
    <2> QED BY <1>2, <2>2, <2>3 DEF RemoveContext, FilesTyped, Paths
  <1>3. ASSUME NEW t \in Tags, FlushContext(t)
        PROVE  disk'[GlobalPath] = disk[GlobalPath] /\ global_file' = global_file
    <2>1. PICK x : disk' = [disk EXCEPT ![PathOf[t]] = x]
      BY <1>3 DEF FlushContext
    <2>2. PathOf[t] # GlobalPath
      BY DEF GlobalPathPrivate
    <2> QED BY <1>3, <2>1, <2>2 DEF FlushContext, FilesTyped, Paths
  <1>4. ASSUME NEW c \in Clients,
               \/ \E name \in CallNames : \E t \in TagsOf(name) : Call(c, name, t)
               \/ ReadLock(c) \/ Push(c) \/ Signal(c) \/ WaitForFlush(c)
               \/ ClientClaim(c) \/ AddSink(c) \/ AddContextFails(c) \/ WaitTimesOut(c)
        PROVE  UNCHANGED <<disk, global_file>>
    BY <1>4 DEF Call, ReadLock, Push, Signal, WaitForFlush, ClientClaim, AddSink,
                AddContextFails, WaitTimesOut, files
  <1>5. CASE \/ TakeQueue \/ ReadConfig \/ LogClaim \/ BatchWritten \/ DeliverToSinks
             \/ BackendsDone \/ CheckFlush \/ FlushDone \/ CheckWait \/ Wake
             \/ SinkFails \/ ErrorToSinks
    BY <1>5 DEF TakeQueue, ReadConfig, LogClaim, BatchWritten, DeliverToSinks,
                BackendsDone, CheckFlush, FlushDone, CheckWait, Wake, SinkFails,
                ErrorToSinks, files, shared
  <1> QED
    BY <1>1, <1>2, <1>3, <1>4, <1>5 DEF Next, ClientStep, LogStep, LogFailure, ErrorStep

(* A flush moves lines of the global log from the buffer to the file. *)
LEMMA FlushDrains ==
  ASSUME FilesTyped, todo \subseteq Tags, GlobalPathPrivate,
         global_file.pos = Len(disk[GlobalPath]), FlushGlobal \/ FlushFails
  PROVE  GlobalAppends /\ GlobalLines' = GlobalLines
  <1>1. ASSUME NEW k \in 0..Len(global_file.buf),
               disk' = [disk EXCEPT ![GlobalPath] = DrainedCells(@, global_file, k)],
               global_file' = Drained(global_file, k)
        PROVE  GlobalAppends /\ GlobalLines' = GlobalLines
    <2>1. disk'[GlobalPath] = DrainedCells(disk[GlobalPath], global_file, k)
      BY <1>1 DEF FilesTyped, Paths
    <2> QED BY <1>1, <2>1, DrainGlobal DEF GlobalAppends, GlobalLines
  <1>2. ASSUME disk'[GlobalPath] = disk[GlobalPath], global_file' = global_file
        PROVE  GlobalAppends /\ GlobalLines' = GlobalLines
    <2>1. GlobalLines' = GlobalLines
      BY <1>2 DEF GlobalLines
    <2>2. IsPrefix(disk[GlobalPath], disk[GlobalPath]) /\ IsPrefix(disk[GlobalPath], GlobalLines)
      BY GlobalLinesType, PrefixSelf, PrefixConcat DEF GlobalLines
    <2> QED BY <1>2, <2>1, <2>2 DEF GlobalAppends
  <1>3. Len(global_file.buf) \in 0..Len(global_file.buf)
    BY GlobalLinesType
  <1>4. CASE FlushGlobal
    BY <1>1, <1>3, <1>4 DEF FlushGlobal
  <1>5. CASE /\ \E k \in FailedFlushCounts(global_file) :
                   /\ disk' = [disk EXCEPT ![GlobalPath] = DrainedCells(@, global_file, k)]
                   /\ global_file' = Drained(global_file, k)
    BY <1>1, <1>5, CountsType DEF FilesTyped
  <1>6. CASE /\ \E t \in Tags : \E x : disk' = [disk EXCEPT ![PathOf[t]] = x]
             /\ UNCHANGED global_file
    <2>1. disk'[GlobalPath] = disk[GlobalPath]
      BY <1>6 DEF GlobalPathPrivate, FilesTyped, Paths
    <2> QED BY <1>2, <1>6, <2>1
  <1>7. CASE FlushFails
    BY <1>5, <1>6, <1>7 DEF FlushFails
  <1> QED BY <1>4, <1>7

(* The global file grows, at its end, whatever the step. *)
LEMMA GlobalGrows ==
  ASSUME TypeOK, PointsConsistent, GlobalPathPrivate, Next,
         global_file.pos = Len(disk[GlobalPath])
  PROVE  GlobalAppends
  <1>1. FilesTyped /\ RestTyped
    BY TypeSplit
  <1>2. CASE BatchWrite \/ BatchWriteFails
    <2>1. batch[next] \in Entries
      BY <1>1, <1>2, ElementOfSeq DEF BatchWrite, BatchWriteFails, RestTyped
    <2> QED
      BY <1>1, <1>2, <2>1, WriteEntryGlobal, WriteEntryFailsGlobal
         DEF BatchWrite, BatchWriteFails
  <1>3. CASE ErrorWrite
    BY <1>1, <1>3, ErrorEntryType, WriteEntryGlobal, WriteEntryFailsGlobal DEF ErrorWrite
  <1>4. CASE FlushGlobal \/ FlushFails
    BY <1>1, <1>4, FlushDrains DEF RestTyped
  <1>5. CASE ~(BatchWrite \/ BatchWriteFails \/ ErrorWrite \/ FlushGlobal \/ FlushFails)
    <2>1. disk'[GlobalPath] = disk[GlobalPath] /\ global_file' = global_file
      BY <1>1, <1>5, GlobalQuiet
    <2>2. IsPrefix(disk[GlobalPath], disk[GlobalPath]) /\ IsPrefix(disk[GlobalPath], GlobalLines)
      BY <1>1, GlobalLinesType, PrefixSelf, PrefixConcat DEF GlobalLines
    <2> QED BY <2>1, <2>2 DEF GlobalAppends
  <1> QED BY <1>2, <1>3, <1>4, <1>5

(* A step that neither pushes, swaps the queue out nor writes an entry     *)
(* leaves the account of the entries as it is.                             *)
LEMMA OthersKeep ==
  ASSUME TypeOK, PointsConsistent, Next, \A c \in Clients : ~Push(c),
         ~TakeQueue, ~BatchWrite, ~BatchWriteFails, ~ErrorWrite
  PROVE  /\ UNCHANGED <<queue, pushed>>
         /\ failed => failed'
         /\ lpc = "dead" => lpc' = "dead"
         /\ lpc = "error_sinks" => lpc' \in {"error_sinks", "dead"}
         /\ lpc' # "dead" => Unwritten' = Unwritten
  <1> DEFINE Goal == /\ UNCHANGED <<queue, pushed>>
                     /\ failed => failed'
                     /\ lpc = "dead" => lpc' = "dead"
                     /\ lpc = "error_sinks" => lpc' \in {"error_sinks", "dead"}
                     /\ lpc' # "dead" => Unwritten' = Unwritten
  <1>1. ASSUME UNCHANGED <<queue, pushed, lpc, batch, next, failed>>
        PROVE  Goal
    BY <1>1 DEF Unwritten
  <1>2. ASSUME NEW c \in Clients,
               \/ \E name \in CallNames : \E t \in TagsOf(name) : Call(c, name, t)
               \/ ClientStep(c) \/ AddContextFails(c) \/ WaitTimesOut(c)
        PROVE  Goal
    <2>1. UNCHANGED <<queue, pushed, lpc, batch, next, failed>>
      BY <1>2 DEF Call, ClientStep, ReadLock, Signal, WaitForFlush, ClientClaim,
                  AddContext, RemoveContext, AddSink, AddContextFails, WaitTimesOut,
                  logVars, history
    <2> QED BY <1>1, <2>1
  <1>3. CASE ReadConfig
    <2>1. UNCHANGED <<queue, pushed, failed>> /\ lpc = "config" /\ next' = 1
      BY <1>3 DEF ReadConfig, shared, history, PointsConsistent
    <2>2. ASSUME lpc' # "dead" PROVE Unwritten' = SplitLogs(batch)
      <3>1. batch' = SplitLogs(batch) /\ lpc' = "batch_lock"
        BY <1>3, <2>2 DEF ReadConfig, LogGoto
      <3>2. SplitLogs(batch) \in Seq(Entries)
        BY SplitType DEF TypeOK
      <3> DEFINE chunks == SplitLogs(batch)
      <3> HIDE DEF chunks
      <3>3. SubSeq(chunks, 1, Len(chunks)) = chunks
        BY <3>2, SubSeqFull DEF chunks
      <3>4. batch' = chunks
        BY <3>1 DEF chunks
      <3>5. Unwritten' = SubSeq(batch', next', Len(batch'))
        BY <3>1 DEF Unwritten
      <3> QED BY <2>1, <3>3, <3>4, <3>5 DEF chunks
    <2>3. Unwritten = SplitLogs(batch)
      BY <2>1 DEF Unwritten
    <2> QED BY <2>1, <2>2, <2>3
  <1>3a. CASE LogClaim
    BY <1>3a DEF LogClaim, LogGoto, history, Unwritten
  <1>4. CASE BatchWritten
    <2>1. next \in Nat /\ Len(batch) \in Nat
      BY DEF TypeOK
    <2>2. Len(batch) < next
      BY <1>4, <2>1 DEF BatchWritten
    <2>3. SubSeq(batch, next, Len(batch)) = <<>>
      BY <2>1, <2>2, SubSeqEmpty
    <2> QED BY <1>4, <2>3 DEF BatchWritten, LogGoto, history, Unwritten
  <1>5. CASE \/ DeliverToSinks \/ SinkFails \/ BackendsDone \/ CheckFlush \/ FlushDone
             \/ CheckWait \/ Wake \/ ErrorToSinks
    BY <1>5 DEF DeliverToSinks, SinkFails, BackendsDone, CheckFlush, FlushDone,
                CheckWait, Wake, ErrorToSinks, LogGoto, shared, history, Unwritten
  <1>6. CASE FlushGlobal \/ (\E t \in Tags : FlushContext(t)) \/ FlushFails
    BY <1>6 DEF FlushGlobal, FlushContext, FlushFails, LogGoto, history, Unwritten
  <1> QED
    BY <1>2, <1>3, <1>3a, <1>4, <1>5, <1>6 DEF Next, LogStep, LogFailure, ErrorStep

(* The parts of the account are sequences of cells. *)
LEMMA AccountType ==
  ASSUME TypeOK
  PROVE  /\ GlobalLines \in Seq(Cells) /\ disk[GlobalPath] \in Seq(Cells)
         /\ Unwritten \in Seq(Cells)
         /\ SplitLogs(queue) \in Seq(Cells)
         /\ pushed \in Seq(Cells) /\ batch \in Seq(Cells)
  <1>1. FilesTyped /\ RestTyped
    BY TypeSplit
  <1>2. pushed \in Seq(Cells) /\ batch \in Seq(Cells)
    BY <1>1, SeqMonotonic DEF RestTyped, Cells
  <1>2a. SplitLogs(queue) \in Seq(Cells) /\ SplitLogs(batch) \in Seq(Cells)
    <2>1. SplitLogs(queue) \in Seq(Entries) /\ SplitLogs(batch) \in Seq(Entries)
      BY <1>1, SplitType DEF RestTyped
    <2> QED BY <2>1, SeqMonotonic DEF Cells
  <1>3. SubSeq(batch, next, Len(batch)) \in Seq(Cells)
    <2>1. next \in Nat \ {0} /\ Len(batch) \in Nat
      BY <1>1 DEF RestTyped
    <2>2. \A i \in next..Len(batch) : batch[i] \in Cells
      BY <1>2, <2>1, ElementOfSeq
    <2> QED BY <2>1, <2>2, SubSeqProperties
  <1>4. Unwritten \in Seq(Cells)
    BY <1>2a, <1>3, EmptySeq DEF Unwritten
  <1> QED BY <1>1, <1>2, <1>2a, <1>4, GlobalLinesType

(* The first of the entries to be written. *)
LEMMA UnwrittenFirst ==
  ASSUME TypeOK, lpc = "batch_write", next <= Len(batch)
  PROVE  /\ batch[next] \in Cells
         /\ SubSeq(batch, next + 1, Len(batch)) \in Seq(Cells)
         /\ Unwritten = <<batch[next]>> \o SubSeq(batch, next + 1, Len(batch))
         /\ Len(Unwritten) = Len(SubSeq(batch, next + 1, Len(batch))) + 1
  <1>1. next \in 1..Len(batch) /\ Len(batch) \in next..Len(batch)
    BY DEF TypeOK
  <1>2. batch \in Seq(Cells)
    BY AccountType
  <1>3. \A i \in (next + 1)..Len(batch) : batch[i] \in Cells
    BY <1>1, <1>2, ElementOfSeq
  <1>4. batch[next] \in Cells
    BY <1>1, <1>2, ElementOfSeq
  <1>5. /\ SubSeq(batch, next + 1, Len(batch)) \in Seq(Cells)
        /\ Len(SubSeq(batch, next + 1, Len(batch))) = Len(batch) - next
    BY <1>1, <1>3, SubSeqProperties
  <1>6. \A i \in next..Len(batch) : batch[i] \in Cells
    BY <1>1, <1>2, ElementOfSeq
  <1>7. Len(SubSeq(batch, next, Len(batch))) = Len(batch) - next + 1
    BY <1>1, <1>6, SubSeqProperties
  <1>8. SubSeq(batch, next, Len(batch)) = <<batch[next]>> \o SubSeq(batch, next + 1, Len(batch))
    BY <1>1, <1>2, SubSeqRecursiveFirst
  <1>9. Unwritten = SubSeq(batch, next, Len(batch))
    BY DEF Unwritten
  <1>10. Len(Unwritten) = Len(SubSeq(batch, next + 1, Len(batch))) + 1
    <2>1. Len(batch) \in Nat /\ next \in Nat
      BY DEF TypeOK
    <2> HIDE DEF Unwritten
    <2>2. Len(Unwritten) = Len(batch) - next + 1
      BY <1>7, <1>9
    <2> QED BY <1>5, <2>1, <2>2
  <1> QED BY <1>4, <1>5, <1>8, <1>9, <1>10

(* Writing the next entry of the batch. *)
LEMMA BatchWriteAccount ==
  ASSUME TypeOK, GlobalPathPrivate, BatchWrite, global_file.pos = Len(disk[GlobalPath])
  PROVE  /\ GlobalLines' = GlobalLines \o <<batch[next]>>
         /\ Unwritten' = SubSeq(batch, next + 1, Len(batch))
         /\ GlobalLines' \o Unwritten' \o SplitLogs(queue') =
               GlobalLines \o Unwritten \o SplitLogs(queue)
  <1>1. FilesTyped /\ RestTyped
    BY TypeSplit
  <1> DEFINE u == <<batch[next]>>
             r == SubSeq(batch, next + 1, Len(batch))
             q == SplitLogs(queue)
  <1>2. batch[next] \in Entries
    BY <1>1, ElementOfSeq DEF BatchWrite, RestTyped
  <1>3. GlobalLines' = GlobalLines \o u
    BY <1>1, <1>2, WriteEntryGlobal DEF BatchWrite
  <1>4. Unwritten' = r /\ SplitLogs(queue') = q
    BY DEF BatchWrite, Unwritten
  <1>5. u \in Seq(Cells)
    BY UnwrittenFirst DEF BatchWrite
  <1>6. r \in Seq(Cells)
    BY UnwrittenFirst DEF BatchWrite
  <1>7. Unwritten = u \o r
    BY UnwrittenFirst DEF BatchWrite
  <1>8. GlobalLines \in Seq(Cells) /\ q \in Seq(Cells)
    BY AccountType
  <1> HIDE DEF u, r, q
  <1>9. GlobalLines \o (u \o r) \o q = (GlobalLines \o u) \o r \o q
    BY <1>5, <1>6, <1>8, WriteAccount, SMTT(30)
  <1>10. GlobalLines' \o Unwritten' \o SplitLogs(queue') = (GlobalLines \o u) \o r \o q
    BY <1>3, <1>4
  <1>11. GlobalLines \o Unwritten \o q = GlobalLines \o (u \o r) \o q
    BY <1>7
  <1> QED BY <1>3, <1>4, <1>9, <1>10, <1>11 DEF u, r, q

(* What is written, plus the next entry of the batch, was pushed. *)
LEMMA NextIsPushed ==
  ASSUME TypeOK, NothingLost, lpc = "batch_write", ~failed, next <= Len(batch)
  PROVE  IsPrefix(GlobalLines \o <<batch[next]>>, pushed)
  <1> DEFINE u == <<batch[next]>>
             r == SubSeq(batch, next + 1, Len(batch))
             q == SplitLogs(queue)
  <1>1. u \in Seq(Cells)
    BY UnwrittenFirst
  <1>2. r \in Seq(Cells)
    BY UnwrittenFirst
  <1>3. Unwritten = u \o r
    BY UnwrittenFirst
  <1>4. GlobalLines \in Seq(Cells) /\ q \in Seq(Cells)
    BY AccountType
  <1>5. GlobalLines \o Unwritten \o q = pushed
    BY DEF NothingLost
  <1> HIDE DEF u, r, q
  <1>6. IsPrefix(GlobalLines \o u, GlobalLines \o (u \o r) \o q)
    BY <1>1, <1>2, <1>4, WriteAccount
  <1> QED BY <1>3, <1>5, <1>6 DEF u

(* Every step keeps the account of the entries. *)
LEMMA AccountStep ==
  ASSUME TypeOK, PointsConsistent, GlobalPathPrivate, NothingLost,
         global_file.pos = Len(disk[GlobalPath]), Next
  PROVE  NothingLost'
  <1>1. FilesTyped /\ RestTyped
    BY TypeSplit
  <1>2. /\ GlobalLines \in Seq(Cells) /\ Unwritten \in Seq(Cells)
        /\ SplitLogs(queue) \in Seq(Cells)
    BY AccountType
  <1>3. ASSUME NEW c \in Clients, Push(c) PROVE NothingLost'
    <2>1. PICK e \in Seq(Entries) :
             queue' = queue \o e /\ pushed' = pushed \o SplitLogs(e)
      BY <1>3, PushAdds
    <2> DEFINE d == SplitLogs(e)
               q == SplitLogs(queue)
    <2>2. SplitLogs(queue') = q \o d
      BY <1>1, <2>1, SplitConcat DEF RestTyped
    <2>3. d \in Seq(Entries)
      BY SplitType
    <2>4. GlobalLines' = GlobalLines
      BY <1>3 DEF Push, files, GlobalLines
    <2>5. Unwritten' = Unwritten /\ failed' = failed /\ lpc' = lpc
      BY <1>3 DEF Push, logVars, Unwritten
    <2>6. d \in Seq(Cells) /\ q \in Seq(Cells)
      BY <1>2, <2>3, SeqMonotonic DEF Cells
    <2>8. pushed' = pushed \o d
      BY <2>1
    <2>8a. ~failed /\ lpc # "dead" => GlobalLines \o Unwritten \o q = pushed
      BY DEF NothingLost
    <2> HIDE DEF d, q
    <2>7. GlobalLines \o Unwritten \o (q \o d) = (GlobalLines \o Unwritten \o q) \o d
      <3> DEFINE a == GlobalLines \o Unwritten
      <3>1. a \in Seq(Cells)
        BY <1>2, ConcatProperties
      <3> HIDE DEF a
      <3>2. (a \o q) \o d = a \o (q \o d)
        BY <2>6, <3>1, ConcatAssociative, SMTT(30)
      <3> QED BY <3>2 DEF a
    <2>9. CASE ~failed /\ lpc # "dead"
      <3>1. GlobalLines \o Unwritten \o SplitLogs(queue') = pushed'
        BY <2>2, <2>7, <2>8, <2>8a, <2>9
      <3> QED BY <2>4, <2>5, <3>1 DEF NothingLost
    <2> QED BY <2>5, <2>9 DEF NothingLost
  <1>4. CASE TakeQueue
    <2>1. GlobalLines' = GlobalLines /\ pushed' = pushed
      BY <1>4 DEF TakeQueue, files, history, GlobalLines
    <2>2. lpc = "take" /\ ~failed
      BY <1>4 DEF TakeQueue, PointsConsistent, ErrorPoints, TypeOK
    <2>3. Unwritten = <<>>
      BY <2>2 DEF Unwritten
    <2> DEFINE q == SplitLogs(queue)
    <2>4. GlobalLines \o q = pushed
      <3>1. GlobalLines \o Unwritten \o q = pushed
        BY <2>2 DEF NothingLost
      <3>2. GlobalLines \o <<>> = GlobalLines
        BY <1>2, ConcatEmptySeq
      <3> QED BY <2>3, <3>1, <3>2
    <2>5. Unwritten' = q /\ SplitLogs(queue') = <<>>
      <3>1. batch' = queue /\ queue' = <<>>
        BY <1>4 DEF TakeQueue
      <3>2. CASE queue = <<>>
        BY <1>4, <3>1, <3>2, SplitNothing DEF TakeQueue, LogGoto, Unwritten
      <3>3. CASE queue # <<>>
        BY <1>4, <3>1, <3>3, SplitNothing DEF TakeQueue, LogGoto, Unwritten
      <3> QED BY <3>2, <3>3
    <2>6. (GlobalLines \o q) \o <<>> = GlobalLines \o q
      <3> DEFINE gq == GlobalLines \o q
      <3>1. gq \in Seq(Cells)
        BY <1>2, ConcatProperties
      <3> HIDE DEF gq
      <3>2. gq \o <<>> = gq
        BY <3>1, ConcatEmptySeq
      <3> QED BY <3>2 DEF gq
    <2>7. GlobalLines' \o Unwritten' \o SplitLogs(queue') = (GlobalLines \o q) \o <<>>
      BY <2>1, <2>5
    <2>8. GlobalLines' \o Unwritten' \o SplitLogs(queue') = pushed'
      BY <2>1, <2>4, <2>6, <2>7
    <2> QED BY <2>8 DEF NothingLost
  <1>5. CASE BatchWrite
    <2>1. pushed' = pushed /\ failed' = failed /\ lpc' = lpc
      BY <1>5 DEF BatchWrite, history
    <2>2. GlobalLines' \o Unwritten' \o SplitLogs(queue') =
            GlobalLines \o Unwritten \o SplitLogs(queue)
      BY <1>5, BatchWriteAccount
    <2> QED BY <2>1, <2>2 DEF NothingLost
  <1>6. CASE BatchWriteFails
    BY <1>6 DEF BatchWriteFails, NothingLost
  <1>7. CASE ErrorWrite
    BY <1>7 DEF ErrorWrite, PointsConsistent, ErrorPoints, NothingLost
  <1>8. CASE /\ \A c \in Clients : ~Push(c)
             /\ ~TakeQueue /\ ~BatchWrite /\ ~BatchWriteFails /\ ~ErrorWrite
    <2>1. /\ UNCHANGED <<queue, pushed>>
          /\ failed => failed'
          /\ lpc = "dead" => lpc' = "dead"
          /\ lpc' # "dead" => Unwritten' = Unwritten
      BY <1>8, OthersKeep
    <2>2. GlobalLines' = GlobalLines
      <3>1. CASE FlushGlobal \/ FlushFails
        BY <1>1, <3>1, FlushDrains DEF RestTyped
      <3>2. CASE ~(FlushGlobal \/ FlushFails)
        BY <1>1, <1>8, <3>2, GlobalQuiet DEF GlobalLines
      <3> QED BY <3>1, <3>2
    <2> QED BY <2>1, <2>2 DEF NothingLost
  <1> QED BY <1>3, <1>4, <1>5, <1>6, <1>7, <1>8

(* Only a push adds to what was pushed, and at its end. *)
LEMMA PushedGrows ==
  ASSUME TypeOK, PointsConsistent, Next
  PROVE  /\ pushed' \in Seq(Cells) /\ IsPrefix(pushed, pushed')
         /\ pushed' = pushed \/ UNCHANGED disk
  <1>1. pushed \in Seq(Cells)
    BY AccountType
  <1>2. ASSUME NEW c \in Clients, Push(c)
        PROVE  /\ pushed' \in Seq(Cells) /\ IsPrefix(pushed, pushed')
               /\ UNCHANGED disk
    <2>1. PICK d \in Seq(Entries) : pushed' = pushed \o SplitLogs(d)
      BY <1>2, PushAdds
    <2>2. SplitLogs(d) \in Seq(Entries)
      BY SplitType
    <2> DEFINE chunks == SplitLogs(d)
    <2>3. chunks \in Seq(Cells) /\ pushed' = pushed \o chunks
      BY <2>1, <2>2, SeqMonotonic DEF Cells
    <2> HIDE DEF chunks
    <2>4. pushed' \in Seq(Cells)
      BY <1>1, <2>3, ConcatProperties
    <2>5. IsPrefix(pushed, pushed')
      BY <1>1, <2>3, PrefixConcat
    <2> QED BY <1>2, <2>4, <2>5 DEF Push, files
  <1>3. CASE \A c \in Clients : ~Push(c)
    <2>1. pushed' = pushed
      <3>1. CASE TakeQueue \/ BatchWrite \/ BatchWriteFails \/ ErrorWrite
        BY <3>1 DEF TakeQueue, BatchWrite, BatchWriteFails, ErrorWrite, history
      <3>2. CASE ~(TakeQueue \/ BatchWrite \/ BatchWriteFails \/ ErrorWrite)
        BY <1>3, <3>2, OthersKeep
      <3> QED BY <3>1, <3>2
    <2> QED BY <1>1, <2>1, PrefixSelf
  <1> QED BY <1>2, <1>3

(* Every step keeps the order of the global file. *)
LEMMA OrderStep ==
  ASSUME TypeOK, TypeOK', PointsConsistent, GlobalPathPrivate, NothingLost,
         GlobalOrdered, Next
  PROVE  GlobalOrdered'
  <1>1. FilesTyped /\ RestTyped
    BY TypeSplit
  <1>2. global_file.pos = Len(disk[GlobalPath])
    BY DEF GlobalOrdered
  <1>3. GlobalAppends
    BY <1>2, GlobalGrows
  <1>4. /\ GlobalLines \in Seq(Cells) /\ disk[GlobalPath] \in Seq(Cells)
        /\ pushed \in Seq(Cells)
    BY AccountType
  <1>5. GlobalLines' \in Seq(Cells) /\ (disk[GlobalPath])' \in Seq(Cells)
    <2>1. FilesTyped'
      BY TypeSplitNext
    <2>2. disk'[GlobalPath] \in Seq(Cells) /\ global_file'.buf \in Seq(Entries)
      BY <2>1 DEF FilesTyped, Paths, Writers
    <2>3. global_file'.buf \in Seq(Cells)
      BY <2>2, SeqMonotonic DEF Cells
    <2> QED BY <2>2, <2>3, ConcatProperties DEF GlobalLines
  <1>6. pushed' \in Seq(Cells) /\ IsPrefix(pushed, pushed')
    BY PushedGrows
  <1>7. lpc \notin {"error_sinks", "dead"} => IsPrefix(GlobalLines, pushed)
    BY DEF GlobalOrdered
  <1>8. IsPrefix(disk'[GlobalPath], pushed')
    <2>1. CASE lpc \notin {"error_sinks", "dead"}
      <3>1. IsPrefix(disk'[GlobalPath], GlobalLines)
        BY <1>3 DEF GlobalAppends
      <3>2. IsPrefix(disk'[GlobalPath], pushed)
        BY <1>4, <1>5, <1>7, <2>1, <3>1, PrefixTrans
      <3> QED BY <1>4, <1>5, <1>6, <3>2, PrefixTrans
    <2>2. CASE lpc \in {"error_sinks", "dead"}
      <3>1. disk'[GlobalPath] = disk[GlobalPath]
        <4>1. ~BatchWrite /\ ~BatchWriteFails /\ ~ErrorWrite /\ ~FlushGlobal /\ ~FlushFails
          BY <2>2 DEF BatchWrite, BatchWriteFails, ErrorWrite, FlushGlobal, FlushFails
        <4> QED BY <1>1, <4>1, GlobalQuiet
      <3>2. IsPrefix(disk[GlobalPath], pushed)
        BY DEF GlobalOrdered
      <3> QED BY <1>4, <1>6, <3>1, <3>2, PrefixTrans
    <2> QED BY <2>1, <2>2
  <1>9. ASSUME lpc' \notin {"error_sinks", "dead"} PROVE IsPrefix(GlobalLines', pushed')
    <2>1. CASE BatchWrite
      <3>1. lpc = "batch_write" /\ next <= Len(batch) /\ ~failed
        BY <2>1 DEF BatchWrite, PointsConsistent, ErrorPoints, TypeOK
      <3>2. GlobalLines' = GlobalLines \o <<batch[next]>>
        BY <1>2, <2>1, BatchWriteAccount
      <3>3. pushed' = pushed
        BY <2>1 DEF BatchWrite, history
      <3> QED BY <3>1, <3>2, <3>3, NextIsPushed
    <2>2. CASE BatchWriteFails
      <3>1. lpc = "batch_write" /\ next <= Len(batch) /\ ~failed
        BY <2>2 DEF BatchWriteFails, PointsConsistent, ErrorPoints, TypeOK
      <3>2. batch[next] \in Entries
        BY <1>1, <3>1, ElementOfSeq DEF RestTyped
      <3>3. GlobalLines' \in {GlobalLines, GlobalLines \o <<batch[next]>>}
        BY <1>1, <1>2, <2>2, <3>2, WriteEntryFailsGlobal DEF BatchWriteFails
      <3>4. pushed' = pushed
        BY <2>2 DEF BatchWriteFails, history
      <3>5. IsPrefix(GlobalLines, pushed)
        BY <1>7, <3>1
      <3>6. IsPrefix(GlobalLines \o <<batch[next]>>, pushed)
        BY <3>1, NextIsPushed
      <3> QED BY <3>3, <3>4, <3>5, <3>6
    <2>3. CASE ErrorWrite
      BY <1>9, <2>3 DEF ErrorWrite, LogGoto
    <2>4. CASE ~BatchWrite /\ ~BatchWriteFails /\ ~ErrorWrite
      <3>1. GlobalLines' = GlobalLines
        <4>1. CASE FlushGlobal \/ FlushFails
          BY <1>1, <1>2, <4>1, FlushDrains DEF RestTyped
        <4>2. CASE ~(FlushGlobal \/ FlushFails)
          BY <1>1, <2>4, <4>2, GlobalQuiet DEF GlobalLines
        <4> QED BY <4>1, <4>2
      <3>2. lpc \notin {"error_sinks", "dead"}
        <4>1. CASE TakeQueue
          BY <4>1 DEF TakeQueue
        <4>2. ASSUME NEW c \in Clients, Push(c) PROVE lpc \notin {"error_sinks", "dead"}
          BY <1>9, <4>2 DEF Push, logVars
        <4>3. CASE ~TakeQueue /\ \A c \in Clients : ~Push(c)
          BY <1>9, <2>4, <4>3, OthersKeep
        <4> QED BY <4>1, <4>2, <4>3
      <3> QED BY <1>4, <1>6, <1>7, <3>1, <3>2, PrefixTrans
    <2> QED BY <2>1, <2>2, <2>3, <2>4
  <1> QED BY <1>3, <1>8, <1>9 DEF GlobalOrdered, GlobalAppends

(* What the safety of the global file rests on. *)
OrderInv ==
    /\ TypeOK
    /\ PointsConsistent
    /\ NothingLost
    /\ GlobalOrdered

(* The initial state. *)
LEMMA InitOrder ==
  ASSUME Init
  PROVE  OrderInv
  <1>1. disk[GlobalPath] = <<>> /\ global_file = [pos |-> 0, buf |-> <<>>]
    BY DEF Init, NewWriter, Paths
  <1>2. GlobalLines = <<>> /\ Unwritten = <<>> /\ SplitLogs(queue) = <<>> /\ pushed = <<>>
    BY <1>1, SplitNothing DEF Init, GlobalLines, Unwritten
  <1>3. GlobalLines \o Unwritten \o SplitLogs(queue) = pushed
    BY <1>2
  <1>4. <<>> \in Seq(Cells) /\ IsPrefix(<<>>, <<>>)
    BY EmptySeq, PrefixSelf
  <1>5. GlobalOrdered
    BY <1>1, <1>2, <1>4 DEF GlobalOrdered
  <1> QED BY <1>3, <1>5, InitType DEF OrderInv, NothingLost

(* Every step keeps the invariant, if no context's file is the global one. *)
LEMMA StepOrder ==
  ASSUME GlobalPathPrivate, OrderInv, [Next]_vars
  PROVE  OrderInv'
  <1>1. TypeOK' /\ PointsConsistent'
    BY StepType DEF OrderInv
  <1>2. CASE Next
    BY <1>1, <1>2, AccountStep, OrderStep DEF OrderInv, GlobalOrdered
  <1>3. CASE UNCHANGED vars
    <2>1. UNCHANGED <<queue, disk, global_file, lpc, batch, next, failed, pushed>>
      BY <1>3 DEF vars, files, logVars, history
    <2>2. GlobalLines' = GlobalLines /\ Unwritten' = Unwritten
      BY <2>1 DEF GlobalLines, Unwritten
    <2> QED BY <1>1, <2>1, <2>2 DEF OrderInv, NothingLost, GlobalOrdered
  <1> QED BY <1>2, <1>3

(* No entry is lost, duplicated or reordered between queue_log and the     *)
(* global file while log_thread lives, for any number of threads, tags,    *)
(* calls and entries: the swap of the queue under its mutex, the batch     *)
(* loop and BufWriter's buffering keep the account exact.                  *)
THEOREM NothingLostAlways ==
  ASSUME GlobalPathPrivate
  PROVE  Spec => []NothingLost
  <1>1. Init => OrderInv
    BY InitOrder
  <1>2. OrderInv /\ [Next]_vars => OrderInv'
    BY StepOrder
  <1>3. OrderInv => NothingLost
    BY DEF OrderInv
  <1> QED BY <1>1, <1>2, <1>3, PTL DEF Spec

(* The pipeline implements DurableLog whatever fails and when: the global  *)
(* file on disk only grows, and holds the oldest entries pushed, in order. *)
THEOREM DurableLogRefinement ==
  ASSUME GlobalPathPrivate
  PROVE  Spec => ImplementsDurableLog
  <1>1. Init => OrderInv
    BY InitOrder
  <1>2. OrderInv /\ [Next]_vars => OrderInv'
    BY StepOrder
  <1>3. Init => Durable!Init
    BY DEF Init, Durable!Init, Paths
  <1>4. OrderInv /\ OrderInv' /\ [Next]_vars => [Durable!Next]_(Durable!vars)
    <2> SUFFICES ASSUME OrderInv, OrderInv', [Next]_vars
                 PROVE  [Durable!Next]_(Durable!vars)
      OBVIOUS
    <2>1. CASE Next
      <3>1. /\ IsPrefix(pushed, pushed')
            /\ pushed' = pushed \/ UNCHANGED disk
        BY <2>1, PushedGrows DEF OrderInv
      <3>2. IsPrefix(disk[GlobalPath], disk'[GlobalPath])
        BY <2>1, GlobalGrows DEF OrderInv, GlobalOrdered, GlobalAppends
      <3>3. IsPrefix(disk'[GlobalPath], pushed')
        BY DEF OrderInv, GlobalOrdered
      <3>4. CASE pushed' = pushed
        BY <3>2, <3>3, <3>4 DEF Durable!Next, Durable!Store, Durable!IsPrefix, IsPrefix
      <3>5. CASE UNCHANGED disk
        BY <3>1, <3>5 DEF Durable!Next, Durable!Accept, Durable!IsPrefix, IsPrefix
      <3> QED BY <3>1, <3>4, <3>5
    <2>2. CASE UNCHANGED vars
      BY <2>2 DEF vars, files, history, Durable!vars
    <2> QED BY <2>1, <2>2
  <1> QED BY <1>1, <1>2, <1>3, <1>4, PTL DEF Spec, ImplementsDurableLog, Durable!Spec

-----------------------------------------------------------------------------
(* Flushing.  None of it needs the files to be different ones. *)

(* Draining all of a buffer empties it. *)
LEMMA DrainAll ==
  ASSUME NEW w \in Writers
  PROVE  Drained(w, Len(w.buf)).buf = <<>>
  <1>1. Len(w.buf) \in Nat
    BY DEF Writers
  <1>2. SubSeq(w.buf, Len(w.buf) + 1, Len(w.buf)) = <<>>
    BY <1>1, SubSeqEmpty
  <1> QED BY <1>2 DEF Drained

(* Writing a chunk adds no other to the buffer. *)
LEMMA WriteEntryBuffers ==
  ASSUME FilesTyped, NEW e \in Entries, WriteEntry(e)
  PROVE  EntriesOf(global_file'.buf) \subseteq EntriesOf(global_file.buf \o <<e>>)
  <1>1. PICK g \in SpillCounts(global_file) :
           global_file' = Buffered(Drained(global_file, g), e)
    BY DEF WriteEntry
  <1> DEFINE buf == global_file.buf
             rest == SubSeq(buf, g + 1, Len(buf))
             gone == SubSeq(buf, 1, g)
             one == <<e>>
  <1>2. g \in 0..Len(buf) /\ global_file \in Writers
    BY CountsType DEF FilesTyped
  <1>3. buf \in Seq(Entries) /\ one \in Seq(Entries)
    BY <1>2 DEF Writers
  <1>4. Drained(global_file, g) \in Writers /\ Drained(global_file, g).buf = rest
    BY <1>2, DrainType, EmptySeq DEF Drained
  <1>5. global_file'.buf = Append(rest, e)
    BY <1>1, <1>4, BufferedType
  <1> HIDE DEF buf
  <1>6. rest \in Seq(Entries) /\ gone \in Seq(Entries) /\ gone \o rest = buf
    BY <1>2, <1>3, BufferSplit
  <1> HIDE DEF rest, gone
  <1>7. Append(rest, e) = rest \o one
    <2>1. rest \in Seq(Entries) /\ e \in Entries
      BY <1>6
    <2> QED BY <2>1
  <1> HIDE DEF one
  <1>8. Range(rest \o one) = Range(rest) \cup Range(one)
    BY <1>3, <1>6, RangeConcatenation
  <1>9. Range(buf \o one) = Range(buf) \cup Range(one)
    BY <1>3, RangeConcatenation
  <1>10. Range(buf) = Range(gone) \cup Range(rest)
    <2>1. gone \in Seq(Entries) /\ rest \in Seq(Entries)
      BY <1>6
    <2>2. Range(gone \o rest) = Range(gone) \cup Range(rest)
      BY <2>1, RangeConcatenation
    <2> QED BY <1>6, <2>2
  <1>11. Range(global_file'.buf) \subseteq Range(buf \o one)
    <2>1. global_file'.buf = rest \o one
      BY <1>5, <1>7
    <2>2. Range(global_file'.buf) = Range(rest) \cup Range(one)
      BY <1>8, <2>1
    <2> QED BY <1>9, <1>10, <2>2
  <1> QED BY <1>11 DEF EntriesOf, buf, one

(* Two sequences of chunks are from the entries of either. *)
LEMMA EntriesOfConcat ==
  ASSUME NEW a \in Seq(Entries), NEW b \in Seq(Entries)
  PROVE  EntriesOf(a \o b) = EntriesOf(a) \cup EntriesOf(b)
  <1>1. Range(a \o b) = Range(a) \cup Range(b)
    BY RangeConcatenation
  <1> QED BY <1>1 DEF EntriesOf

(* What is unflushed are entries. *)
LEMMA UnflushedType ==
  ASSUME TypeOK
  PROVE  /\ global_file.buf \in Seq(Entries) /\ Unwritten \in Seq(Entries)
         /\ IsFiniteSet(Unflushed)
  <1>1. global_file.buf \in Seq(Entries) /\ batch \in Seq(Entries)
    BY DEF TypeOK, Writers
  <1>2. SplitLogs(batch) \in Seq(Entries)
    BY <1>1, SplitType
  <1>3. SubSeq(batch, next, Len(batch)) \in Seq(Entries)
    <2>1. next \in Nat \ {0} /\ Len(batch) \in Nat
      BY DEF TypeOK
    <2>2. \A i \in next..Len(batch) : batch[i] \in Entries
      BY <1>1, <2>1, ElementOfSeq
    <2> QED BY <2>1, <2>2, SubSeqProperties
  <1>4. Unwritten \in Seq(Entries)
    BY <1>2, <1>3, EmptySeq DEF Unwritten
  <1>5. IsFiniteSet(EntriesOf(global_file.buf)) /\ IsFiniteSet(EntriesOf(Unwritten))
    BY <1>1, <1>4, EntriesOfBound
  <1> QED BY <1>1, <1>4, <1>5, FS_Union DEF Unflushed

(* The count of unflushed entries, and that it stays bounded when there    *)
(* are no more of them.                                                    *)
UnflushedCounted == ~failed => Cardinality(Unflushed) <= logged

LEMMA UnflushedShrinks ==
  ASSUME TypeOK, UnflushedCounted, Unflushed' \subseteq Unflushed,
         logged' = logged, failed => failed'
  PROVE  UnflushedCounted'
  <1>1. IsFiniteSet(Unflushed)
    BY UnflushedType
  <1> DEFINE new == Unflushed'
             old == Unflushed
  <1>2. new \in SUBSET old
    OBVIOUS
  <1> HIDE DEF new, old
  <1>3. /\ IsFiniteSet(new) /\ Cardinality(new) <= Cardinality(old)
    BY <1>1, <1>2, FS_Subset DEF old
  <1>4. Cardinality(new) \in Nat /\ Cardinality(old) \in Nat /\ logged \in Nat
    BY <1>1, <1>3, FS_CardinalityType DEF old, TypeOK
  <1>5. ~failed => Cardinality(old) <= logged
    BY DEF UnflushedCounted, old
  <1>6. ~failed' => Cardinality(new) <= logged'
    BY <1>3, <1>4, <1>5
  <1> QED BY <1>6 DEF UnflushedCounted, new

(* A client leaves the log thread where it is, takes nothing off the queue *)
(* and opens or closes contexts only with nothing left in a buffer.        *)
LEMMA ClientFlushes ==
  ASSUME TypeOK, PointsConsistent, FlushProgress, NEW c \in Clients,
         \/ \E name \in CallNames : \E t \in TagsOf(name) : Call(c, name, t)
         \/ ClientStep(c) \/ AddContextFails(c) \/ WaitTimesOut(c)
  PROVE  FlushProgress'
  <1>1. UNCHANGED <<global_file, lpc, batch, next, logged, todo, failed>>
    BY DEF Call, ClientStep, ReadLock, Push, Signal, WaitForFlush, ClientClaim, AddContext,
           RemoveContext, AddSink, AddContextFails, WaitTimesOut, logVars, files
  <1>2. queue # <<>> => queue' # <<>>
    <2>1. CASE Push(c)
      <3>1. PICK d \in Seq(Entries) : queue' = queue \o d
        BY <2>1, PushAdds
      <3>2. queue \in Seq(Entries)
        BY DEF TypeOK
      <3> QED BY <3>1, <3>2, ConcatEqualIffEmpty
    <2>2. CASE ~Push(c)
      BY <2>2 DEF Call, ClientStep, ReadLock, Signal, WaitForFlush, ClientClaim, AddContext,
             RemoveContext, AddSink, AddContextFails, WaitTimesOut
    <2> QED BY <2>1, <2>2
  <1>3. \A t \in Tags : FileFlushed(t) => FileFlushed(t)'
    <2>1. CASE AddContext(c) \/ RemoveContext(c)
      <3>1. tag[c] \in Tags
        BY <2>1 DEF AddContext, RemoveContext, PointsConsistent
      <3>2. \A t \in Tags : context_map'[t] \in {context_map[t], NewWriter, NoFile}
        BY <2>1, <3>1 DEF AddContext, RemoveContext, TypeOK
      <3>3. NewWriter.buf = <<>>
        BY DEF NewWriter
      <3> QED BY <3>2, <3>3 DEF FileFlushed
    <2>2. CASE ~(AddContext(c) \/ RemoveContext(c))
      <3>1. UNCHANGED context_map
        BY <2>2 DEF Call, ClientStep, ReadLock, Push, Signal, WaitForFlush, ClientClaim,
                    AddSink, AddContextFails, WaitTimesOut, files
      <3> QED BY <3>1 DEF FileFlushed
    <2> QED BY <2>1, <2>2
  <1>4. AllFlushed => AllFlushed'
    BY <1>1, <1>3 DEF AllFlushed
  <1>5. Unflushed' = Unflushed
    BY <1>1 DEF Unflushed, Unwritten
  <1> QED
    BY <1>1, <1>2, <1>3, <1>4, <1>5 DEF FlushProgress

(* Every step of the log thread keeps the count of unflushed entries, and  *)
(* the two emptiness tests together.                                       *)
LEMMA LogFlushes ==
  ASSUME TypeOK, PointsConsistent, FlushProgress, LogNext
  PROVE  FlushProgress'
  <1>1. FilesTyped /\ RestTyped
    BY TypeSplit
  <1>2. logged \in Nat /\ Len(queue) \in Nat /\ FlushEvery \in Nat \ {0}
    BY <1>1, LenProperties, ConstantsAssumption DEF RestTyped
  <1>3. UnflushedCounted
    BY DEF FlushProgress, UnflushedCounted
  <1>3a. EntriesOf(<<>>) = {}
    BY DEF EntriesOf, Range
  <1>4. CASE TakeQueue
    <2> DEFINE b == EntriesOf(global_file.buf)
               q == EntriesOf(queue)
    <2>1. Unwritten' \in {<<>>, SplitLogs(queue)}
      BY <1>4 DEF TakeQueue, LogGoto, Unwritten
    <2>2. EntriesOf(Unwritten') \subseteq q
      BY <1>1, <1>3a, <2>1, SplitType DEF RestTyped
    <2>3. Unflushed' \in SUBSET (b \cup q) /\ b \in SUBSET Unflushed
      BY <1>4, <2>2 DEF TakeQueue, files, Unflushed
    <2>4. IsFiniteSet(b) /\ IsFiniteSet(q) /\ Cardinality(q) <= Len(queue)
      BY <1>1, UnflushedType, EntriesOfBound DEF RestTyped
    <2> DEFINE new == Unflushed'
    <2> HIDE DEF b, q, new
    <2>5. Cardinality(b) <= Cardinality(Unflushed) /\ Cardinality(Unflushed) \in Nat
      BY <2>3, UnflushedType, FS_Subset, FS_CardinalityType
    <2>6. /\ IsFiniteSet(b \cup q)
          /\ Cardinality(b \cup q) = Cardinality(b) + Cardinality(q) - Cardinality(b \cap q)
      BY <2>4, FS_Union
    <2>7. IsFiniteSet(b \cap q)
      BY <2>4, b \cap q \in SUBSET b, FS_Subset
    <2>8. /\ Cardinality(b) \in Nat /\ Cardinality(q) \in Nat
          /\ Cardinality(b \cap q) \in Nat /\ Cardinality(b \cup q) \in Nat
      BY <2>4, <2>6, <2>7, FS_CardinalityType
    <2>9. new \in SUBSET (b \cup q)
      BY <2>3 DEF new
    <2>10. IsFiniteSet(new) /\ Cardinality(new) <= Cardinality(b \cup q)
      BY <2>6, <2>9, FS_Subset
    <2>11. Cardinality(new) \in Nat
      BY <2>10, FS_CardinalityType
    <2>12. ~failed => Cardinality(new) <= logged + Len(queue)
      BY <1>2, <1>3, <2>4, <2>5, <2>6, <2>8, <2>10, <2>11 DEF UnflushedCounted
    <2>13. logged' = logged + Len(queue) /\ failed' = failed
      BY <1>4 DEF TakeQueue
    <2>14. ~failed' => Cardinality(Unflushed') <= logged'
      BY <2>12, <2>13 DEF new
    <2>15. lpc' \in {"check_flush", "config"}
      BY <1>4 DEF TakeQueue, LogGoto
    <2> QED BY <2>14, <2>15 DEF FlushProgress
  <1>5. CASE BatchWrite
    <2> DEFINE e == batch[next]
               r == SubSeq(batch, next + 1, Len(batch))
               one == <<e>>
    <2>1. e \in Entries
      BY <1>1, <1>5, ElementOfSeq DEF BatchWrite, RestTyped
    <2>2. EntriesOf(global_file'.buf) \subseteq EntriesOf(global_file.buf \o one)
      BY <1>1, <1>5, <2>1, WriteEntryBuffers DEF BatchWrite
    <2>3. Unwritten' = r
      BY <1>5 DEF BatchWrite, Unwritten
    <2>4. Unwritten = one \o r
      BY <1>5, UnwrittenFirst DEF BatchWrite
    <2>5. r \in Seq(Entries)
      <3>1. next \in Nat /\ Len(batch) \in Nat /\ batch \in Seq(Entries)
        BY <1>1, LenProperties DEF RestTyped
      <3>2. \A i \in (next + 1)..Len(batch) : batch[i] \in Entries
        BY <3>1, ElementOfSeq
      <3> QED BY <3>1, <3>2, SubSeqProperties
    <2>6. one \in Seq(Entries) /\ global_file.buf \in Seq(Entries)
      BY <2>1, UnflushedType
    <2> HIDE DEF r, one
    <2>7. /\ EntriesOf(global_file.buf \o one) = EntriesOf(global_file.buf) \cup EntriesOf(one)
          /\ EntriesOf(one \o r) = EntriesOf(one) \cup EntriesOf(r)
      BY <2>5, <2>6, EntriesOfConcat
    <2>8. Unflushed' \subseteq Unflushed
      BY <2>2, <2>3, <2>4, <2>7 DEF Unflushed
    <2>9. lpc' = "batch_write" /\ failed' = failed /\ logged' = logged
      BY <1>5 DEF BatchWrite
    <2>10. UnflushedCounted'
      BY <1>3, <2>8, <2>9, UnflushedShrinks
    <2> QED BY <2>9, <2>10 DEF FlushProgress, UnflushedCounted
  <1>6. CASE BatchWriteFails \/ ErrorWrite \/ ErrorToSinks \/ FlushFails
    <2>1. /\ failed'
          /\ lpc' \notin {"take", "check_wait", "wait", "flush_contexts"}
      BY <1>6 DEF BatchWriteFails, ErrorWrite, ErrorToSinks, FlushFails, LogGoto,
                  PointsConsistent, ErrorPoints
    <2> QED BY <2>1 DEF FlushProgress
  <1>7. CASE \/ ReadConfig \/ LogClaim \/ BatchWritten \/ DeliverToSinks \/ SinkFails
             \/ BackendsDone
    <2>1. UNCHANGED <<global_file, logged>> /\ (failed => failed')
      BY <1>7 DEF ReadConfig, LogClaim, BatchWritten, DeliverToSinks, SinkFails,
                  BackendsDone, shared, files
    <2>2. lpc' \notin {"take", "check_wait", "wait", "flush_contexts"}
      BY <1>7 DEF ReadConfig, LogClaim, BatchWritten, DeliverToSinks, SinkFails,
                  BackendsDone, LogGoto
    <2>3. Unwritten' \in {Unwritten, <<>>}
      <3>1. CASE lpc' = "dead"
        BY <3>1 DEF Unwritten
      <3>2. CASE lpc' # "dead"
        <4>1. /\ \A c \in Clients : ~Push(c)
              /\ ~TakeQueue /\ ~BatchWrite /\ ~BatchWriteFails /\ ~ErrorWrite
          BY <1>7, <2>2 DEF ReadConfig, LogClaim, BatchWritten, DeliverToSinks,
                      SinkFails, BackendsDone, LogGoto, shared, clientVars, Push, Goto,
                      TakeQueue, BatchWrite, BatchWriteFails, ErrorWrite, TypeOK
        <4> QED BY <1>7, <3>2, <4>1, OthersKeep DEF Next, LogStep, LogFailure
      <3> QED BY <3>1, <3>2
    <2>4. Unflushed' \subseteq Unflushed
      BY <1>3a, <2>1, <2>3 DEF Unflushed
    <2>5. UnflushedCounted'
      BY <1>3, <2>1, <2>4, UnflushedShrinks
    <2> QED BY <2>2, <2>5 DEF FlushProgress, UnflushedCounted
  <1>8. CASE CheckFlush \/ CheckWait \/ Wake
    <2>1. /\ UNCHANGED <<global_file, context_map, queue, batch, next, logged, todo, failed>>
          /\ Unflushed' = Unflushed
      BY <1>8 DEF CheckFlush, CheckWait, Wake, shared, files, LogGoto, Unwritten, Unflushed
    <2>2. AllFlushed' = AllFlushed
      BY <2>1 DEF AllFlushed, FileFlushed
    <2>3. CASE CheckFlush
      BY <1>2, <2>1, <2>2, <2>3 DEF CheckFlush, FlushDue, LogGoto, FlushProgress
    <2>4. CASE CheckWait
      BY <2>1, <2>2, <2>4 DEF CheckWait, LogGoto, FlushProgress
    <2>5. CASE Wake
      BY <2>1, <2>2, <2>5 DEF Wake, LogGoto, FlushProgress
    <2> QED BY <1>8, <2>3, <2>4, <2>5
  <1>9. CASE FlushGlobal
    <2>1. global_file' = Drained(global_file, Len(global_file.buf))
      BY <1>9 DEF FlushGlobal
    <2>2. global_file'.buf = <<>>
      BY <1>1, <2>1, DrainAll DEF FilesTyped
    <2>3. /\ lpc' = "flush_contexts" /\ Unwritten' = <<>>
          /\ logged' = logged /\ failed' = failed
      BY <1>9 DEF FlushGlobal, LogGoto, Unwritten
    <2>4. \A t \in Tags \ todo' : FileFlushed(t)'
      BY <1>9 DEF FlushGlobal, FileFlushed
    <2>5. UnflushedCounted'
      <3>1. Unflushed' \subseteq Unflushed
        BY <1>3a, <2>2, <2>3 DEF Unflushed
      <3> QED BY <1>3, <2>3, <3>1, UnflushedShrinks
    <2> QED BY <2>2, <2>3, <2>4, <2>5 DEF FlushProgress, UnflushedCounted
  <1>10. ASSUME NEW u \in Tags, FlushContext(u) PROVE FlushProgress'
    <2>1. context_map[u] \in Writers
      BY <1>1, <1>10 DEF FlushContext, FilesTyped, PointsConsistent
    <2>2. /\ context_map' = [context_map EXCEPT ![u] =
                               Drained(context_map[u], Len(context_map[u].buf))]
          /\ todo' = todo \ {u}
          /\ lpc = "flush_contexts"
          /\ UNCHANGED <<global_file, lpc, batch, next, logged, failed>>
      BY <1>10 DEF FlushContext
    <2>3. context_map'[u].buf = <<>>
      BY <1>1, <2>1, <2>2, DrainAll DEF FilesTyped
    <2>4. \A t \in Tags \ todo' : FileFlushed(t)'
      <3> TAKE t \in Tags \ todo'
      <3>1. CASE t = u
        BY <2>3, <3>1 DEF FileFlushed
      <3>2. CASE t # u
        <4>1. context_map'[t] = context_map[t] /\ t \in Tags \ todo
          BY <1>1, <2>2, <3>2 DEF FilesTyped
        <4> QED BY <2>2, <4>1 DEF FlushProgress, FileFlushed
      <3> QED BY <3>1, <3>2
    <2>5. Unflushed' = Unflushed
      BY <2>2 DEF Unflushed, Unwritten
    <2> QED BY <2>2, <2>4, <2>5 DEF FlushProgress
  <1>11. CASE FlushDone
    <2>1. /\ UNCHANGED <<global_file, context_map, queue, todo, failed>>
          /\ lpc = "flush_contexts" /\ todo = {}
      BY <1>11 DEF FlushDone, files
    <2>2. AllFlushed
      BY <2>1 DEF FlushProgress, AllFlushed
    <2>3. AllFlushed'
      BY <2>1, <2>2 DEF AllFlushed, FileFlushed
    <2>4. CASE ~failed
      <3>1. lpc' = "check_wait" /\ logged' = 0
        BY <1>11, <2>4 DEF FlushDone, LogGoto
      <3>2. Unwritten' = <<>> /\ global_file'.buf = <<>>
        BY <2>3, <3>1 DEF Unwritten, AllFlushed
      <3>3. Unflushed' = {}
        BY <1>3a, <3>2 DEF Unflushed
      <3>4. Cardinality(Unflushed') <= logged'
        BY <3>1, <3>3, FS_EmptySet
      <3> QED BY <1>2, <2>3, <3>1, <3>4 DEF FlushProgress
    <2>5. CASE failed
      BY <1>11, <2>1, <2>5 DEF FlushDone, LogGoto, FlushProgress
    <2> QED BY <2>4, <2>5
  <1> QED
    BY <1>4, <1>5, <1>6, <1>7, <1>8, <1>9, <1>10, <1>11
       DEF LogNext, LogStep, LogFailure, ErrorStep

(* The inductive invariant of the flushes. *)
FlushInv == TypeOK /\ PointsConsistent /\ FlushProgress

(* It holds initially and every step keeps it. *)
LEMMA FlushInductive ==
  /\ Init => FlushInv
  /\ FlushInv /\ [Next]_vars => FlushInv'
  <1>1. ASSUME Init PROVE FlushInv
    <2>1. global_file.buf = <<>> /\ Unwritten = <<>>
      BY <1>1 DEF Init, NewWriter, Unwritten
    <2>2. Unflushed = {}
      BY <2>1 DEF Unflushed, EntriesOf, Range
    <2>2a. Cardinality(Unflushed) = 0
      BY <2>2, FS_EmptySet
    <2>3. FlushProgress
      BY <1>1, <2>2a, ConstantsAssumption DEF Init, FlushProgress
    <2> QED BY <1>1, <2>3, InitType DEF FlushInv
  <1>2. ASSUME FlushInv, [Next]_vars PROVE FlushInv'
    <2>1. TypeOK' /\ PointsConsistent'
      BY <1>2, StepType DEF FlushInv
    <2>2. CASE Next
      BY <1>2, <2>1, <2>2, ClientFlushes, LogFlushes DEF FlushInv, Next, LogNext
    <2>3. CASE UNCHANGED vars
      <3>1. UNCHANGED <<queue, global_file, context_map, lpc, batch, next, logged,
                        todo, failed>>
        BY <2>3 DEF vars, files, logVars
      <3>2. FlushProgress'
        BY <1>2, <3>1 DEF FlushInv, FlushProgress, AllFlushed, FileFlushed, Unflushed,
                          Unwritten
      <3> QED BY <2>1, <3>2 DEF FlushInv
    <2> QED BY <1>2, <2>2, <2>3
  <1> QED BY <1>1, <1>2

(* The log thread never sleeps on a buffered entry, of the global file or  *)
(* of a context: its two separate looks at the queue fit together, because *)
(* only the log thread takes entries off it.                               *)
THEOREM AsleepFlushedAlways == Spec => []AsleepFlushed
  <1>1. FlushInv => AsleepFlushed
    BY DEF FlushInv, FlushProgress, AllFlushed, FileFlushed, AsleepFlushed
  <1> QED BY <1>1, FlushInductive, PTL DEF Spec

(* Under any load, the lines in the global file's buffer when the log      *)
(* thread swaps the queue out are those of fewer than FlushEvery entries,  *)
(* however many lines an entry is split into.                              *)
THEOREM UnflushedBoundAlways == Spec => []UnflushedBound
  <1>1. FlushInv => UnflushedBound
    <2> SUFFICES ASSUME FlushInv, lpc = "take"
                 PROVE  Cardinality(EntriesOf(global_file.buf)) < FlushEvery
      BY DEF UnflushedBound
    <2>1. ~failed
      BY DEF FlushInv, PointsConsistent, ErrorPoints, TypeOK
    <2> DEFINE b == EntriesOf(global_file.buf)
    <2>2. b \in SUBSET Unflushed
      BY DEF Unflushed
    <2>3. IsFiniteSet(Unflushed) /\ logged \in Nat /\ FlushEvery \in Nat
      BY UnflushedType, ConstantsAssumption DEF FlushInv, TypeOK
    <2> HIDE DEF b
    <2>4. IsFiniteSet(b) /\ Cardinality(b) <= Cardinality(Unflushed)
      BY <2>2, <2>3, FS_Subset
    <2>5. Cardinality(b) \in Nat /\ Cardinality(Unflushed) \in Nat
      BY <2>3, <2>4, FS_CardinalityType
    <2>6. Cardinality(Unflushed) <= logged /\ logged < FlushEvery
      BY <2>1 DEF FlushInv, FlushProgress
    <2> QED BY <2>3, <2>4, <2>5, <2>6 DEF b
  <1> QED BY <1>1, FlushInductive, PTL DEF Spec

-----------------------------------------------------------------------------
(* The token. *)

(* No call that the program makes leads to a wait. *)
LEMMA NobodyWaitsStep ==
  ASSUME TypeOK, NoWaitCalls, NobodyWaits, [Next]_vars
  PROVE  NobodyWaits'
  <1> DEFINE W == {"w_read", "w_wait", "t_read", "t_wait"}
  <1>a. cpc \in [Clients -> ClientPoints]
    BY DEF TypeOK
  <1>1. ASSUME NEW c \in Clients, NEW name \in CallNames, NEW t \in TagsOf(name),
               Call(c, name, t)
        PROVE  NobodyWaits'
    <2>1. name \notin {"wait_for_flush", "wait_flush_timeout"}
      BY <1>1 DEF Call, NoWaitCalls
    <2>2. FirstPoint[name] \notin W
      BY <2>1 DEF FirstPoint, CallNames
    <2> QED BY <1>1, <1>a, <2>2 DEF Call, Goto, NobodyWaits
  <1>2. ASSUME NEW c \in Clients,
               ClientStep(c) \/ AddContextFails(c) \/ WaitTimesOut(c)
        PROVE  NobodyWaits'
    <2>1. cpc[c] \notin {"w_read", "t_read"}
      BY DEF NobodyWaits
    <2>2. \E p \in ClientPoints \ W : cpc' = [cpc EXCEPT ![c] = p]
      BY <1>2, <2>1
         DEF ClientStep, ReadLock, Push, Signal, WaitForFlush, WaitTimesOut, ClientClaim,
             AddContext, AddContextFails, RemoveContext, AddSink, Return, Goto, ClientPoints
    <2> QED BY <1>a, <2>2 DEF NobodyWaits
  <1>3. CASE LogStep \/ LogFailure \/ ErrorStep \/ UNCHANGED vars
    <2>1. cpc' = cpc
      BY <1>3 DEF LogStep, LogFailure, ErrorStep, TakeQueue, ReadConfig, LogClaim,
                  BatchWrite, BatchWritten, DeliverToSinks, BackendsDone, CheckFlush,
                  FlushGlobal, FlushContext, FlushDone, CheckWait, Wake, BatchWriteFails,
                  SinkFails, FlushFails, ErrorWrite, ErrorToSinks, shared, clientVars, vars
    <2> QED BY <2>1 DEF NobodyWaits
  <1> QED BY <1>1, <1>2, <1>3 DEF Next

(* The log thread goes to sleep on an empty queue only; whoever pushes      *)
(* then is between its push and its signal, which sets the token; and the  *)
(* token is taken only by the log thread itself.                           *)
LEMMA NoSleepStep ==
  ASSUME TypeOK, NobodyWaits, NoSleepOnQueue, [Next]_vars
  PROVE  NoSleepOnQueue'
  <1>a. cpc \in [Clients -> ClientPoints]
    BY DEF TypeOK
  <1>1. ASSUME NEW c \in Clients, cpc[c] # "q_signal", cpc' = [cpc EXCEPT ![c] = cpc'[c]],
               UNCHANGED <<queue, logFlag, lpc>>
        PROVE  NoSleepOnQueue'
    BY <1>1, <1>a DEF NoSleepOnQueue
  <1>2. ASSUME NEW c \in Clients, NEW name \in CallNames, NEW t \in TagsOf(name),
               Call(c, name, t)
        PROVE  NoSleepOnQueue'
    BY <1>1, <1>2, <1>a DEF Call, Goto, logVars
  <1>3. ASSUME NEW c \in Clients, Push(c)
        PROVE  NoSleepOnQueue'
    <2>1. cpc' = [cpc EXCEPT ![c] = "q_signal"]
      BY <1>3 DEF Push, Goto
    <2>2. cpc'[c] = "q_signal"
      BY <1>a, <2>1
    <2> QED BY <2>2 DEF NoSleepOnQueue
  <1>4. ASSUME NEW c \in Clients, Signal(c)
        PROVE  NoSleepOnQueue'
    BY <1>4 DEF Signal, NoSleepOnQueue
  <1>5. ASSUME NEW c \in Clients,
               \/ ReadLock(c) \/ WaitForFlush(c) \/ ClientClaim(c) \/ AddContext(c)
               \/ RemoveContext(c) \/ AddSink(c) \/ AddContextFails(c) \/ WaitTimesOut(c)
        PROVE  NoSleepOnQueue'
    <2>1. ~WaitForFlush(c) 
      BY DEF NobodyWaits, WaitForFlush
    <2>2. UNCHANGED <<queue, logFlag, lpc>>
      BY <1>5, <2>1 DEF ReadLock, ClientClaim, AddContext, RemoveContext, AddSink,
                        AddContextFails, WaitTimesOut, logVars
    <2>3. cpc[c] # "q_signal" /\ \E p : cpc' = [cpc EXCEPT ![c] = p]
      BY <1>5, <2>1 DEF ReadLock, ClientClaim, AddContext, RemoveContext, AddSink,
                        AddContextFails, WaitTimesOut, Return, Goto
    <2> QED BY <1>1, <1>a, <2>2, <2>3
  <1>6. CASE CheckWait
    BY <1>6 DEF CheckWait, LogGoto, shared, NoSleepOnQueue
  <1>7. CASE \/ TakeQueue \/ ReadConfig \/ LogClaim \/ BatchWrite \/ BatchWritten
             \/ DeliverToSinks \/ BackendsDone \/ CheckFlush \/ FlushGlobal
             \/ (\E t \in Tags : FlushContext(t)) \/ FlushDone \/ Wake
             \/ LogFailure \/ ErrorStep
    <2>1. lpc' # "wait"
      BY <1>7 DEF LogFailure, ErrorStep, TakeQueue, ReadConfig, LogClaim,
                  BatchWrite, BatchWritten, DeliverToSinks, BackendsDone, CheckFlush,
                  FlushGlobal, FlushContext, FlushDone, Wake, BatchWriteFails,
                  SinkFails, FlushFails, ErrorWrite, ErrorToSinks, LogGoto
    <2> QED BY <2>1 DEF NoSleepOnQueue
  <1>8. CASE UNCHANGED vars
    BY <1>8 DEF vars, logVars, clientVars, NoSleepOnQueue
  <1> QED
    BY <1>2, <1>3, <1>4, <1>5, <1>6, <1>7, <1>8 DEF Next, ClientStep, LogStep

(* In a program that makes no call to wait for a flush, the log thread     *)
(* never sleeps on a queued entry without a signal on its way.             *)
THEOREM NoSleepOnQueueAlways ==
  ASSUME NoWaitCalls
  PROVE  Spec => []NoSleepOnQueue
  <1>1. Init => NobodyWaits /\ NoSleepOnQueue
    BY DEF Init, NobodyWaits, NoSleepOnQueue
  <1>2. TypeOK /\ NobodyWaits /\ NoSleepOnQueue /\ [Next]_vars
          => NobodyWaits' /\ NoSleepOnQueue'
    BY NobodyWaitsStep, NoSleepStep
  <1>3. Spec => [](TypeOK /\ PointsConsistent)
    BY TypeCorrect
  <1> QED BY <1>1, <1>2, <1>3, PTL DEF Spec
=============================================================================
