---------------------------- MODULE BufferedFile -----------------------------
(***************************************************************************)
(* A BufWriter<File>, as LoggerThreadCtx uses it for its log files         *)
(* (std, external).  A file is a sequence of cells, one per line that is   *)
(* written to it with one writeln.  A writer has its own offset into the   *)
(* file, as every File::create opens a new one, and a buffer of lines not  *)
(* yet handed to the operating system.                                     *)
(***************************************************************************)
EXTENDS Naturals, Sequences

CONSTANT Hole   \* the NUL bytes of a file extended past its end

NewWriter == [pos |-> 0, buf |-> <<>>]

(* write(2) at an offset: overwrites, extends, and fills a gap with a hole. *)
WriteAt(cells, pos, entries) ==
    LET end == pos + Len(entries)
        len == IF end > Len(cells) THEN end ELSE Len(cells)
    IN  IF entries = <<>> THEN cells
        ELSE [j \in 1..len |->
                IF pos < j /\ j <= end THEN entries[j - pos]
                ELSE IF j <= Len(cells) THEN cells[j] ELSE Hole]

(* The first k buffered lines leave the buffer for the file: all of them *)
(* in a flush, some of them in a flush that fails half way.                *)
Drained(w, k) ==
    [pos |-> w.pos + k, buf |-> SubSeq(w.buf, k + 1, Len(w.buf))]

DrainedCells(cells, w, k) == WriteAt(cells, w.pos, SubSeq(w.buf, 1, k))

Buffered(w, e) == [w EXCEPT !.buf = Append(@, e)]

(* What a write drains first: nothing, or the whole buffer when the new    *)
(* line does not fit.                                                      *)
SpillCounts(w) == {0, Len(w.buf)}

(* What a failing write or flush has drained when it returns its error. *)
FailedWriteCounts(w) == 0..Len(w.buf)
FailedFlushCounts(w) == 0..(Len(w.buf) - 1)
=============================================================================
