----------------------------- MODULE SplitChunks -----------------------------
(***************************************************************************)
(* split_str_into_chunks of src/src/logger/logger_thread_ctx.rs: what the  *)
(* log thread makes of the batch it takes off the queue.  A message is a   *)
(* sequence of characters, Newline among them.                             *)
(*                                                                         *)
(* The state machine is the program typing a batch, one character or one   *)
(* entry at a time.  Along with the batch it keeps the rows that a         *)
(* line-wrapping terminal would show, the blank ones included, as the      *)
(* reference the function is compared with.                                *)
(***************************************************************************)
EXTENDS Naturals, Sequences, SequencesExt

CONSTANTS Chars,        \* the characters of a message other than Newline
          Newline,
          MaxStringLen, \* config.max_string_len
          MaxEntries,   \* BOUND: entries of the batch
          MaxChars      \* BOUND: characters typed

ASSUME SplitAssumption ==
    /\ Newline \notin Chars
    /\ MaxStringLen \in Nat \ {0}

VARIABLES queue,    \* the messages of the batch
          typed,    \* how many characters were typed
          screen    \* reference: the rows shown so far, with their entry

vars == <<queue, typed, screen>>

-----------------------------------------------------------------------------
(* The function. *)

(* log.message.split("\n"): always one segment more than newlines. *)
Segments(message) ==
    LET split[i \in 0..Len(message)] ==
            IF i = 0 THEN << <<>> >>
            ELSE IF message[i] = Newline THEN Append(split[i - 1], <<>>)
            ELSE [split[i - 1] EXCEPT ![Len(split[i - 1])] = Append(@, message[i])]
    IN  split[Len(message)]

(* Slip: a line that fills its last chunk gets one more, empty. *)
ChunksOneMore(s) ==
    [i \in 1..(Len(s) \div MaxStringLen + 1) |->
        SubSeq(s, (i - 1) * MaxStringLen + 1,
               IF i * MaxStringLen < Len(s) THEN i * MaxStringLen ELSE Len(s))]

(* s.chars().chunks(max_str_len): none at all for an empty segment. *)
Chunks(s) ==
    [i \in 1..((Len(s) + MaxStringLen - 1) \div MaxStringLen) |->
        SubSeq(s, (i - 1) * MaxStringLen + 1,
               IF i * MaxStringLen < Len(s) THEN i * MaxStringLen ELSE Len(s))]

MessageChunks(message) ==
    LET segments == Segments(message)
    IN  FlattenSeq([i \in 1..Len(segments) |-> Chunks(segments[i])])

(* Each chunk is a LogData that is its entry's but for the message. *)
SplitStrIntoChunks(batch) ==
    FlattenSeq([n \in 1..Len(batch) |->
        LET chunks == MessageChunks(batch[n])
        IN  [i \in 1..Len(chunks) |-> [log |-> n, message |-> chunks[i]]]])

-----------------------------------------------------------------------------
(* The batch is typed. *)

BlankRow(n) == [log |-> n, message |-> <<>>]

Init ==
    /\ queue = <<>>
    /\ typed = 0
    /\ screen = <<>>

(* An entry starts on a row of its own. *)
NewEntry ==
    /\ Len(queue) < MaxEntries
    /\ queue' = Append(queue, <<>>)
    /\ screen' = Append(screen, BlankRow(Len(queue) + 1))
    /\ UNCHANGED typed

Type(c) ==
    /\ queue # <<>>
    /\ typed < MaxChars
    /\ typed' = typed + 1
    /\ queue' = [queue EXCEPT ![Len(queue)] = Append(@, c)]

(* A character goes to the end of the row, or to a new one when the row is *)
(* full.                                                                   *)
TypeChar(c) ==
    /\ Type(c)
    /\ \/ /\ Len(screen[Len(screen)].message) < MaxStringLen
          /\ screen' = [screen EXCEPT ![Len(screen)].message = Append(@, c)]
       \/ /\ Len(screen[Len(screen)].message) = MaxStringLen
          /\ screen' = Append(screen, [log |-> Len(queue), message |-> <<c>>])

TypeNewline ==
    /\ Type(Newline)
    /\ screen' = Append(screen, BlankRow(Len(queue)))

Next == NewEntry \/ TypeNewline \/ \E c \in Chars : TypeChar(c)

Spec == Init /\ [][Next]_vars

-----------------------------------------------------------------------------

(* The rows with something on them, as a recursion over their positions. *)
NonBlank(rows) ==
    LET kept[i \in 0..Len(rows)] ==
            IF i = 0 THEN <<>>
            ELSE IF rows[i].message # <<>> THEN Append(kept[i - 1], rows[i])
            ELSE kept[i - 1]
    IN  kept[Len(rows)]

(* The chunks are the rows that wrapping the messages would show, without  *)
(* the blank ones: no character is dropped, added or moved to another      *)
(* entry, no chunk is longer than max_string_len, and a line is broken     *)
(* only where it has to be, after every max_string_len characters and at   *)
(* its newlines.  A line of just max_string_len characters stays whole,    *)
(* although src/shared/logger.hpp:132 says that a string that reaches the  *)
(* length is split.  Every blank row is gone, and with it every trace of   *)
(* an entry that has no other: what queue_log says is queued to be written *)
(* (src/src/logger/logger_thread_ctx.rs:192) is written nowhere.           *)
SplitsLikeWrapping == SplitStrIntoChunks(queue) = NonBlank(screen)
=============================================================================
