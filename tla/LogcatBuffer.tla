---------------------------- MODULE LogcatBuffer -----------------------------
(***************************************************************************)
(* logcat_logger::do_log (src/src/logger/logcat_logger.rs), which the log  *)
(* thread calls for each entry on Android: it lays tag, file and message   *)
(* out in a thread-local byte buffer and hands pointers into it to the     *)
(* system's log.  Without the feature android-api-30, which does not       *)
(* compile.  Of a text only the length matters: a byte is the name of the  *)
(* text it is from, or Nul.                                                *)
(***************************************************************************)
EXTENDS Naturals, Sequences

CONSTANTS
    Nul,
    MaxLen,       \* BOUND: length of a tag, a file name and a message
    Overhead      \* what "[file:line:column @ function] " adds to file and message

(* Every part of a split message has a character. *)
Lengths == [tag : 0..MaxLen, file : 0..MaxLen, message : 1..MaxLen]

VARIABLES
    buffer,       \* CSTRING_BUFFER
    slices,       \* the last entry's slices <<tag, file, message>>
    entry,        \* the last entry
    panicked      \* has slicing panicked?

vars == <<buffer, slices, entry, panicked>>

Init ==
    /\ buffer = <<>>
    /\ slices = <<>>
    /\ entry = [tag |-> 0, file |-> 0, message |-> 1]
    /\ panicked = FALSE

Text(name, len) == [i \in 1..len |-> name]

(* A text as the code lays it out: its bytes and a NUL. *)
CString(name, len) == Append(Text(name, len), Nul)

(* message_str *)
FormattedLen(e) == Overhead + e.file + e.message

Extended(e) ==
    buffer \o CString("tag", e.tag) \o CString("file", e.file)
           \o CString("message", FormattedLen(e))

tag_len(e) == e.tag + 1
file_len(e) == tag_len(e) + e.file + 1
message_len(e) == FormattedLen(e) + 1

(* &buffer[from..to] panics when from > to. *)
SliceOf(bytes, from, to) == SubSeq(bytes, from + 1, to)

(* __android_log_write reads the tag and the message from their pointers,  *)
(* and the buffer is cleared.                                              *)
DoLog(e) ==
    /\ ~panicked
    /\ file_len(e) <= message_len(e)
    /\ entry' = e
    /\ slices' = <<SliceOf(Extended(e), 0, tag_len(e)),
                   SliceOf(Extended(e), tag_len(e), file_len(e)),
                   SliceOf(Extended(e), file_len(e), message_len(e))>>
    /\ buffer' = <<>>
    /\ UNCHANGED panicked

(* The panic unwinds out of the log thread. *)
DoLogPanics(e) ==
    /\ ~panicked
    /\ file_len(e) > message_len(e)
    /\ entry' = e
    /\ slices' = <<>>
    /\ buffer' = Extended(e)
    /\ panicked' = TRUE

Next == \E e \in Lengths : DoLog(e) \/ DoLogPanics(e)

Spec == Init /\ [][Next]_vars

(* The three slices that do_log makes C strings of are the texts, each     *)
(* with the NUL that from_bytes_with_nul_unchecked requires at its end     *)
(* (src/src/logger/logcat_logger.rs:90).                                   *)
SlicesTerminated ==
    slices # <<>> =>
        slices = <<CString("tag", entry.tag), CString("file", entry.file),
                   CString("message", FormattedLen(entry))>>
=============================================================================
