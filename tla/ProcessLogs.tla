---------------------------- MODULE ProcessLogs ----------------------------
(***************************************************************************)
(* The bounded log of a background process, written by the threads that    *)
(* read its pipes and read with a cursor by read_process_output.  A record *)
(* is one chunk: the text from_utf8_lossy made of one read, in which a     *)
(* character torn by the read is already replaced.  Only its size and its  *)
(* cursor matter.                                                          *)
(***************************************************************************)
EXTENDS Naturals, Sequences, FiniteSetsExt

CONSTANTS MaxLogBytes,    \* MAX_BACKGROUND_LOG_BYTES
          MaxLogRecords,  \* MAX_BACKGROUND_RECORDS
          MaxChunkBytes,  \* sizes of chunks
          MaxPushes       \* bound: chunks over the life of the process

ASSUME LogAssumption == {MaxLogBytes, MaxLogRecords, MaxChunkBytes} \subseteq Nat /\ MaxLogRecords > 0

VARIABLES log,         \* [records, bytes, next, truncated]
          poller,      \* [cursor, whole (cursors whose text was returned in full), warned]
          pushes

logVars == <<log, poller, pushes>>
Prefix == 1            \* "[stdout] " before the text of a record

LogInit == /\ log = [records |-> <<>>, bytes |-> 0, next |-> 1, truncated |-> FALSE]
           /\ poller = [cursor |-> 0, whole |-> {}, warned |-> FALSE]
           /\ pushes = 0

\* What the first n of a sequence of sizes add up to.
Upto(sizes) == LET sum[n \in 0 .. Len(sizes)] == IF n = 0 THEN 0 ELSE sum[n - 1] + sizes[n] IN sum
BytesOf(records) == [i \in DOMAIN records |-> records[i].bytes]
Total(records) == Upto(BytesOf(records))[Len(records)]

\* Without its oldest n records a log has room for size bytes, or is empty.
Fits(l, n, size) ==
    \/ n = Len(l.records)
    \/ l.bytes + size <= MaxLogBytes + Upto(BytesOf(l.records))[n] /\ Len(l.records) < MaxLogRecords + n

\* How many of the oldest make room for size bytes; a chunk larger than the log
\* takes the place of all.
MakeRoom(l, size) ==
    IF size > MaxLogBytes THEN Len(l.records)
    ELSE CHOOSE n \in 0 .. Len(l.records) : Fits(l, n, size) /\ \A k \in 0 .. (n - 1) : ~Fits(l, k, size)

\* Mutant: room made without a note of it.
PushedQuietly(l, size) ==
    LET n == MakeRoom(l, size)
        kept == IF size > MaxLogBytes THEN MaxLogBytes ELSE size
    IN [records |-> Append(SubSeq(l.records, n + 1, Len(l.records)), [cursor |-> l.next, bytes |-> kept, cut |-> kept < size]),
        bytes |-> (l.bytes - Upto(BytesOf(l.records))[n]) + kept,
        next |-> l.next + 1,
        truncated |-> l.truncated \/ size > MaxLogBytes]
\* BoundedProcessLogs::push; of a chunk larger than the whole log the end is kept.
Pushed(l, size) ==
    LET n == MakeRoom(l, size)
        kept == IF size > MaxLogBytes THEN MaxLogBytes ELSE size
    IN [records |-> Append(SubSeq(l.records, n + 1, Len(l.records)), [cursor |-> l.next, bytes |-> kept, cut |-> kept < size]),
        bytes |-> (l.bytes - Upto(BytesOf(l.records))[n]) + kept,
        next |-> l.next + 1,
        truncated |-> l.truncated \/ n > 0 \/ size > MaxLogBytes]

ReadBackgroundPipe(size) ==
    /\ pushes < MaxPushes
    /\ log' = Pushed(log, size) /\ pushes' = pushes + 1
    /\ UNCHANGED poller

\* The rows of the records behind a cursor.
Rows(records, after) == [i \in DOMAIN records |-> IF records[i].cursor > after THEN records[i].bytes + Prefix ELSE 0]
\* The last cursor of the first n records that is behind the reader's.
CursorAt(records, n, after) == IF n > 0 /\ records[n].cursor > after THEN records[n].cursor ELSE after

\* BoundedProcessLogs::read: whole rows while they fit, then what fits of one more.
ReadLog(l, after, max) ==
    LET records == l.records
        rows == Upto(Rows(records, after))
        dropped == l.truncated /\ records # <<>> /\ after < records[1].cursor
        over == {n \in DOMAIN records : rows[n] > max}
        shown == IF over = {} THEN Len(records) ELSE Min(over) - 1
        part == over # {} /\ rows[shown] < max
    IN [next |-> CursorAt(records, IF part THEN shown + 1 ELSE shown, after),
        truncated |-> dropped \/ over # {},
        whole |-> {records[i].cursor : i \in {j \in 1 .. shown : records[j].cursor > after /\ ~records[j].cut}}]

ReadOutput(max) ==
    LET batch == ReadLog(log, poller.cursor, max) IN
    /\ poller' = [cursor |-> batch.next, whole |-> poller.whole \cup batch.whole,
                  warned |-> poller.warned \/ batch.truncated]
    /\ UNCHANGED <<log, pushes>>

LogNext == \/ \E size \in 1..MaxChunkBytes : ReadBackgroundPipe(size)
           \/ \E max \in 1..(MaxLogBytes + MaxLogRecords) : ReadOutput(max)

LogSpec == LogInit /\ [][LogNext]_logVars

\* The log keeps to both limits, whatever the chunks, and the count of bytes is
\* the bytes there are.
LogBounded == log.bytes = Total(log.records) /\ log.bytes <= MaxLogBytes /\ Len(log.records) <= MaxLogRecords

\* A client that polls with the cursor it was given has every chunk in full, or
\* has been told that something is missing.
NoSilentLogLoss == (1..poller.cursor) \subseteq poller.whole \/ poller.warned

\* The log keeps its limits, and a reader is told of what was dropped before it
\* read it (push, read_output).
LogIsHonest == LogBounded /\ NoSilentLogLoss
=============================================================================
