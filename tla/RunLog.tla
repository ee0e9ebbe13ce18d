------------------------------- MODULE RunLog -------------------------------
(***************************************************************************)
(* The logger of a run: CSVLogger and BinaryLogger, which differ in how a  *)
(* row is spelled, and NullLogger.  A row goes from the logger's buffer to *)
(* the stream, and from there to the file: at the latest when the stream   *)
(* is flushed, earlier when its own buffer is full, which may end in the   *)
(* middle of a row.                                                        *)
(*                                                                         *)
(* A row is the pair of its tick and process.                              *)
(***************************************************************************)
EXTENDS Integers, SequencesExt

\* Every logger there is, an open one and one that is closed.
Logger == [kind   : {"csv", "binary", "null"},
           cap    : Nat \ {0},
           buffer : Seq(Nat \X Nat),    \* rows not yet given to the stream
           stream : Seq(Nat \X Nat),    \* rows given to the stream
           flushed : Nat,               \* how many of them are surely in the file
           closed : BOOLEAN]

Open(kind, cap) == [kind |-> kind, cap |-> cap, buffer |-> <<>>, stream |-> <<>>,
                    flushed |-> 0, closed |-> FALSE]

\* Fault: the rows stay in the buffer.
FlushBufferKept(log) == [log EXCEPT !.stream = @ \o log.buffer]

FlushBuffer(log) == [log EXCEPT !.stream = @ \o log.buffer, !.buffer = <<>>]

Flush(log) ==
    IF log.closed \/ log.kind = "null" THEN log
    ELSE LET emptied == FlushBuffer(log)
         IN  [emptied EXCEPT !.flushed = Len(emptied.stream)]

Close(log) == [Flush(log) EXCEPT !.closed = TRUE]

Write(log, row) ==
    IF log.closed \/ log.kind = "null" THEN log
    ELSE LET longer == [log EXCEPT !.buffer = Append(@, row)]
         IN  IF Len(longer.buffer) >= log.cap THEN FlushBuffer(longer) ELSE longer

\* What the file may hold when the process is killed: some first rows of the
\* stream, and perhaps the beginning of the next one.
Surviving(log) ==
    {[rows |-> SubSeq(log.stream, 1, n), torn |-> FALSE] :
        n \in log.flushed .. Len(log.stream)}
      \cup {[rows |-> SubSeq(log.stream, 1, n), torn |-> TRUE] :
               n \in log.flushed .. Len(log.stream) - 1}

\* The rows of a tick, one for each of n processes.
RowsOfTick(tick, n) == [k \in 1 .. n |-> <<tick, k - 1>>]

WriteTick(log, tick, n) ==
    LET written[k \in 0 .. n] ==
            IF k = 0 THEN log ELSE Write(written[k - 1], RowsOfTick(tick, n)[k])
    IN  written[n]

=============================================================================
