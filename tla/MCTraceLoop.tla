---------------------------- MODULE MCTraceLoop -----------------------------
(***************************************************************************)
(* Instances of TraceLoop for TLC: lines a trace file may hold, one of     *)
(* each kind the replay tells apart, all files of up to two of them, and   *)
(* all files of three calls and lock events.                               *)
(***************************************************************************)
EXTENDS TraceLoop

\* tick, trace, rpc, source, destination, container, latency, flags, type, priority
Arrival0     == <<0, 1, 1, 0, 0, 0, 5, 0, 1, 0>>
ArrivalLater == <<2, 1, 2, 0, 5, 0, 5, 0, 1, 0>>
ArrivalTwin  == <<2, 2, 3, 5, 0, 0, 0, 0, 257, 0>>     \* type 257 is read as 1
Acquire      == <<0, 1, 1, 1, 5, 0, 0, 65536, 2, 0>>   \* flags 65536 is read as 0
Release      == <<2, 1, 1, 1, 0, 0, 0, 0, 3, 0>>
ReleaseOther == <<0, 1, 1, 1, 0, 0, 0, 1, 3, 0>>       \* of another lock
ForeignTake  == <<1, 2, 2, 0, 5, 0, 0, 0, 2, 0>>       \* by another rpc, in another trace
ForeignDrop  == <<2, 2, 2, 0, 5, 0, 0, 0, 3, 0>>
Completion   == <<2, 0, 4, 1, 5, 0, 5, 0, 4, 0>>
UnknownType  == <<3, 1, 2, 0, 0, 0, 5, 0, 7, 0>>
ShortLine    == <<1, 1, 1, 0, 5, 0, 1>>                \* flags and type are the latency, 1
EmptyLine    == <<>>
BadLine      == <<1, 1, NotANumber>>

CommonLines == {Arrival0, ArrivalLater, ArrivalTwin, Acquire, Release, ReleaseOther,
                ForeignTake}
OddLines    == {ForeignDrop, Completion, UnknownType, ShortLine, EmptyLine, BadLine}

MCFiles == BoundedSeq(CommonLines \cup OddLines, 2) \cup BoundedSeq(CommonLines, 3)

TraceSource == {"Arrival", "LockAcquire", "LockRelease", "Service"}

=============================================================================
