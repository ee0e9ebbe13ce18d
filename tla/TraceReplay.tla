---------------------------- MODULE TraceReplay -----------------------------
(***************************************************************************)
(* Reading, checking, replaying and reconstructing a trace: AlibabaParser, *)
(* TraceValidator, ReplayEngine, TraceReconstructor, TraceAnalyzer and the *)
(* traces GraphWorkload generates, as operators on sequences of records.   *)
(*                                                                         *)
(* A file is the sequence of its lines after the header, a line is the     *)
(* sequence of its comma-separated tokens, and a token is the number it    *)
(* spells or NotANumber.  Ids and latencies are taken to fit their fields; *)
(* the two narrow fields, flags and type, keep their width.                *)
(***************************************************************************)
EXTENDS EventQueue, SequencesExt, FiniteSetsExt

NotANumber == -1

\* The columns of a line that the program uses afterwards.
Columns == [tick |-> 1, trace_id |-> 2, rpc_id |-> 3, source_service |-> 4,
            destination_service |-> 5, latency |-> 7, trace_flags |-> 8, type |-> 9]

\* getline leaves the token as it was once the line has ended: the columns
\* that a short line lacks repeat its last token.
Token(line, column) == line[Min({column, Len(line)})]

Malformed(file) == \E k \in DOMAIN file : \E c \in DOMAIN file[k] : 
                      c <= 10 /\ file[k][c] = NotANumber

ParsedLine(line) ==
    [f \in DOMAIN Columns |->
        LET token == Token(line, Columns[f])
        IN  CASE f = "trace_flags" -> token % 2^16
              [] f = "type"        -> token % 2^8
              [] OTHER             -> token]

\* parse(): empty lines are skipped; a malformed file has no records at all.
Parse(file) ==
    LET read[k \in 0 .. Len(file)] ==
            IF k = 0 THEN <<>>
            ELSE IF file[k] = <<>> THEN read[k - 1]
            ELSE Append(read[k - 1], ParsedLine(file[k]))
    IN  read[Len(file)]

-----------------------------------------------------------------------------
(* TraceValidator::validate, which only warns as the program calls it.     *)

EmptyLedger == [locks |-> [rpc \in {} |-> {}], orphans |-> {}, past_end |-> FALSE]

HeldBy(ledger, rpc) == IF rpc \in DOMAIN ledger.locks THEN ledger.locks[rpc] ELSE {}

WithLocks(ledger, rpc, locks) ==
    [r \in DOMAIN ledger.locks \cup {rpc} |->
        IF r = rpc THEN locks ELSE ledger.locks[r]]

\* Fault: whether the rpc holds any lock is looked at, not which one.
ReleaseOfAny(ledger, rec, k) ==
    IF HeldBy(ledger, rec.rpc_id) # {}
    THEN [ledger EXCEPT !.locks = WithLocks(ledger, rec.rpc_id,
                                     HeldBy(ledger, rec.rpc_id) \ {rec.trace_flags})]
    ELSE [ledger EXCEPT !.orphans  = @ \cup {k},
                        !.past_end = @ \/ rec.rpc_id \notin DOMAIN ledger.locks]

\* A release that matches no acquire is reported and then erased all the same;
\* when the rpc has no entry that is through the iterator past the end.
NoteRelease(ledger, rec, k) ==
    IF rec.trace_flags \in HeldBy(ledger, rec.rpc_id)
    THEN [ledger EXCEPT !.locks = WithLocks(ledger, rec.rpc_id,
                                     HeldBy(ledger, rec.rpc_id) \ {rec.trace_flags})]
    ELSE [ledger EXCEPT !.orphans  = @ \cup {k},
                        !.past_end = @ \/ rec.rpc_id \notin DOMAIN ledger.locks]

NoteAcquire(ledger, rec) ==
    [ledger EXCEPT !.locks = WithLocks(ledger, rec.rpc_id,
                                HeldBy(ledger, rec.rpc_id) \cup {rec.trace_flags})]

\* pass2IdentifierIntegrity over the whole trace.
Validated(records) ==
    LET ledger[k \in 0 .. Len(records)] ==
            IF k = 0 THEN EmptyLedger
            ELSE CASE records[k].type = 2 -> NoteAcquire(ledger[k - 1], records[k])
                   [] records[k].type = 3 -> NoteRelease(ledger[k - 1], records[k], k)
                   [] OTHER               -> ledger[k - 1]
    IN  ledger[Len(records)]

-----------------------------------------------------------------------------
(* ReplayEngine::emitEvents.  config_.time_scale is never set: it is 1.    *)

\* Fault: the number in the record is taken for that of an EventType.
EventTypesCast == <<"LockAcquire", "LockRelease", "Schedule", "Service">>

\* The types of record the replay knows: 1 to 4.
EventTypes == <<"Arrival", "LockAcquire", "LockRelease", "Service">>

ToEvent(rec) ==
    LET type == EventTypes[rec.type]
    IN  [type    |-> type,
         pid     |-> rec.destination_service,
         payload |-> IF type \in {"LockAcquire", "LockRelease"}
                     THEN rec.trace_flags ELSE 0]

\* Fault: a late record is pushed with the tick being replayed.
EmittedLateToo(rec, t) == rec.type \in DOMAIN EventTypes /\ rec.tick <= t

\* Is the record pushed when the cursor passes it in tick t?
Emitted(rec, t) == rec.type \in DOMAIN EventTypes /\ rec.tick = t

\* The cursor after tick t: it stops at the first record of a later tick.
CursorAfter(records, cursor, t) ==
    Min({k \in cursor .. Len(records) : records[k].tick > t} \cup {Len(records) + 1})

\* The events pushed in tick t, as the cursor passes one record after another.
Batch(records, cursor, t) ==
    LET end == CursorAfter(records, cursor, t)
        pushed[k \in cursor .. end] ==
            IF k = cursor THEN <<>>
            ELSE IF Emitted(records[k - 1], t)
            THEN Append(pushed[k - 1], ToEvent(records[k - 1]))
            ELSE pushed[k - 1]
    IN  pushed[end]

-----------------------------------------------------------------------------
(* TraceReconstructor, in heuristic mode, and TraceAnalyzer.               *)

\* Fault: caller and callee are exchanged.
ServiceGraphReversed(records) ==
    {<<r.destination_service, r.source_service>> :
        r \in {s \in Range(records) : s.source_service # 0}}

\* service_graph: 0 stands for an external caller.
ServiceGraph(records) ==
    {<<r.source_service, r.destination_service>> :
        r \in {s \in Range(records) : s.source_service # 0}}

\* lock_graph: which services use which lock.
LockGraph(records) ==
    {<<r.trace_flags, r.destination_service>> : r \in {s \in Range(records) : s.type \in {2, 3}}}

\* The positions of the records of a trace.
OfTrace(records, trace) == {k \in DOMAIN records : records[k].trace_id = trace}

\* The pairs of positions between which there is none.
Consecutive(own) ==
    {p \in own \X own : p[1] < p[2] /\ \A m \in own : m <= p[1] \/ p[2] <= m}

\* Fault: the traces are not told apart.
TraceDagAcross(records, trace) ==
    {<<records[p[1]].rpc_id, records[p[2]].rpc_id>> :
        p \in {q \in Consecutive(DOMAIN records) :
                 records[q[1]].rpc_id # records[q[2]].rpc_id}}

\* trace_dags[trace]: each rpc depends on the rpc seen before it in its trace.
TraceDag(records, trace) ==
    {<<records[p[1]].rpc_id, records[p[2]].rpc_id>> :
        p \in {q \in Consecutive(OfTrace(records, trace)) :
                 records[q[1]].rpc_id # records[q[2]].rpc_id}}

Traces(records) == {r.trace_id : r \in Range(records)} \ {0}

\* duration_ticks; a negative number stands for the one 2^64 above it.
Duration(records) == IF records = <<>> THEN 0 ELSE Last(records).tick - Head(records).tick

\* arrival_counts, the numerators of the arrival rates.
ArrivalsOf(records, s) ==
    Cardinality({k \in DOMAIN records : /\ records[k].type = 1
                                        /\ records[k].destination_service = s})

-----------------------------------------------------------------------------
(* GraphWorkload::generate, for "fan" services where the code has ten.     *)

Call(tick, trace, rpc, source, destination) ==
    [tick |-> tick, trace_id |-> trace, rpc_id |-> rpc, source_service |-> source,
     destination_service |-> destination, latency |-> 10, trace_flags |-> 0, type |-> 1]

LockStep(tick, trace, rpc, service, type) ==
    [tick |-> tick, trace_id |-> trace, rpc_id |-> rpc, source_service |-> service,
     destination_service |-> service, latency |-> 0, trace_flags |-> 99, type |-> type]

FanOut(tick, trace, fan) == [i \in 1 .. fan |-> Call(tick, trace, i, 0, i)]
FanIn(tick, trace, fan)  == [i \in 1 .. fan |-> Call(tick, trace, i, i, 0)]
LongChain(tick, trace)   == [i \in 1 .. 5 |-> Call(tick, trace, i, i - 1, i)]
Diamond(tick, trace) == <<Call(tick, trace, 1, 0, 1), Call(tick, trace, 2, 0, 2),
                          Call(tick, trace, 3, 1, 3), Call(tick, trace, 4, 2, 3)>>

\* The release of a critical section has not the rpc id of its acquire.
LockConvoy(tick, trace, fan) ==
    [k \in 1 .. 3 * fan |->
        LET i == (k + 2) \div 3
        IN  CASE k % 3 = 1 -> LockStep(tick, trace, i, i, 2)
              [] k % 3 = 2 -> [Call(tick, trace, i * 100, i, i) EXCEPT !.latency = 50]
              [] k % 3 = 0 -> LockStep(tick + 50, trace, i * 1000, i, 3)]

=============================================================================
