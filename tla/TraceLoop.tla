----------------------------- MODULE TraceLoop ------------------------------
(***************************************************************************)
(* A run with workload "trace": the trace is parsed and validated          *)
(* (Simulator::buildEventSource), then replayed into the event loop, and   *)
(* the loop feeds the accumulators of the final report.  EventLoop         *)
(* composed with TraceReplay and OfflineMetrics.                           *)
(*                                                                         *)
(* The loop reads process records; OfflineMetrics sees them, the decision  *)
(* and the online metrics exactly where handleMetricsEvent passes them on. *)
(***************************************************************************)
EXTENDS EventLoop, TraceReplay

CONSTANTS
    Files,          \* the trace files, as TraceReplay describes them
    Modes,          \* bound: mode_flag of a valid decision (0, or 1 and 2)
    Fan,            \* services in a generated fan or convoy (10 in the code)
    SnapshotEvery,  \* ticks between queue snapshots (10 in the code)
    MaxSamples, VStride, SteadyWindow, NoMin   \* see OfflineMetrics

OM == INSTANCE OfflineMetrics WITH MaxTicks <- Ticks

ASSUME TraceLoopAssumption ==
    /\ ~LockMode            \* the workload is "trace"
    /\ SourceTypes = {"Arrival", "LockAcquire", "LockRelease", "Service"}
    /\ Files \subseteq Seq(Seq(Nat \cup {NotANumber}))
    /\ \A file \in Files : Len(file) <= MaxBatch
    /\ \A file \in Files : Malformed(file) \/ \A r \in Range(Parse(file)) :
           /\ r.destination_service \in Services
           /\ r.type \in {2, 3} => r.trace_flags \in LockIds
    /\ Modes \subseteq 0 .. 2
    /\ {Fan, SnapshotEvery, MaxSamples, VStride, SteadyWindow} \subseteq Nat \ {0}
    /\ NoMin \in Nat /\ MaxBatch <= NoMin    \* no queue is longer than the trace

VARIABLES
    file,       \* config.trace_file: its lines
    stage,      \* "file", then "refused", "crashed" or "ready"
    records,    \* store_
    cursor,     \* current_idx_
    mode,       \* last_decision_.mode_flag
    report,     \* offline_metrics_, all of it
    potentials  \* history: V(t) of every tick since statistics are recorded

inputVars == <<file, stage, records>>
reportVars == <<mode, report, potentials>>
traceLoopVars == <<vars, inputVars, cursor, reportVars>>

TraceInit ==
    /\ Init
    /\ file \in Files /\ stage = "file"
    /\ records = <<>> /\ cursor = 1
    /\ mode = 0
    /\ report = OM!OfflineStart
    /\ potentials = <<>>

-----------------------------------------------------------------------------

\* parse() throws if the file cannot be opened or a token is not a number;
\* main() reports the exception and no loop is run.
Refuse ==
    /\ stage = "file"
    /\ stage' = "refused"
    /\ UNCHANGED <<vars, file, records, cursor, reportVars>>

\* The trace is validated and stored.  Erasing past the end is undefined: the
\* program may end there or go on.
Load ==
    /\ stage = "file"
    /\ ~Malformed(file)
    /\ records' = Parse(file)
    /\ stage' \in IF Validated(records').past_end THEN {"ready", "crashed"} ELSE {"ready"}
    /\ UNCHANGED <<vars, file, cursor, reportVars>>

\* The start of a tick, the events pushed being those of the trace.
BeginTraceTick ==
    /\ stage = "ready"
    /\ pc = "tick"
    /\ IF tick = WarmupTicks
       THEN /\ online'    = OnlineReset
            /\ processes' = [i \in DOMAIN processes |-> WarmupReset(processes[i])]
            /\ carried'   = [i \in DOMAIN processes |-> processes[i].queue_length]
       ELSE UNCHANGED <<online, processes, carried>>
    /\ heap' = Push(Push(PushAll(heap, Batch(records, cursor, tick)),
                         ScheduleEvent), MetricsEvent)
    /\ cursor' = CursorAfter(records, cursor, tick)
    /\ pc' = "drain"
    /\ UNCHANGED <<tick, indexOf, last, prev, offline, served, lockingVars,
                   inputVars, reportVars>>

\* A decision carries the mode of the policy; one that is not valid has none.
DecideInMode(e) ==
    \E i \in Decisions :
        /\ Schedule(e, i)
        /\ mode' \in IF i = NoPid THEN {0} ELSE Modes
        /\ UNCHANGED <<inputVars, cursor, report, potentials>>

ServeAndRecord(e) ==
    /\ HandleService(e)
    /\ report' = IF Recording
                 THEN OM!RecordWaitingTime(report,
                          offline'.total_wait_sum - offline.total_wait_sum)
                 ELSE report
    /\ UNCHANGED <<inputVars, cursor, mode, potentials>>

\* The Metrics event, with all it records once the warm-up is over.
Recorded(om, v, drift) ==
    LET snapshot == IF tick % SnapshotEvery = 0
                    THEN OM!RecordQueueSnapshot(om, processes) ELSE om
        decided  == OM!RecordDecision(snapshot, last, mode)
    IN  OM!RecordLyapunovV(OM!RecordDrift(decided, drift), v)

MeasureAndRecord(e) ==
    /\ HandleMetrics(e)
    /\ report' = IF Recording
                 THEN Recorded(report, online'.current_v, online'.drift)
                 ELSE report
    /\ potentials' = IF Recording THEN Append(potentials, LyapunovV(processes))
                                  ELSE potentials
    /\ UNCHANGED <<inputVars, cursor, mode>>

OtherTraceStep ==
    \/ \E e \in Event : HandleArrival(e)
    \/ \E e \in Event : IgnoreLockEvent(e)
    \/ \E e \in Event : IgnoreService(e)
    \/ EndTick

\* The loop has ended, or was never started.
Stopped == (pc = "done" \/ stage \in {"refused", "crashed"}) /\ UNCHANGED traceLoopVars

TraceNext ==
    \/ Refuse
    \/ Load
    \/ BeginTraceTick
    \/ \E e \in Event : DecideInMode(e)
    \/ \E e \in Event : ServeAndRecord(e)
    \/ \E e \in Event : MeasureAndRecord(e)
    \/ OtherTraceStep /\ UNCHANGED <<inputVars, cursor, reportVars>>
    \/ Stopped

TraceSpec == TraceInit /\ [][TraceNext]_traceLoopVars

-----------------------------------------------------------------------------
(* Properties.                                                             *)

(***************************************************************************)
(* Replaying a trace is one of the behaviours of the event loop with any   *)
(* source, so all that holds of EventLoop holds of it.                     *)
(***************************************************************************)
ReplaysThroughLoop == Spec

\* The records that reach the loop: those not behind an earlier one in time.
OnTime == {k \in DOMAIN records : \A j \in 1 .. k : records[j].tick <= records[k].tick}

(***************************************************************************)
(* A service has counted exactly the arrivals of the trace that are in     *)
(* time order, each at its own tick: none is early, pushed twice or lost,  *)
(* whatever else the trace holds; an arrival behind an earlier record is   *)
(* never simulated.                                                        *)
(***************************************************************************)
ArrivalsOnTime ==
    BetweenTicks =>
        \A s \in Services :
            LET due == {k \in OnTime : /\ records[k].type = 1
                                       /\ records[k].destination_service = s
                                       /\ records[k].tick \in StatisticsStart .. tick - 1}
            IN  IF Known(s) THEN processes[indexOf[s]].arrival_count = Cardinality(due)
                ELSE due = {}

\* The event of the same rpc and lock before record k is not an acquire.
Orphaned(k) ==
    LET rec     == records[k]
        earlier == {j \in 1 .. k - 1 : /\ records[j].type \in {2, 3}
                                       /\ records[j].rpc_id = rec.rpc_id
                                       /\ records[j].trace_flags = rec.trace_flags}
    IN  rec.type = 3 /\ (earlier = {} \/ records[Max(earlier)].type = 3)

(***************************************************************************)
(* Validation reports the releases whose last lock event is not an         *)
(* acquire, and only those, and it can bring the program down only on a    *)
(* release of an rpc that has acquired nothing at all.                     *)
(***************************************************************************)
OrphansReported ==
    /\ Validated(records).orphans = {k \in DOMAIN records : Orphaned(k)}
    /\ stage = "crashed" =>
           \E k \in DOMAIN records :
               /\ records[k].type = 3
               /\ \A j \in 1 .. k - 1 : records[j].type = 2 =>
                                            records[j].rpc_id # records[k].rpc_id

\* Can rpc b be reached from rpc a along the edges?  Paths no longer than n.
Reaches(edges, a, b, n) ==
    LET step[m \in 0 .. n] ==
            IF m = 0 THEN {e[2] : e \in {f \in edges : f[1] = a}}
            ELSE step[m - 1] \cup {e[2] : e \in {f \in edges : f[1] \in step[m - 1]}}
    IN  b \in step[n]

(***************************************************************************)
(* The reconstructed dependencies of a trace have a cycle exactly when an  *)
(* rpc comes back after another one, as every rpc does that acquires a     *)
(* lock, calls another and then releases the lock.                         *)
(***************************************************************************)
CyclesAreReturns ==
    \A trace \in Traces(records) :
        LET own   == OfTrace(records, trace)
            edges == TraceDag(records, trace)
        IN  (\E e \in edges : Reaches(edges, e[1], e[1], Len(records)))
                <=> \E i, j, k \in own : /\ i < j /\ j < k
                                         /\ records[i].rpc_id = records[k].rpc_id
                                         /\ records[j].rpc_id # records[i].rpc_id

(***************************************************************************)
(* What reconstruction makes of the generated topologies: a call made by   *)
(* service 0 is taken for an external one and leaves no edge, calls made   *)
(* in parallel are chained, every release of a lock convoy is an orphan of *)
(* an rpc that holds nothing, and a sorted trace spans its ticks.          *)
(***************************************************************************)
TopologiesAsRead ==
    /\ ServiceGraph(FanOut(0, 1, Fan)) = {}
    /\ ServiceGraph(FanIn(0, 1, Fan)) = {<<i, 0>> : i \in 1 .. Fan}
    /\ ServiceGraph(LongChain(0, 1)) = {<<i, i + 1>> : i \in 1 .. 4}
    /\ ServiceGraph(Diamond(0, 1)) = {<<1, 3>>, <<2, 3>>}
    /\ TraceDag(FanOut(0, 1, Fan), 1) = {<<i, i + 1>> : i \in 1 .. Fan - 1}
    /\ LET convoy == LockConvoy(0, 1, Fan)
       IN  /\ LockGraph(convoy) = {99} \X (1 .. Fan)
           /\ Validated(convoy).orphans = {3 * i : i \in 1 .. Fan}
           /\ Validated(convoy).past_end
           /\ \A i \in 1 .. Fan : ArrivalsOf(convoy, i) = 1
    /\ OnTime = DOMAIN records /\ records # <<>> =>
           Duration(records) = Max({r.tick : r \in Range(records)})
                                   - Min({r.tick : r \in Range(records)})

(***************************************************************************)
(* The histogram and the accumulators of the queue snapshots describe the  *)
(* same samples, one for each configured process and snapshot tick, and    *)
(* from two samples on the percentiles lie in order between the extremes.  *)
(***************************************************************************)
QueueReportConsistent ==
    LET hist  == report.queue_hist
        ticks == {t \in WarmupTicks .. tick : t % SnapshotEvery = 0}
    IN  /\ SumFunction(hist) = OM!TotalSamples(report)
        /\ report.queue_sum = SumFunction([q \in DOMAIN hist |-> q * hist[q]])
        /\ SumFunction(report.queue_sum_per_proc) = report.queue_sum
        /\ SumFunction(report.queue_sq_per_proc) = SumFunction([q \in DOMAIN hist |-> q * q * hist[q]])
        /\ BetweenTicks => report.queue_samples = Cardinality(ticks \ {tick})
        /\ OM!TotalSamples(report) > 0 =>
               /\ OM!QueueMin(report) = Min({q \in DOMAIN hist : hist[q] > 0})
               /\ report.queue_max = Max({q \in DOMAIN hist : hist[q] > 0} \cup {0})
        /\ OM!TotalSamples(report) > 1 =>
               /\ OM!QueueMin(report) <= OM!HistogramPercentile(report, 50)
               /\ OM!HistogramPercentile(report, 50) <= OM!HistogramPercentile(report, 95)
               /\ OM!HistogramPercentile(report, 99) <= report.queue_max

(***************************************************************************)
(* The streaks of a hybrid policy partition its decisions: their lengths   *)
(* add up to the decisions of the two modes, one streak ends at each       *)
(* change of mode, and no streak is longer than the longest.               *)
(***************************************************************************)
StreaksPartition ==
    LET hybrid == report.mode_mw_count + report.mode_embi_count
    IN  /\ OM!HybridStreakSum(report) = hybrid
        /\ report.streak_count = report.transition_count
        /\ hybrid <= OM!HybridMaxStreak(report) * OM!HybridStreakCount(report)
        /\ report.context_switches < report.decision_count \/ report.decision_count = 0

\* V(t) of the n-th recorded tick; the tick before the first one counts as empty.
PotentialAt(n) == IF n = 0 THEN 0 ELSE potentials[n]

(***************************************************************************)
(* Each sample of V and of its drift is that of the tick it stands for,    *)
(* although the drift is taken from accumulators that the warm-up reset    *)
(* clears: the first recorded tick drifts from an empty system.            *)
(***************************************************************************)
SamplesExact ==
    LET stride == OM!SampleStride
    IN  /\ Len(report.drift_samples) = Min({MaxSamples, Len(potentials) \div stride})
        /\ \A k \in DOMAIN report.drift_samples :
               report.drift_samples[k] = PotentialAt(k * stride) - PotentialAt(k * stride - 1)
        /\ \A k \in DOMAIN report.v_samples :
               report.v_samples[k] = PotentialAt(k * VStride)
        /\ report.max_lyapunov_v = Max(Range(potentials) \cup {0})

(***************************************************************************)
(* The report of waiting times is that of the jobs completed after the     *)
(* warm-up: its samples add up to what the processes waited, and its       *)
(* percentiles rise to the longest wait.                                   *)
(***************************************************************************)
WaitReportConsistent ==
    BetweenTicks /\ tick > WarmupTicks =>
        LET waits == report.wait_times
        IN  /\ Len(waits) = OM!Completed(processes)
            /\ SumFunction(waits) = TotalOf("total_waiting_time")
            /\ waits # <<>> =>
                   /\ OM!WaitPercentile(report, 50) <= OM!WaitPercentile(report, 95)
                   /\ OM!WaitPercentile(report, 95) <= OM!WaitPercentile(report, 99)
                   /\ OM!WaitPercentile(report, 99) <= report.max_wait_seen
                   /\ report.max_wait_seen \in Range(waits)

(***************************************************************************)
(* compute() leaves a figure at its default, or clamps it, where the data  *)
(* are missing, and that hides nothing: when no decision was valid every   *)
(* V(t) was zero, so the mean is not lost; after the warm-up Jain's index  *)
(* is the default of 0 exactly when no decision was recorded, for no       *)
(* decision goes without a completion and no completion without one;       *)
(* above that it lies between one over the number of processes and one,    *)
(* which it is exactly when all completed the same; and the variance of    *)
(* the queue lengths is never negative.                                    *)
(***************************************************************************)
DefaultsHideNothing ==
    LET jain  == OM!JainIndex(processes)
        var   == OM!QueueVariance(report)
        count == report.decision_count
    IN  /\ OM!AvgLyapunovV(report, Ticks)[1] = report.sum_lyapunov_v
        /\ count = 0 => report.max_lyapunov_v = 0
        /\ BetweenTicks /\ tick > WarmupTicks =>
               /\ jain[1] = 0 <=> count = 0
               /\ count <= OM!TotalThroughput(processes, Ticks)[1]
        /\ jain[1] > 0 =>
               /\ jain[1] <= jain[2] /\ jain[2] <= Len(processes) * jain[1]
               /\ jain[1] = jain[2]
                      <=> Cardinality({processes[i].completed_jobs : i \in DOMAIN processes}) = 1
        /\ var[2] * var[2] <= var[1] * var[3]

=============================================================================
