-------------------------- MODULE OfflineMetrics ----------------------------
(***************************************************************************)
(* The accumulators of the final report (core/OfflineMetrics.cpp), as a    *)
(* record, each recording method as an operator that returns the record    *)
(* after the call, and the statistics compute() derives from it.           *)
(*                                                                         *)
(* A histogram is the bag of the queue lengths sampled.  A rate or a mean  *)
(* is left as the pair <<sum, count>> it is the quotient of.  Left out:    *)
(* the sums that only add up a number the decision carries (entropy, score *)
(* variance, tau, gap, score terms, run time) and the squared errors of    *)
(* the estimators, which treat every sample alike.                         *)
(***************************************************************************)
EXTENDS Integers, Sequences, Functions, FiniteSetsExt

CONSTANTS
    NumProcs,       \* num_processes_: how many processes are sampled
    MaxTicks,       \* max_ticks_: config.ticks
    MaxSamples,     \* kMaxDriftSamples
    VStride,        \* V(t) is sampled at every VStride-th call (10 in the code)
    SteadyWindow,   \* kSteadyWindow
    NoMin           \* 1.0e18: above every queue length

NoMode  == -1          \* last_mode_ before the first hybrid decision
Nobody  == 0           \* last_chosen_pid_ before the first decision

\* sample_stride_: how many ticks one drift sample stands for.
SampleStride == IF MaxTicks > MaxSamples THEN MaxTicks \div MaxSamples ELSE 1

PerProc(value) == [i \in 1 .. NumProcs |-> value]

OfflineStart ==
    [wait_times         |-> <<>>,
     total_wait_sum     |-> 0,
     max_wait_seen      |-> 0,
     queue_hist         |-> <<>>,          \* bag: queue length -> samples
     queue_max          |-> 0,
     queue_sum          |-> 0,
     queue_samples      |-> 0,
     queue_sum_per_proc |-> PerProc(0),
     queue_sq_per_proc  |-> PerProc(0),
     queue_min_per_proc |-> PerProc(NoMin),
     decision_count     |-> 0,
     context_switches   |-> 0,
     last_chosen_pid    |-> Nobody,
     mode_mw_count      |-> 0,
     mode_embi_count    |-> 0,
     last_mode          |-> NoMode,
     current_streak     |-> 0,
     max_streak         |-> 0,
     sum_streaks        |-> 0,
     streak_count       |-> 0,
     transition_count   |-> 0,
     sample_counter     |-> 0,
     drift_samples      |-> <<>>,
     v_samples          |-> <<>>,
     v_samples_count    |-> 0,
     sum_lyapunov_v     |-> 0,
     max_lyapunov_v     |-> 0]

Larger(a, b)  == IF a > b THEN a ELSE b
Smaller(a, b) == IF a < b THEN a ELSE b

-----------------------------------------------------------------------------
(* Recording.                                                              *)

\* Fault: the longest wait is the last one.
RecordLastWaitingTime(om, w) ==
    [om EXCEPT !.wait_times     = Append(@, Larger(w, 0)),
               !.total_wait_sum = @ + Larger(w, 0),
               !.max_wait_seen  = w]

RecordWaitingTime(om, w) ==
    [om EXCEPT !.wait_times     = Append(@, Larger(w, 0)),
               !.total_wait_sum = @ + Larger(w, 0),
               !.max_wait_seen  = Larger(@, w)]

\* How many samples of the queue length q a histogram holds.
SamplesAt(hist, q) == IF q \in DOMAIN hist THEN hist[q] ELSE 0

\* The histogram after one more sample for each configured process.
Binned(hist, qs) ==
    [q \in DOMAIN hist \cup Range(qs) |->
        SamplesAt(hist, q) + Cardinality({i \in DOMAIN qs : qs[i] = q})]

\* Fault: processes registered on demand are sampled too.
SampledQueuesAll(ps) == [i \in DOMAIN ps |-> ps[i].queue_length]

\* The queue lengths a snapshot looks at: those of the configured processes.
SampledQueues(ps) == [i \in 1 .. Smaller(Len(ps), NumProcs) |-> ps[i].queue_length]

RecordQueueSnapshot(om, ps) ==
    LET qs == SampledQueues(ps)
        q  == [i \in 1 .. NumProcs |-> IF i \in DOMAIN qs THEN qs[i] ELSE 0]
    IN  [om EXCEPT
            !.queue_samples      = @ + 1,
            !.queue_hist         = Binned(@, qs),
            !.queue_sum          = @ + SumFunction(qs),
            !.queue_max          = Max(Range(qs) \cup {@}),
            !.queue_sum_per_proc = [i \in DOMAIN @ |-> @[i] + q[i]],
            !.queue_sq_per_proc  = [i \in DOMAIN @ |-> @[i] + q[i] * q[i]],
            !.queue_min_per_proc = [i \in DOMAIN @ |->
                                       IF i \in DOMAIN qs THEN Smaller(@[i], q[i])
                                       ELSE @[i]]]

\* Fault: a change of mode starts the next streak at zero.
StreaksFromZero(om, mode) ==
    IF mode = 0 THEN om
    ELSE IF mode = om.last_mode THEN [om EXCEPT !.current_streak = @ + 1]
    ELSE [om EXCEPT
            !.sum_streaks      = @ + om.current_streak,
            !.streak_count     = IF om.current_streak > 0 THEN @ + 1 ELSE @,
            !.max_streak       = Larger(@, om.current_streak),
            !.transition_count = IF om.last_mode # NoMode THEN @ + 1 ELSE @,
            !.last_mode        = mode,
            !.current_streak   = 0]

\* A decision of a hybrid policy: its mode continues or ends the current streak.
Streaks(om, mode) ==
    IF mode = 0 THEN om
    ELSE IF mode = om.last_mode THEN [om EXCEPT !.current_streak = @ + 1]
    ELSE [om EXCEPT
            !.sum_streaks      = @ + om.current_streak,
            !.streak_count     = IF om.current_streak > 0 THEN @ + 1 ELSE @,
            !.max_streak       = Larger(@, om.current_streak),
            !.transition_count = IF om.last_mode # NoMode THEN @ + 1 ELSE @,
            !.last_mode        = mode,
            !.current_streak   = 1]

\* A decision for process i in the given mode; Nobody: a decision not valid.
RecordDecision(om, i, mode) ==
    IF i = Nobody THEN om
    ELSE Streaks([om EXCEPT
            !.decision_count   = @ + 1,
            !.context_switches =
                IF om.last_chosen_pid \notin {i, Nobody} THEN @ + 1 ELSE @,
            !.last_chosen_pid  = i,
            !.mode_mw_count    = IF mode = 1 THEN @ + 1 ELSE @,
            !.mode_embi_count  = IF mode = 2 THEN @ + 1 ELSE @], mode)

\* Keep "sample" when "count" calls have been made, unless the vector is full.
Sampled(samples, sample, count, stride) ==
    IF count % stride = 0 /\ Len(samples) < MaxSamples
    THEN Append(samples, sample) ELSE samples

RecordLyapunovV(om, v) ==
    [om EXCEPT !.sum_lyapunov_v  = @ + v,
               !.max_lyapunov_v  = Larger(@, v),
               !.v_samples_count = @ + 1,
               !.v_samples       = Sampled(@, v, om.v_samples_count + 1, VStride)]

RecordDrift(om, drift) ==
    [om EXCEPT !.sample_counter = @ + 1,
               !.drift_samples  = Sampled(@, drift, om.sample_counter + 1, SampleStride)]

-----------------------------------------------------------------------------
(* compute().                                                              *)

\* The p-th percentile of the waiting times, which are not empty: the one at that
\* index of the sorted vector, so the least with more than "index" up to it.
WaitPercentile(om, p) ==
    LET waits == om.wait_times
        index == (p * Len(waits)) \div 100
    IN  Min({w \in Range(waits) : Cardinality({k \in DOMAIN waits : waits[k] <= w}) > index})

TotalSamples(om) == om.queue_samples * NumProcs

SamplesUpTo(hist, q) == SumFunctionOnSet(hist, {r \in DOMAIN hist : r <= q})

\* histogramPercentile: the first bin, empty or not, at which enough samples
\* have been counted.
HistogramPercentile(om, p) ==
    LET target == (p * TotalSamples(om)) \div 100
    IN  Min({q \in 0 .. om.queue_max : SamplesUpTo(om.queue_hist, q) >= target})

\* Of queue_stats; the variance is the triple of E[X^2] and the mean it is made of.
QueueMin(om)      == Min(Range(om.queue_min_per_proc))
QueueVariance(om) == <<SumFunction(om.queue_sq_per_proc), om.queue_sum, TotalSamples(om)>>

\* Is the variance of the SteadyWindow samples before the (i+1)-st below 1?
SteadyAt(om, i) ==
    LET window == SubSeq(om.drift_samples, i - SteadyWindow + 1, i)
        squares == [k \in DOMAIN window |-> window[k] * window[k]]
    IN  SteadyWindow * SumFunction(squares) - SumFunction(window) * SumFunction(window)
            < SteadyWindow * SteadyWindow

TimeToSteadyState(om) ==
    LET steady == {i \in SteadyWindow .. Len(om.drift_samples) - 1 : SteadyAt(om, i)}
    IN  IF steady = {} THEN -1 ELSE Min(steady) * SampleStride

HybridStreakCount(om) == om.streak_count + (IF om.current_streak > 0 THEN 1 ELSE 0)
HybridStreakSum(om)   == om.sum_streaks + om.current_streak
HybridMaxStreak(om)   == Larger(om.max_streak, om.current_streak)

\* Throughput, mean V and fairness of a run of "ticks" ticks in all.
Completed(ps)            == SumFunction([i \in DOMAIN ps |-> ps[i].completed_jobs])
TotalThroughput(ps, ticks) == <<Completed(ps), ticks>>

\* Filled in only when some decision was valid, like all figures about decisions.
AvgLyapunovV(om, ticks) == <<IF om.decision_count > 0 THEN om.sum_lyapunov_v ELSE 0, ticks>>

\* Jain's index of the completed jobs, as <<numerator, denominator>>; it keeps its
\* default of 0 when no job has been completed.
JainIndex(ps) ==
    LET squares == SumFunction([i \in DOMAIN ps |-> ps[i].completed_jobs * ps[i].completed_jobs])
    IN  IF squares = 0 THEN <<0, 1>>
        ELSE <<Completed(ps) * Completed(ps), Len(ps) * squares>>

=============================================================================
