# EMBI scheduler simulator: a TLA+ verification project

The repository (`src/Event-driven-simulator-C++`) is a discrete-time simulator
of one CPU that is shared by several services. Jobs arrive at the services, a
scheduling policy chooses one service per tick, and metrics of the run are
collected. The program is sequential: what is hard about it is not concurrency
but the *order* in which several handlers touch the same counters in one tick,
state that is kept in two places (id map and vector, lock manager and process,
queue and queue length, processes and metrics), a reset in the middle of a run,
and processes that are registered while the run is under way. Around the loop
there is a second kind of difficulty: settings that come from flags, files and
sweeps and overwrite one another, and output that is spread over several files
which an exception or a kill may leave half written. Paths below are
relative to `src/Event-driven-simulator-C++/src/`.

## 1. Inventory of the system

| Component | State | Operations | Talks to |
|---|---|---|---|
| Event, EventQueue (`core/Event.hpp`, `core/EventQueue.cpp`) | a heap of events ordered by timestamp, then event type | push, pop, top, empty, clear | pushed to by the source and the loop, drained by the loop |
| EventLoop (`core/EventLoop.cpp`) | tick, heap, `processes_`, `service_id_to_index_`, `last_decision_`, `prev_decision_`, lock manager | run, one handler per event type, getOrRegisterProcess, promoteLockWaiter, emitLogRecords | everything below, by direct calls |
| Process (`core/Process.cpp`) | queue length, deque of arrival ticks, counters, EWMA rates, `lock_state`, `sync_debt` | arrival, service, tickIdle, reset | mutated by the loop; read by schedulers and metrics |
| LockManager (`core/LockManager.cpp`) | owner and FIFO of waiters for each lock | acquire, release, queries, reset | called by the loop in `lock_contention` mode only |
| OnlineMetrics (`core/OnlineMetrics.cpp`) | V(t), drift, ring buffer of completions, totals | update, reset, snapshot | updated by the Metrics handler, read by schedulers |
| OfflineMetrics (`core/OfflineMetrics.cpp`) | waiting-time samples, decisions, switches, snapshots | record..., compute | fed by three handlers of the loop |
| Schedulers (`schedulers/`) | none, except RR (`current_index_`) and CFS (`vruntimes_`) | choose | called once per tick with a read-only context |
| Event sources (`events/`, `trace/ReplayEngine.cpp`) | next-arrival clocks; cursor into the trace | emitEvents | push this tick's events |
| Trace tools (`trace/`) | none | validate, reconstruct, analyse, parse | run before the simulation |
| Workloads (`workloads/`) | random generators, burst phase | next, holdDuration, randomLockId | sampled by the synthetic source |
| OracleEvaluator (`core/OracleEvaluator.cpp`) | clones of the processes | evaluate_J, compute_oracle_embi | calls the scheduler of the run on the clones |
| CLI, ConfigLoader, Config (`CLI.cpp`, `utils/`, `core/Config.cpp`) | the configuration of a run or of a sweep | parse, load, validate, expand | read the files a command line names |
| Simulator, Experiment (`core/`, `main.cpp`) | the results of the runs made so far | build, run, sweep, writeSummary | construct all of the above, write the results |
| Loggers (`logging/CSVLogger.cpp`, `BinaryLogger.cpp`, `NullLogger.hpp`) | a buffer of rows and a file stream | writeTick, flush, close | fed by the loop |
| StatisticsDatabase, SummaryWriter (`logging/`) | none that is used | write one file each | called by the simulator after a run |

A tick of `EventLoop::run` is: warm-up reset if this is the boundary tick; the
source pushes its events; one Schedule and one Metrics event are pushed; the
heap is drained in the order Arrival < LockAcquire < LockRelease < Schedule <
Service < Metrics. A valid decision pushes one Service event while the heap is
being drained.

What makes each component correct:

* **EventQueue**: pops the events of a tick in rank order; events of equal rank
  may come in any order, and nothing may depend on which.
* **Process**: `queue_length` and the deque never diverge; FIFO order.
* **LockManager**: FIFO; never a free lock with waiters.
* **EventLoop**: one job per tick, never idle while a job waits, no job lost;
  the id map and the vector describe the same registry; a lock stays with its
  holder for its whole critical section; run() terminates.
* **OnlineMetrics / OfflineMetrics**: agree with what the processes did, on
  each side of the warm-up reset.
* **Schedulers**: choose a service with a job whenever there is one; fairness of
  RR and CFS.
* **Trace tools**: a record reaches the loop at its tick or not at all; an
  orphaned release is reported; the reconstructed graphs mean what they say.
* **OracleEvaluator**: its scores measure the move they are about, not the
  state that an earlier evaluation has left in the scheduler.
* **CLI, Config, Experiment**: the last setting counts; nothing invalid is run;
  a sweep makes every combination once and no run overwrites another.
* **Output**: a log is a gapless prefix of its rows whatever happens; success
  means that everything is on the disk; no comparison of a part of a sweep.

Every hazard found in the code is listed with its line in `PROJECT.json`.

## 2. Modules

| Module | Models | Correspondence |
|---|---|---|
| `EventQueue` | `core/EventQueue.cpp`, `core/Event.hpp` | the heap is a bag (events -> copies); `Tops` is the *set* of events `pop()` may return, because `std::priority_queue` leaves ties open |
| `Process` | `core/Process.cpp` | a process is a record, each method an operator `p -> p'` |
| `LockManager` | `core/LockManager.cpp` | a state machine; `acquire` = `Grant` or `Enqueue`, `release` = `Free` or `Promote`; `Reset` is `reset()`, which the program does not call |
| `RequestLine` | abstract: one line of requests per lock | implemented by `LockManager`, and through it by `EventLoop` |
| `OnlineMetrics` | `core/OnlineMetrics.cpp` | accumulators as a record, `OnlineUpdate` = `update()` |
| `EventLoop` | `core/EventLoop.cpp` and its calls | composes the five above: `EXTENDS` for the data modules, `INSTANCE LockManager`; one action per handler |
| `QueueingSystem` | abstract: slotted single-server queues | implemented by `EventLoop` with a synthetic source |
| `Schedulers` | `schedulers/*.cpp` and the baseline estimator | one operator per policy, from the processes (and estimates, and the policy's own state) to the index that `choose()` returns |
| `PolicyLoop` | the loop built by `Simulator` with one of those policies | `EXTENDS EventLoop, Schedulers`: the Schedule event is answered by the policy, every other action is EventLoop's |
| `Oracle` | `core/OracleEvaluator.cpp` | `EXTENDS PolicyLoop`: the look-ahead is an operator on copies of the processes and on the *scheduler's own* state, which it hands on from one evaluation to the next |
| `OfflineMetrics` | `core/OfflineMetrics.cpp`, `.hpp` | the accumulators as a record, one operator per `record...` method, and the figures `compute()` derives; a quotient is the pair of its terms |
| `TraceReplay` | `trace/AlibabaParser.cpp`, `TraceValidator.cpp`, `ReplayEngine.cpp`, `TraceReconstructor.cpp`, `TraceAnalyzer.cpp`, `workloads/GraphWorkload.cpp` | operators on sequences of lines, tokens and records; `Batch` and `CursorAfter` are what `emitEvents` pushes and where it leaves the cursor |
| `TraceLoop` | a run with workload `trace` | `EXTENDS EventLoop, TraceReplay`, instantiates `OfflineMetrics`: the file is parsed and validated, the cursor feeds the loop, the Service and Metrics handlers feed the report |
| `Configuration` | `core/Config.cpp`, `.hpp`, `utils/ConfigLoader.cpp`, `CLI.cpp`, `Simulator::buildEventSource` | records of settings; `Valid` = `validate()`, `Parse` = `CLI::parse`, `Load` = `ConfigLoader::load`, `Expand` = `ExperimentConfig::expand`, `Buildable` = what the workload constructors accept |
| `RunLog` | `logging/CSVLogger.cpp`, `BinaryLogger.cpp`, `NullLogger.hpp` | a row is in the buffer, in the stream, or surely in the file; a kill may leave a piece of the next row |
| `Experiment` | `main.cpp`, `core/Experiment.cpp`, `core/Simulator.cpp`, the writers of `logging/` | a state machine with one action per step that can fail separately; `Kill` may come between any two |
| `MCEventLoop`, `MCPolicyLoop`, `MCTraceLoop`, `MCExperiment` | sources, service graphs, trace lines, command lines and files for TLC | |
| `*_proofs` | theorems | section 5 |

Choices made once, everywhere:

* Process indices start at 1; 0 stands for the code's -1 (no process).
* The timestamp of events is dropped: every push uses the tick being drained
  (`SyntheticEventSource.cpp:44,56`, `ReplayEngine.cpp:33,53`,
  `EventLoop.cpp:112,113,141`), so `top().timestamp <= tick_d` always holds.
* The scheduler is *any* object that honours the contract `Decisions`: it
  chooses a process with a job if there is one. In lock mode FCFS, SJF and CFS
  stay idle when no lock holder has a job, so there the contract allows idling.
* The event source is *any* source: every sequence of at most `MaxBatch` events
  of the types in `SourceTypes`. Random workloads only choose among these.
* Critical sections are integers: `elapsed_cpu` grows by 1.0 and is compared
  with a real `required_cpu`, so only its ceiling matters.
* `floor(mu_hat)` services per scheduled holder tick is any number up to
  `MaxRelease`, at least one if there is a job (`EventLoop.cpp:234-238`).
* EWMA estimates, log rows and timing are left out of the loop: they change
  nothing else. Where a policy reads an estimate it is any value of `MuHats` or
  `LambdaHats`, chosen anew at each decision, which also covers the noise.
* Scores are integers: policies only compare them, and the values are small
  enough that ties, negative and clipped scores all occur.
* The names `embi_oracle` and `embi_unclipped` build the same object as `embi`
  (`Simulator.cpp:124-128`), so they are not separate policies.
* `served`, `carried` and `potentials` are history variables of the model, not of
  the code.
* A trace file is a sequence of lines, a line a sequence of tokens, a token the
  number it spells. The narrow fields of a record keep their width (`flags` 16
  bits, `type` 8 bits). Erasing past the end (`TraceValidator.cpp:57`) is
  undefined, so the program may end there or go on.
* Decimals of the configuration are in units of one hundredth; unsigned fields
  are taken modulo `MaxWord`, because `stoull` accepts a sign. `std::to_string`,
  with which a swept value becomes part of a directory's name, rounds to six
  decimals: `ToText` rounds to a multiple of `LastDigit` units, so that distinct
  values may be printed alike.
* A directory is the sequence of the names on its path. A file is known by which
  attempt wrote it, which runs it is about and whether it is whole. A log is a
  sequence of rows and the flag `torn`: the file buffer spills where it is full,
  not at the end of a row, so a killed run may leave the beginning of one.
* `NoName` is an optional string that is not set. One that is set but empty, as by
  `--trace ""`, which passes validation, is not among the inputs.
* In `Experiment` the event loop is reduced to its ticks and the rows it logs:
  nothing outside the loop depends on more of it, except a Jain index, which is
  any of `JainIndexes`.

Definitions whose comment begins with "Fault:" are plausible bugs of the
definition after them. No action uses them; they are what the properties were
tried against.

## 3. Runs

| Run | Configuration | Checks |
|---|---|---|
| `eventloop_synthetic` | 2 processes, 5 ticks, warm-up of 2, no lock manager; up to 2 events per tick, arrivals (all that a synthetic source pushes) or lock events, which are ignored | `QueueConsistent`, `CompletionsAgree`, `OnlineAgrees`, `IdleTimeExact`, the refinement `ImplementsQueueingSystem`, termination `RunCompletes` |
| `eventloop_locks` | 2 processes, 2 locks and 1 lock id out of range, sections of 1 or 2 CPU ticks, 4 ticks | `HolderOwnsLock`, `DebtBounded`, `Accounting`, `NoEarlyRelease`; of the lock manager as the loop uses it, `NoWaiterOnFreeLock` and the refinement `ServesInOrder` |
| `policies` | each of the twelve policies, 3 processes, 3 ticks, up to 2 arrivals per tick, two values of each estimate, two service graphs (a chain, and a service with two dependents) | the refinement of the contract `HonoursContract`, what RR, FCFS and CFS promise (`BoundedBypass`, `GlobalFIFO`, `NoStarvationByCFS`), and `OracleScoresSwaps` in every state in which a decision is due |
| `trace_replay` | every trace of up to 2 out of 13 lines (late, early, short, empty and malformed ones, types and flags that fit only when truncated, lock records of two rpcs and two locks, two trace ids) and every one of 3 out of 7 of them; 1 configured service (id 0) and 1 registered on demand under the id 5, which is not its index; 7 ticks, warm-up of 1 | the refinement `ReplaysThroughLoop`; the loop with dynamic registration: `TypeOK`, `RegistryConsistent`, `Accounting`, `OfflineAgrees`; `ArrivalsOnTime`; validation and reconstruction: `OrphansReported`, `CyclesAreReturns`, `TopologiesAsRead`; the report: `QueueReportConsistent`, `StreaksPartition`, `SamplesExact`, `WaitReportConsistent`, `DefaultsHideNothing` |
| `experiment` | every command line of at most 2 of 29 settings and every one of 5 sweep files, a file that is none, and 3 lists of alphas (one of them with two values that are printed alike), `--alpha-sweep` before or after some of the files; 4 files with settings and one name of none; each line given twice; at most 2 failing operations or kills | `LastFlagWins`, `OnlyValidRuns`, `SweepCoversAxes`, `LogIsPrefix`, `EarlierRunsKept`, `SuccessMeansWritten`, `NoPartialComparison` |
| `sleeper_bonus` | CFS, 2 processes, 5 ticks, a bonus cap of 1 | `WakeupBonusCapped`, violated |
| `switch_cost`, `trace_service`, `lost_lock`, `warmup_samples`, `flag_order` | the modules above, on small instances | one statement of the documentation each, which the code does not keep (section 4) |
| `clipped_scores` | EMBI, 2 processes, 3 ticks, a penalty that exceeds every queue | `ClippedMeansIdle`, violated |

The bounds are small but every interesting case happens within them: two ticks
on each side of the warm-up boundary (jobs that arrive before it and complete
after it), a rolling window of 2 that wraps around, a starvation threshold of 2
that is reached, two locks so that a process can hold one and ask for another,
two processes so that a lock has an owner and a waiter (and, since a process may
ask for a lock it has or waits for, several requests of one process in a line), a
service that is registered on demand under an id that is not its index, three
processes so that round robin passes over one process twice, a bonus cap of 1
instead of 10 so that five ticks exceed it. A tick depends on the previous ones
only through the state, and by the last tick all of these have been combined.

In `trace_replay` three lines are enough for a record behind an earlier one, an
acquire and its release with another call between them (a cycle), two traces that
interleave, a release by an rpc that holds another lock, an acquire after an
orphaned release, and a type or flag that only fits after truncation. With seven
ticks and room for 4 samples the stride of the drift is 1, so the drift of the
first tick after the warm-up reset is sampled, and the buffer fills up; V(t) and
the queue lengths are taken at every second tick (the code takes both at every
tenth tick and has room for 100000 samples). A stride of the drift above 1 is
left to the theorem. In `experiment` two
settings are enough for any pair to overwrite one another, the sweeps have two
runs or four, so a failure can come before, in and after the first one, and the
buffers of 2 and 3 rows are filled several times by 4 ticks of 2 processes
(the code has 8192 and 4096). Two failures let an attempt be killed and the one
after it fail as well. `MaxWord` is 1000 instead of 2^64 and the least default
warm-up 2 ticks instead of 100000; `NoMin` is 10^6 instead of 10^18. A look-ahead of `Oracle` ends when all queues
are empty, which with six jobs is long before `Safety`.

**Fairness.** `FairSpec` has `WF_vars(Next)`: the program is one thread that
keeps running. Nothing is assumed about which action is taken, so
`RunCompletes` holds because the number of events pushed per tick is bounded,
not because of fair choice. Deadlock is checked; a finished run stutters
explicitly (`Terminated`, and `Stopped` in `TraceLoop`). `experiment`, and
`flag_order` of the same module, have `CHECK_DEADLOCK FALSE`: after the last
attempt nobody starts the program again. `experiment` states no liveness,
because a failure may end every attempt.

## 4. Where code and documentation disagree

* `switch_cost`: `context_switch_cost` is never charged. `run()` compares the
  new decision with `prev_decision_` (`EventLoop.cpp:143`) after
  `handleScheduleEvent` has overwritten it (`:219`).
* `trace_service`: Service records of a trace complete jobs besides the
  scheduled one, contrary to "Only one `ServiceEvent` executes per tick"
  (`docs/scheduler_architecture.md:86`).
* `lost_lock`: a second granted lock overwrites the only `LockState` of a
  process; the first lock is never released (`EventLoop.cpp:309`).
* `warmup_samples`: in lock mode waiting times of warm-up jobs are sampled
  (`EventLoop.cpp:242`; the other path checks the warm-up at `:285`).
* `sleeper_bonus`: the wake-up bonus of CFS is never capped. The floor is taken
  over the processes awake now, the one that just woke up included
  (`schedulers/CFSScheduler.cpp:43`), so the condition of `:69` is never true.
* `clipped_scores`: a decision is invalid only when no process has a job.
  `schedulers/Decision.hpp:43` says it is when every score is at most zero, too;
  `argmaxWithQueues` compares with minus infinity
  (`schedulers/BaseScheduler.cpp:82`) and chooses the first process with a job.
  That the processor never idles then is what `HonoursContract` relies on.
* `flag_order`: flags before `--config` are lost (`CLI.cpp:74`): the file replaces
  the whole configuration, although the comment at `:60` says it is loaded first
  and then overridden. `LastFlagWins` is what does hold, about the flags *after*
  the last file. In the same way `--experiment` forgets the alphas of an earlier
  `--alpha-sweep`.

Each of these has a run that finds the statement violated. In five more places
code and comment disagree; the modules have what the code does, and the
properties named state what does hold:

* In lock mode a chosen process without a lock is not served (`EventLoop.cpp:228`),
  and its Service event completes nothing either (`:277`, `:290`), although the
  comment at `:274` says that it still handles the completions of processes
  without a lock. The tick is lost (`IgnoreService`).
* The "per-run output directory" (`core/Config.cpp:188`) is one for several runs
  when swept rates, alphas or epsilons agree to six decimals (`:193-196`): the
  later run overwrites the earlier one. `EarlierRunsKept` and `SweepCoversAxes`
  therefore have the condition `NoRepeats`, no two values of an axis are printed
  alike.
* A validation that is not strict should only warn (`trace/TraceValidator.hpp:31`),
  but a release of an rpc without any acquire is erased through the end of the map
  (`trace/TraceValidator.cpp:57`). `OrphansReported` says when that can happen.
* The dependencies of a trace are called a DAG (`trace/TraceReconstructor.hpp:20`,
  `:31`), but each rpc depends on the one seen before it (`.cpp:70`): a call that
  returns makes a cycle, even in a trace in time order. `CyclesAreReturns` says
  that nothing else does.
* The "actual tick" of the steady state (`core/OfflineMetrics.cpp:293`, `.hpp:82`)
  is the index of a sample times the stride (`:294`), but the first sample is taken
  after the warm-up: the tick reported may lie before the window in which the
  queues were found to be steady. No property is about it.

Met while modelling, and part of the modules as the code has it; no line of the
repository promises the opposite:

* The default warm-up is at least 100000 ticks, whatever `--ticks` is
  (`CLI.cpp:302`, `core/Config.cpp:154`): a shorter run never records anything.
* `Config::validate` accepts configurations that the constructors of the
  workloads refuse: a bursty rate above 1 (computed from the mean rate;
  `burst_on_rate` is checked but not used) and a Pareto shape of at most 1. A
  profile with workload `lock_contention` and no locks gets as far as the
  constructor of the loop, after the log has been opened. In a sweep, earlier
  runs have then been made.
* Configuration files may set only some of the fields: `warmup_ticks`,
  `context_switch_cost`, `num_locks` and others are ignored without a warning.
  Where a field has two keys the one that is read last counts: `output` beats
  `output_dir`, `scheduler_name` beats `scheduler`.
* `tau_constant_bounds` is read but not swept, and `lambda_noise_stddevs` is
  swept by `expand()` but set by no file and no flag.
* `--log-freq -1` is accepted and means 2^64 - 1.
* Only the two summaries and the log are required output. The other three files
  are skipped without an error, and `hybrid_trace.csv` is not even opened when
  nothing was sampled, so that one from an earlier run may stay
  (`logging/StatisticsDatabase.cpp:317`).
* A sweep with an empty axis succeeds and writes nothing.
* `compute()` divides the jobs and the sum of V since the warm-up by *all* ticks
  (`core/OfflineMetrics.cpp:190`, `:339`); without a completion Jain's index is
  reported as 0 (`:206`), which is not in its range; a percentile of fewer samples
  than its rank needs is bin 0 (`:418`), hence the two samples in
  `QueueReportConsistent`.
* Parallel calls of a trace are chained (`trace/TraceReconstructor.cpp:70`), and
  calls made by service 0 count as external (`:27`).
* `EMBIScheduler::choose` binds a reference to `*ctx.graph_state`
  (`schedulers/EMBIScheduler.cpp:27`), which the event loop leaves null
  (`EventLoop.cpp:199`). That is undefined, but the baseline estimator does not
  use the argument, so the model has the scores it computes and no other outcome.
* A line with too few columns repeats its last token (`trace/AlibabaParser.cpp:40`).
* The releases of a generated lock convoy carry another rpc id than its acquires
  (`workloads/GraphWorkload.cpp:80`): each of them is an orphan.
* `BinaryLogger` leaves out the raw score, gap, tau and branch of a row.

## 5. Proofs

All theorems are about every value of the constants that satisfies the named
assumptions of the modules; a further assumption of a theorem stands in its
statement. 43 of them are listed in `PROJECT.json`. They state every property that
the passing runs check except one, the liveness property `RunCompletes`.

**Assumptions.** Most only type the constants. Those that say more:

* `PolicyLoopAssumption` and `IdleTimesExact` have `Services = InitialServices`:
  a synthetic source names configured processes only, and CFS has no defined
  behaviour for any other (`schedulers/CFSScheduler.cpp:70`).
* `TraceLoopAssumption`: no lock mode, since the workload of a run is one or the
  other; `MaxBatch`, a bound of `EventLoop`, is no less than the length of the
  longest trace; `Services` and `LockIds` have the ids that occur in a trace;
  `MaxBatch <= NoMin`, since the code starts a minimum of queue lengths at 1.0e18
  (`core/OfflineMetrics.cpp:27`) and no queue is longer than the trace.
* `ConfigurationAssumption` and `MenuAssumption`: where the code converts a text
  to a number or a list, the model's text stands for a number, a list, or
  `NotANumber`, so that "is a list" has a meaning in an untyped language.
* `Synthetic` (a configuration without locks whose source pushes arrivals only)
  and `~LockMode` where the property is about such a run. In other runs such
  properties fail, as `trace_service` and `warmup_samples` in section 4 show. That
  lock events without a lock manager change none of it is only model-checked (`eventloop_synthetic`).

**Induction.** A recursive function is a `CHOOSE`, so its defining equation holds
only once such a function is known to exist. `Sums_proofs` has
`FiniteSetInduction`, `NatSetInduction`, `IntervalInduction` and
`RecursionExists`, stated about a *set* of sets or numbers, which is a value and
can be instantiated where a library theorem about a predicate cannot. With these
the loops of the code that are recursive functions or sums in the model
(`SumOver`, `Parse`, `Validated`, `Batch`, `Reaches`, `Turns`, `ScoresUpTo`,
`RowsBefore`, `WriteTick`, `ProductFrom`) are reasoned about for every length.

* `LockManager_proofs`: type correctness, `NoWaiterOnFreeLock` (inductive with
  `TypeOK`) and the refinement of `RequestLine`. The refinement step needs the
  invariant: a release that frees a lock maps to the head leaving a line of one,
  which is true only if nobody waits. The last two assume only that "nobody" is
  not a client.
* `Sums_proofs`: induction; how a sum changes when one term does, when a term is
  added, and when all terms grow; that a sum over samples is the sum over the
  values they take, each times how often it occurs (`SumRegrouped`); and the
  inequality of Cauchy and Schwarz for weighted values, with equality only when all
  of them are the same (`VarianceNatural`). The prover's arithmetic finds neither at
  once: they are inductions over the index set, one product at a time.
* `EventLoop_proofs`, in every mode and with every source.
  `LockInv == LockTypes /\ HolderOwnsLock` is inductive; `NoEarlyRelease` follows:
  the lock that a completed section releases is the one its process owns. The
  proof is where the second grant matters: it may forget a lock, never steal one.
  `LoopUsesLockManager`: the loop's steps are steps of `LockManager`, which is
  where the precondition of `release()` comes from `HolderOwnsLock`; what
  `LockManager_proofs` shows then holds in the loop (`NoWaiterIsLeft`,
  `LocksServeInOrder`).
  Type correctness needs the consistency of the registry (an index read from the
  map must be in the vector), so `RegistryInv` has both; `AllSound` adds the facts
  about each process, each preserved by each operator of `Process`, and gives
  `QueueConsistent` and `Accounting`. `DebtBounded` needs the stronger `DebtInv`:
  what an owner is charged is at most the number of requests that wait for its
  locks, *summed over the locks it owns*, since one lock is released at a time.
* `EventLoopMetrics_proofs`: `OnlineAgrees` in every mode, from `DrainInv` (a tick
  either has its Metrics event still to come or has been measured) and `OnlineInv`,
  in which the ring of completions sums up to the rolling sum. `OfflineAgrees`
  without locks: `OfflineInv` relates the samples to the counters of the processes
  on both sides of the warm-up reset.
* `EventLoopSystem_proofs` (assuming `Synthetic`): `OneServicePerTick`,
  `CompletionsAgree`, `IdleTimeExact` and the refinement
  `ImplementsQueueingSystem`. `PhaseInv` says how far the tick has got from what
  is on the heap (before the decision, service pending, after the service), which
  excludes a second service and an arrival after a service; `ChoiceInv` says that
  the process served is the one that was chosen; `IdleInv` has the idle time of
  each process relative to whether this tick has been measured.
* `PolicyLoop_proofs`, with and without locks: each policy `Honours` the
  contract of `EventLoop`. An argmax exists because a smallest set of processes
  without one would have one after all; round robin reaches every index because
  the attempt `Distance(start, i, n)` looks at `i`. `PolicyInv` says that the state
  of the policy fits the processes, so every step of `PolicyNext` is a step of
  `Next` and what holds of the loop holds of it (`PoliciesLoseNoJob`).
  `BoundedBypass` follows from `Approaching`: how often a process was passed over
  plus its distance from the search index stays below `NumProcs`. `GlobalFIFO`
  follows from `FIFOInv` and the order in each queue: the least head is the least
  job. `NoStarvationByCFS` follows from `CFSInv`: each time a process is passed
  over, the sum of what the others are behind it falls by at least one.
  `OracleScoresSwaps` is about an operator, not about a step: without dependencies
  a turn of the look-ahead takes one job from one queue whoever is chosen, so after
  n turns the *number* of jobs left, and with it the cost, is the same for every
  first move and every state of the scheduler. That the bound `Safety` may cut the
  look-ahead off does not matter, because it cuts both alike. With dependencies,
  the look-ahead that is forced to the policy's own choice is the look-ahead of the
  policy, turn by turn, provided the policy keeps no state. Both hold for any set of blocked
  processes, which the look-ahead passes on and FCFS leaves out; in the program it
  is empty at the start (`core/OracleEvaluator.cpp:24`).
* `TraceLoop_proofs`: `ReplaysThroughLoop`, the refinement of `EventLoop` by a
  replay: `ReplayInv` types what parsing makes of any file, and a batch is no
  longer than the records the cursor passes. Through it the theorems about the
  loop hold of every replay, and the rest of the module uses them.
  `ArrivalsOnTime`: `CursorInv` says that the cursor stands at the first record
  that is not yet due, `ArrivalInv` that what a service has counted, plus what is
  on the heap for it, is the number of records due so far; records behind an
  earlier one are the ones a passing cursor never pushes. `OrphansReported`: the
  pass over the records keeps, for each rpc, the locks with an acquire that no
  release has followed. `StreaksPartition` and `SamplesExact` have one invariant
  each over the fields of the report that they are about.
* `TraceLoop_proofs`, reconstruction: `CyclesAreReturns` needs both directions for a
  graph whose edges join neighbours in a trace. A return gives a cycle because the
  records between the two visits are a path; and if no rpc returns, then along
  every path all records of the one rpc stand before all of the next
  (`PathsAdvance`), so no path comes back.
  `Reaches` has as many steps as the trace has records, and no path needs more.
  `TopologiesAsRead` holds for topologies of any size: after k records of a lock
  convoy only rpcs up to (k+2)/3 hold locks, none of which is the rpc 1000 i that
  the i-th release names.
* `TraceLoop_proofs`, the report: `WaitInv` says that the waits recorded are as many
  as the loop counts and have the sum it adds up, whence `WaitReportConsistent`;
  percentiles are ordered because more samples lie below a larger value.
  `QueueReportConsistent` comes from `QueueInv`, that is `HistSound` for the number
  of snapshot ticks so far: the sums kept per process, of lengths and of squares,
  are those of the histogram weighted with its bins. That no sample is lost needs
  that the configured processes stay registered, that the minimum starts above
  every queue needs that no queue outgrows the trace: `CarriedInv`, with which
  `ArrivalInv` bounds a queue by the records of its service.
  `DefaultsHideNothing` (`NothingHidden`): the range of the Jain index and the sign of
  the variance are the lemma on the square of a sum. That a default hides nothing is
  about order: by `IdleInv` a tick without a valid decision is one in which every
  queue is empty when it is measured, because no arrival follows the decision; so
  by `DefaultInv` the potential was zero in every tick recorded as long as no
  decision is. `ServedInv` has the converse: between a valid decision and the
  Metrics event that records it, a job has been completed or the Service event that
  completes it is on the heap.
* `Experiment_proofs`: `OnlyValidRuns`, `LastFlagWins`, `SweepCoversAxes`,
  `LogIsPrefix` (torn last rows included), `EarlierRunsKept`,
  `SuccessMeansWritten` and `NoPartialComparison`, for any menu, lines, files, failures and kills.
  `IInv` is inductive. Its part `ProgressInv` ties `configs` and `results` to the
  step of `main()`, `LoopInv` ties what the logger has been given to the tick, and
  `KeptInv` is what the properties about the disk come from: the outputs of a
  finished run are there *unless a later run of this attempt has had the same
  directory*. `SuccessMeansWritten` uses it for the last run of each directory,
  `EarlierRunsKept` for every run, because `DirectoriesDiffer`. The sweep is a
  number written in mixed radix: the turns of the eight nested loops are the
  digits of the run's number, so equal digits mean equal numbers (`SameDigits`)
  and every choice of digits is reached (`DigitsReach`). `LastFlagWins` is by
  induction over the arguments read (`ArgumentsRead`): each turn of the loop either
  replaces the configuration by a file, writes the fields of a flag, or leaves it.

Proving changed the model where it was wrong or could not be reasoned about.
`ParseSetting` was a `CASE` with overlapping guards, whose value is *some* branch
whose guard holds: the code tests them in order, and so does the model now.
`KeptInv` and `DebtInv` are the strengthenings that made `EarlierRunsKept` and
`DebtBounded` inductive. Folds whose laws a proof needs became recursive functions.
The percentile of the waiting times is the element at its rank, the least with
enough samples up to it, instead of a position in a sorted sequence, and the
dependencies of a trace join positions without another between them, instead of
neighbours in a filtered sequence: the prover knows nothing of the community
modules' operators for sorting and filtering. `NoMin`, the number a minimum starts
from, became a constant when the proof asked why no queue can exceed it.

**Only model-checked**, and why:

* `RunCompletes`: liveness under fairness, which is beyond the prover.
* The violated statements of section 4, which are counterexamples.

## 6. Not modelled

* The distributions of the workloads, the EWMA estimates and their noise, the
  entropy, tau and gap of a decision: numerical, and nothing but scores and
  log rows depends on them. Their *effects* are modelled as choices.
* The Katz estimator (`schedulers/estimators/`), which no scheduler name builds,
  and `TraceLoader`, `OfflineMetrics::reset` and `StatisticsDatabase::recordStat`,
  which nothing calls.
* The text of the output files and of the log, and the three hashes that label a
  run. A disk that fills up is not noticed by the code and is left out.
* The outlier warning of the trace validator and the mean latencies (numerical);
  passes 3 and 4 of the validator, which are empty.
* The look-ahead of the oracle for policies that read rate estimates, and in
  lock mode.
* The policies with dynamic registration. In lock mode `Schedulers` has the filter
  of FCFS, SJF and CFS, and a theorem says that they honour the contract there,
  but no run uses it.
* `EventQueue::clear`, which only the tests call.
* The next-arrival clocks of `SyntheticEventSource`: any batch of arrivals
  stands for them.
* The verification executable, the Python and shell pipelines and the tests. The
  tests were read as statements of what the program should do.

The `components` of `PROJECT.json` give a reason for each part.

## 7. State and plan

Done: the loop and its data modules, the policies without locks, the oracle,
trace replay with the whole report, and the program around the loop; theorems
about every safety property that a run checks. What is left to prove is outside
the prover: that a run ends.

Left to model: the policies in lock mode in a run of their own (that they honour
the contract there is proved; CFS prefers processes without a lock,
`schedulers/CFSScheduler.cpp:75`) and with dynamic registration (CFS indexes
`vruntimes_` out of range, `:70`); the Katz estimator, once a scheduler name
builds it; the look-ahead of the oracle for policies that read rate estimates.
