----------------------------- MODULE Experiment -----------------------------
(***************************************************************************)
(* The program around the event loop: main(), which parses the command     *)
(* line and makes a single run or a sweep, Experiment::run, the Simulator  *)
(* of each run with its log and its five output files, and the comparison  *)
(* at the end of a sweep.                                                  *)
(*                                                                         *)
(* Opening a file or creating a directory may fail, and the process may be *)
(* killed between any two steps; the same command line is then given       *)
(* again, and finds the files the earlier attempts have left.              *)
(*                                                                         *)
(* The event loop is reduced to its ticks, its rows of the log, and a Jain *)
(* index; the modules EventLoop and TraceLoop have the rest of it.  A log  *)
(* has no rows for services that a trace registers on demand.              *)
(***************************************************************************)
EXTENDS Configuration, RunLog

CONSTANTS
    Menu,          \* the settings a command line is made of
    Lines,         \* the command lines, as sequences of indices into Menu
    MaxAttempts,   \* how often the command line is given
    MaxFaults,     \* how many operations fail, or kill the process
    CSVBuffer,     \* records in the buffer of a CSVLogger, 4096
    BinaryBuffer,  \* records in the buffer of a BinaryLogger, 8192
    JainIndexes    \* the fairness a run may turn out to have

ASSUME BoundsAssumption ==
    /\ MaxAttempts \in Nat /\ MaxFaults \in Nat
    /\ CSVBuffer \in Nat \ {0} /\ BinaryBuffer \in Nat \ {0}
    /\ JainIndexes \subseteq Nat /\ JainIndexes # {}

\* Only the last argument of a command line can miss its value.
ASSUME LinesAssumption ==
    \A w \in Lines : \A k \in DOMAIN w :
        /\ w[k] \in DOMAIN Menu
        /\ Len(Menu[w[k]]) = 1 /\ Menu[w[k]][1] \in DOMAIN FieldOf => k = Len(w)

ASSUME MenuAssumption ==
    /\ \A w \in Lines : IsSequence(w)
    /\ \A k \in DOMAIN Menu : Len(Menu[k]) # 1 =>
          /\ Menu[k][1] \in DOMAIN FieldOf => Spells(FieldOf[Menu[k][1]], Menu[k][2])
          /\ Menu[k][1] = "--alpha-sweep" => Spells("alphas", Menu[k][2])

VARIABLES
    line,     \* the command line, as indices into Menu
    attempt,  \* how often it has been given
    faults,   \* how many operations have failed
    pc,       \* the step main() is at; "shell" when the program does not run
    exit,     \* how the last attempt has ended, or "none"
    cli,      \* CLIResult
    configs,  \* the configurations of this attempt's runs
    run,      \* the index of the current one
    tick,     \* the tick its event loop is at
    logger,   \* its logger
    output,   \* the index of the next output file
    results,  \* results_, the Jain index of each finished run
    logs,     \* directory -> the run.csv or run.bin in it
    files     \* <<directory, name>> -> the other files

vars == <<line, attempt, faults, pc, exit, cli, configs, run, tick, logger,
          output, results, logs, files>>

\* A CLIResult before parse() has run.
NoResult == Parsing

\* The logger when no run is under way.
NoLogger == Open("null", 1)

Init ==
    /\ line \in Lines
    /\ attempt = 0 /\ faults = 0
    /\ pc = "shell" /\ exit = "none"
    /\ cli = NoResult /\ configs = <<>> /\ run = 1 /\ tick = 0
    /\ logger = NoLogger /\ output = 1 /\ results = <<>>
    /\ logs = <<>> /\ files = <<>>

\* The text of the command line.
Settings == [k \in DOMAIN line |-> Menu[line[k]]]

cfg == configs[run]
dir == cfg.output_dir

\* One more operation fails.
Fault == faults < MaxFaults /\ faults' = faults + 1

-----------------------------------------------------------------------------
(* How the program ends: by itself or by an exception, which both close    *)
(* the log of the run under way, or killed.                                *)

\* The run under way has a log on the disk.
IsLogging == logger.kind # "null"

\* The disk f after v has been written at p, over what was there.
Put(f, p, v) == [q \in DOMAIN f \cup {p} |-> IF q = p THEN v ELSE f[q]]

\* The file of the current log holds these rows, and a torn one if so said.
LogHolds(rows, torn) ==
    logs' = [logs EXCEPT ![dir] = [@ EXCEPT !.rows = rows, !.torn = torn]]

Exit(how) ==
    /\ pc' = "shell" /\ exit' = how
    /\ logger' = NoLogger
    /\ IF IsLogging THEN LogHolds(Close(logger).stream, FALSE) ELSE logs' = logs

-----------------------------------------------------------------------------
(* main() and the constructor of Experiment.                               *)

\* The command line is given, for the first time or again.
Start ==
    /\ pc = "shell" /\ attempt < MaxAttempts /\ exit # "success"
    /\ attempt' = attempt + 1
    /\ pc' = "parse" /\ exit' = "none"
    /\ cli' = NoResult /\ configs' = <<>> /\ run' = 1 /\ tick' = 0
    /\ output' = 1 /\ results' = <<>>
    /\ UNCHANGED <<line, faults, logger, logs, files>>

ParseCommandLine ==
    LET result == Parse(Settings)
    IN  /\ pc = "parse"
        /\ cli' = result
        /\ \/ result.status = "error" /\ Exit("failure") /\ configs' = configs
           \/ result.status = "help"  /\ Exit("success") /\ configs' = configs
           \/ /\ result.status = "ok"
              /\ IF result.experiment_mode
                 THEN pc' = "expand" /\ configs' = configs
                 ELSE pc' = "build"  /\ configs' = <<result.config>>
              /\ UNCHANGED <<exit, logger, logs>>
        /\ UNCHANGED <<line, attempt, faults, run, tick, output, results, files>>

\* Nothing has been run when a configuration of the sweep turns out invalid.
ExpandSweep ==
    /\ pc = "expand"
    /\ IF Expands(cli.exp_config)
       THEN /\ configs' = Expand(cli.exp_config)
            /\ pc' = IF configs' = <<>> THEN "compare" ELSE "build"
            /\ UNCHANGED <<exit, logger, logs>>
       ELSE Exit("failure") /\ configs' = configs
    /\ UNCHANGED <<line, attempt, faults, cli, run, tick, output, results, files>>

-----------------------------------------------------------------------------
(* One run: the constructor of Simulator, the event loop, the output.      *)

LoggerFor(c) == IF c.null_log THEN NoLogger
                ELSE IF c.binary_log THEN Open("binary", BinaryBuffer)
                                     ELSE Open("csv", CSVBuffer)

\* The log starts empty, whatever an earlier run has left in its directory.
BuildRun ==
    /\ pc = "build" /\ Buildable(cfg)
    /\ pc' = "loop" /\ tick' = 0
    /\ logger' = LoggerFor(cfg)
    /\ logs' = IF cfg.null_log THEN logs
               ELSE Put(logs, dir, [by |-> attempt, config |-> cfg, rows |-> <<>>,
                                    torn |-> FALSE])
    /\ UNCHANGED <<line, attempt, faults, exit, cli, configs, run, output, results, files>>

\* The workload is built first; then the directory or the log may fail.
BuildThrows ==
    /\ pc = "build"
    /\ \/ ~Buildable(cfg) /\ faults' = faults
       \/ Buildable(cfg) /\ ~cfg.null_log /\ Fault
    /\ Exit("failure")
    /\ UNCHANGED <<line, attempt, cli, configs, run, tick, output, results, files>>

\* A profile replaces the workload but not its name: the loop still asks for
\* the lock manager, which refuses to have no locks.
LoopRefused(c) == c.workload_name = "lock_contention" /\ c.num_locks = 0

LoopThrows ==
    /\ pc = "loop" /\ LoopRefused(cfg)
    /\ Exit("failure")
    /\ UNCHANGED <<line, attempt, faults, cli, configs, run, tick, output, results, files>>

SimulateTick ==
    /\ pc = "loop" /\ tick < cfg.ticks /\ ~LoopRefused(cfg)
    /\ tick' = tick + 1
    /\ logger' = IF tick % cfg.log_freq = 0 THEN WriteTick(logger, tick, cfg.num_processes)
                                            ELSE logger
    /\ UNCHANGED <<line, attempt, faults, pc, exit, cli, configs, run, output, results,
                   logs, files>>

\* The log is flushed; then the directory is created, if it is not there yet.
EndLoop ==
    /\ pc = "loop" /\ tick = cfg.ticks
    /\ pc' = "write" /\ output' = 1
    /\ logger' = Flush(logger)
    /\ IF IsLogging THEN LogHolds(Flush(logger).stream, FALSE) ELSE logs' = logs
    /\ UNCHANGED <<line, attempt, faults, exit, cli, configs, run, tick, results, files>>

\* Without a log the directory is first needed here.
DirectoryThrows ==
    /\ pc = "loop" /\ tick = cfg.ticks /\ cfg.null_log /\ Fault
    /\ Exit("failure")
    /\ UNCHANGED <<line, attempt, cli, configs, run, tick, output, results, files>>

Outputs == <<"summary.txt", "summary.json", "v_trace.csv", "artifact_manifest.json",
             "hybrid_trace.csv">>

\* Fault: a summary that cannot be opened is skipped like the other files.
MandatoryJSON == {"summary.json"}

\* The outputs whose failure is an error.
Mandatory == {"summary.txt", "summary.json"}

\* Decisions are sampled only after the warm-up, and only now and then: without
\* a sample their file is not even opened, and an older one stays.
MaySkip(name) == name = "hybrid_trace.csv"
MayOpen(name) == MaySkip(name) => cfg.ticks > cfg.warmup_ticks

\* An output of this attempt that covers the given runs.
Report(runs, whole) == [by |-> attempt, runs |-> runs, whole |-> whole]

WriteOutput ==
    /\ pc = "write" /\ output <= Len(Outputs)
    /\ output' = output + 1
    /\ \/ MaySkip(Outputs[output]) /\ files' = files
       \/ /\ MayOpen(Outputs[output])
          /\ files' = Put(files, <<dir, Outputs[output]>>, Report(<<run>>, TRUE))
    /\ UNCHANGED <<line, attempt, faults, pc, exit, cli, configs, run, tick, logger,
                   results, logs>>

OutputThrows ==
    /\ pc = "write" /\ output <= Len(Outputs) /\ Outputs[output] \in Mandatory /\ Fault
    /\ Exit("failure")
    /\ UNCHANGED <<line, attempt, cli, configs, run, tick, output, results, files>>

SkipOutput ==
    /\ pc = "write" /\ output <= Len(Outputs) /\ Outputs[output] \notin Mandatory /\ Fault
    /\ output' = output + 1
    /\ UNCHANGED <<line, attempt, pc, exit, cli, configs, run, tick, logger, results,
                   logs, files>>

\* Fault: the comparison is written before the last run.
StepAfterEarly(finished) == IF finished + 1 < Len(configs) THEN "build" ELSE "compare"

\* The step of a sweep that follows its run number "finished".
StepAfter(finished) == IF finished < Len(configs) THEN "build" ELSE "compare"

FinishRun ==
    /\ pc = "write" /\ output > Len(Outputs)
    /\ \E jain \in JainIndexes : results' = Append(results, jain)
    /\ IF cli.experiment_mode
       THEN /\ pc' = StepAfter(run)
            /\ run' = IF pc' = "build" THEN run + 1 ELSE run
            /\ exit' = exit /\ logger' = NoLogger
            /\ IF IsLogging THEN LogHolds(Close(logger).stream, FALSE) ELSE logs' = logs
       ELSE Exit("success") /\ run' = run
    /\ output' = 1
    /\ UNCHANGED <<line, attempt, faults, cli, configs, tick, files>>

-----------------------------------------------------------------------------
(* Experiment::writeSummary.                                               *)

\* The runs, the fairest first; std::sort leaves ties in any order.
Rankings ==
    {order \in SetToSeqs(DOMAIN results) :
        \A i, j \in DOMAIN order : i < j => results[order[i]] >= results[order[j]]}

Comparison(name) == <<cli.exp_config.output_dir, name>>

WriteComparison ==
    /\ pc = "compare" /\ results # <<>>
    /\ \/ /\ output = 1
          /\ \E order \in Rankings :
                files' = Put(files, Comparison("summary.txt"), Report(order, TRUE))
          /\ output' = 2
          /\ UNCHANGED <<pc, exit, logger, logs>>
       \/ /\ output = 2
          /\ LET order == [k \in DOMAIN results |-> k]
             IN  files' = Put(files, Comparison("summary.json"), Report(order, TRUE))
          /\ output' = 2
          /\ Exit("success")
    /\ UNCHANGED <<line, attempt, faults, cli, configs, run, tick, results>>

\* A sweep of no runs ends without a comparison.
NothingToCompare ==
    /\ pc = "compare" /\ results = <<>>
    /\ Exit("success")
    /\ UNCHANGED <<line, attempt, faults, cli, configs, run, tick, output, results, files>>

ComparisonThrows ==
    /\ pc = "compare" /\ results # <<>> /\ Fault
    /\ Exit("failure")
    /\ UNCHANGED <<line, attempt, cli, configs, run, tick, output, results, files>>

-----------------------------------------------------------------------------
\* The file that is written when a kill comes, if any.
Writing ==
    LET opened == {Outputs[k] : k \in {output} \cap DOMAIN Outputs}
    IN  CASE pc = "write"   -> {<<dir, name>> : name \in {n \in opened : MayOpen(n)}}
          [] pc = "compare" -> {Comparison(name) : name \in {n \in opened : results # <<>>}}
          [] OTHER          -> {}

\* A kill loses what is not in the file yet, and cuts an output short.
Kill ==
    /\ pc # "shell" /\ Fault
    /\ pc' = "shell" /\ exit' = "killed"
    /\ logger' = NoLogger
    /\ IF IsLogging THEN \E left \in Surviving(logger) : LogHolds(left.rows, left.torn)
                    ELSE logs' = logs
    /\ \/ files' = files
       \/ \E path \in Writing : files' = Put(files, path, Report(<<>>, FALSE))
    /\ UNCHANGED <<line, attempt, cli, configs, run, tick, output, results>>

Next ==
    \/ Start \/ ParseCommandLine \/ ExpandSweep
    \/ BuildRun \/ BuildThrows \/ LoopThrows \/ SimulateTick \/ EndLoop
    \/ DirectoryThrows
    \/ WriteOutput \/ OutputThrows \/ SkipOutput \/ FinishRun
    \/ WriteComparison \/ NothingToCompare \/ ComparisonThrows
    \/ Kill

Spec == Init /\ [][Next]_vars

-----------------------------------------------------------------------------
(* What the command line means.                                            *)

FieldsWritten(setting) ==
    IF setting[1] \in DOMAIN Switches \cup DOMAIN FieldOf THEN DOMAIN TextsOf(setting) ELSE {}

LastConfigFile == Max({k \in DOMAIN line : Settings[k][1] = "--config"} \cup {0})

LastWriter(f) ==
    Max({k \in DOMAIN line : k > LastConfigFile /\ f \in FieldsWritten(Settings[k])} \cup {0})

\* The value of field f that the command line asks for.
Asked(f) ==
    IF LastWriter(f) # 0 THEN Converted(f, TextsOf(Settings[LastWriter(f)])[f])
    ELSE IF LastConfigFile # 0 THEN Load(Settings[LastConfigFile][2])[f]
                               ELSE Config[f]

\* A single run with no warm-up is given one.
Meant(f) == IF f = "warmup_ticks" /\ ~cli.experiment_mode
            THEN Warmup(Asked("ticks"), Asked(f)) ELSE Asked(f)

\* Each field has the value of the last flag that writes it after the last
\* --config, or else that file's value, or else its default (CLI::parse).
LastFlagWins == pc \in {"build", "expand"} => \A f \in DOMAIN Config : cli.config[f] = Meant(f)

LastFlag(f) == Max({k \in DOMAIN line : f \in FieldsWritten(Settings[k])} \cup {0})

\* What the comment at CLI.cpp:60 says: a configuration file is loaded first,
\* and a flag overrides it wherever it stands.
FlagsOverrideFile ==
    pc \in {"build", "expand"} =>
        \A f \in DOMAIN Config \ {"warmup_ticks"} :
            LastFlag(f) # 0 =>
               cli.config[f] = Converted(f, TextsOf(Settings[LastFlag(f)])[f])

-----------------------------------------------------------------------------
(* Which runs there are.                                                   *)

\* No run is made unless every configuration of its sweep is valid: a mistake
\* in the last one costs no simulation (ExpandSweep, ConfigLoader).
OnlyValidRuns ==
    pc \in {"build", "loop", "write"} => \A k \in DOMAIN configs : Valid(configs[k])

\* How the name of a directory spells value x of axis i.
Printed(i, x) == CASE i = 5          -> AsymSuffix(x)
                   [] i \in {4, 6, 7} -> ToText(x)
                   [] OTHER          -> x

\* No axis has two values that a directory spells alike; the noise is not in it.
NoRepeats(exp) ==
    /\ \A i \in DOMAIN Axes(exp) :
          IsInjective([k \in DOMAIN Axes(exp)[i] |-> Printed(i, Axes(exp)[i][k])])
    /\ Len(exp.lambda_noise_stddevs) <= 1

AxisProduct(exp) ==
    LET axis(i) == Range(Axes(exp)[i])
    IN  axis(1) \X axis(2) \X axis(3) \X axis(4) \X axis(5) \X axis(6) \X axis(7) \X axis(8)

Chosen(c) == <<c.scheduler_name, c.workload_name, c.seed, c.arrival_rate,
               c.arrival_rate_asymmetric, c.alpha, c.epsilon_total, c.lambda_noise_stddev>>

\* A sweep has one run for every choice of a value on each axis, and two runs
\* of a sweep never share a directory unless an axis has two values that are
\* printed alike, or there are two values for the noise (expand).
SweepCoversAxes ==
    cli.experiment_mode /\ pc = "build" =>
        /\ {Chosen(configs[k]) : k \in DOMAIN configs} = AxisProduct(cli.exp_config)
        /\ NoRepeats(cli.exp_config) =>
              IsInjective([k \in DOMAIN configs |-> configs[k].output_dir])

-----------------------------------------------------------------------------
(* What is on the disk.                                                    *)

\* The rows of the ticks before t.
RowsBefore(c, t) ==
    LET rows[u \in 0 .. t] ==
            IF u = 0 THEN <<>>
            ELSE IF (u - 1) % c.log_freq = 0
                 THEN rows[u - 1] \o RowsOfTick(u - 1, c.num_processes)
                 ELSE rows[u - 1]
    IN  rows[t]

\* Whatever failed or was killed, and when: a log holds the first rows of its
\* run, in order, none twice.  Only a kill tears a row, the one that comes next.
\* While the run is under way none is missing between the file, the stream and
\* the buffer (CSVLogger, BinaryLogger).
LogIsPrefix ==
    /\ \A d \in DOMAIN logs :
          LET log == logs[d]
              all == RowsBefore(log.config, log.config.ticks)
          IN  /\ IsPrefix(log.rows, all)
              /\ log.torn => /\ Len(log.rows) < Len(all)
                             /\ log.by = attempt => exit = "killed"
    /\ IsLogging => logger.stream \o logger.buffer = RowsBefore(cfg, tick)

HasOutputs(k) ==
    /\ \A name \in {"summary.txt", "summary.json"} :
          /\ <<configs[k].output_dir, name>> \in DOMAIN files
          /\ files[<<configs[k].output_dir, name>>] = Report(<<k>>, TRUE)
    /\ ~configs[k].null_log =>
          logs[configs[k].output_dir] =
             [by |-> attempt, config |-> configs[k],
              rows |-> RowsBefore(configs[k], configs[k].ticks), torn |-> FALSE]

\* The results of a finished run stay as they are, whatever becomes of the
\* later runs of its sweep (Experiment::run).
EarlierRunsKept ==
    cli.experiment_mode /\ NoRepeats(cli.exp_config) =>
        \A k \in DOMAIN results : HasOutputs(k)

\* The last run that writes to the directory of run k.
LastIn(k) == Max({j \in DOMAIN configs : configs[j].output_dir = configs[k].output_dir})

\* When the program reports success, this attempt has written the log and both
\* summaries of every run, and a comparison in which each run is listed once,
\* the fairest first (main, Simulator::run, writeSummary).
SuccessMeansWritten ==
    exit = "success" /\ cli.status = "ok" =>
        /\ Len(results) = Len(configs)
        /\ \A k \in DOMAIN configs : HasOutputs(LastIn(k))
        /\ cli.experiment_mode /\ configs # <<>> =>
              /\ files[Comparison("summary.json")] =
                    Report([k \in DOMAIN configs |-> k], TRUE)
              /\ \E order \in Rankings : files[Comparison("summary.txt")] = Report(order, TRUE)

\* A comparison written by this attempt compares all the runs of the sweep,
\* and each of them has its own results on the disk (Experiment::run).
NoPartialComparison ==
    \A name \in {"summary.txt", "summary.json"} :
        /\ cli.experiment_mode /\ Comparison(name) \in DOMAIN files
        /\ files[Comparison(name)].by = attempt /\ files[Comparison(name)].whole
        => /\ Len(files[Comparison(name)].runs) = TotalRuns(cli.exp_config)
           /\ \A k \in DOMAIN configs : HasOutputs(LastIn(k))

=============================================================================
