--------------------------- MODULE Configuration ----------------------------
(***************************************************************************)
(* What a simulation is told to do: Config and ExperimentConfig with their *)
(* defaults and their validation, the files ConfigLoader reads, the flags  *)
(* CLI::parse reads, the expansion of a sweep into one Config per run, and *)
(* the configurations that pass validation and still cannot be built.      *)
(*                                                                         *)
(* Decimals are in hundredths, and the last digit that std::to_string      *)
(* prints, 10^-6 in the code, is LastDigit of them.  A text that spells no *)
(* number, or no truth value, is NotANumber.  A directory is the sequence  *)
(* of the names on its path.  The three hashes that only label a run are   *)
(* left out.                                                               *)
(***************************************************************************)
EXTENDS Integers, SequencesExt

CONSTANTS
    NotANumber,      \* what a text that cannot be converted spells
    MaxWord,         \* 2^64: unsigned fields are taken modulo this
    DefaultTicks,    \* 1000000
    DefaultProcesses,\* 16
    MinWarmup,       \* 100000, the least warm-up that is chosen by default
    LastDigit,       \* the least difference std::to_string prints, 10^-6
    ConfigFiles,     \* the files there are: name -> [ext, broken, entries]
    TraceFiles       \* the traces that can be read and parsed

NoName == ""         \* an optional string that is not set

Config ==
    [ticks |-> DefaultTicks, warmup_ticks |-> 0, num_processes |-> DefaultProcesses,
     seed |-> 42, scheduler_name |-> "embi", embi_clipped |-> TRUE,
     context_switch_cost |-> 0, workload_name |-> "poisson",
     workload_profile |-> NoName, trace_file |-> NoName,
     arrival_rate |-> 50, arrival_rate_asymmetric |-> <<>>, service_rate |-> 100,
     alpha |-> 10, beta |-> 10, lambda_noise_stddev |-> 0, M |-> 1000,
     epsilon_total |-> 5, tau_constant_bound |-> 0, uniform_lo |-> 50,
     uniform_hi |-> 200, pareto_shape |-> 150, pareto_scale |-> 100,
     burst_on_rate |-> 80, burst_off_rate |-> 5, burst_p_on_off |-> 10,
     burst_p_off_on |-> 30, num_locks |-> 4, lock_request_rate |-> 30,
     lock_hold_mean |-> 500, output_dir |-> <<"output">>, log_freq |-> 1,
     binary_log |-> FALSE, null_log |-> FALSE, human_trace |-> FALSE]

ExperimentConfig ==
    [schedulers |-> <<"embi">>, workloads |-> <<"poisson">>, seeds |-> <<42>>,
     arrival_rates |-> <<50>>, alphas |-> <<>>, ticks |-> DefaultTicks,
     warmup_ticks |-> 0, num_processes |-> DefaultProcesses,
     context_switch_cost |-> 0, service_rate |-> 100, alpha |-> 10, beta |-> 10,
     M |-> 1000, pareto_shape |-> 150, pareto_scale |-> 100, burst_on_rate |-> 80,
     burst_off_rate |-> 5, burst_p_on_off |-> 10, burst_p_off_on |-> 30,
     arrival_rate_asymmetric |-> <<>>, trace_file |-> NoName, num_locks |-> 4,
     lock_request_rate |-> 30, lock_hold_mean |-> 500,
     arrival_rate_asymmetric_sweep |-> <<>>, epsilon_totals |-> <<>>,
     tau_constant_bounds |-> <<>>, lambda_noise_stddevs |-> <<>>,
     output_dir |-> <<"results">>, log_freq |-> 100, binary_log |-> FALSE,
     null_log |-> FALSE]

-----------------------------------------------------------------------------
(* Validation.                                                             *)

ValidSchedulers ==
    {"embi", "embi_oracle", "embi_unclipped", "embi_ablated", "embi_no_prediction",
     "embi_no_penalty", "maxweight", "cmu", "rr", "fcfs", "hybrid_embi", "sjf",
     "cfs", "gsq"}

ValidWorkloads ==
    {"uniform", "poisson", "bursty", "heavy_tail", "trace", "lock_contention"}

ValidProfiles ==
    {"web_server", "database", "cloud_vm", "embedded", "real_time",
     "interactive_desktop"}

IsRate(x) == 0 < x /\ x <= 100          \* in (0, 1]
IsFraction(x) == 0 < x /\ x < 100       \* in (0, 1)

Valid(cfg) ==
    /\ cfg.ticks > 0
    /\ cfg.num_processes >= 1
    /\ IsRate(cfg.arrival_rate)
    /\ \A k \in DOMAIN cfg.arrival_rate_asymmetric :
          IsRate(cfg.arrival_rate_asymmetric[k])
    /\ cfg.service_rate > 0
    /\ IsFraction(cfg.alpha)
    /\ IsFraction(cfg.beta)
    /\ cfg.M > 0
    /\ cfg.log_freq >= 1
    /\ cfg.scheduler_name \in ValidSchedulers
    /\ IF cfg.workload_profile = NoName THEN cfg.workload_name \in ValidWorkloads
                                        ELSE cfg.workload_profile \in ValidProfiles
    /\ cfg.workload_name = "trace" => cfg.trace_file # NoName
    /\ 0 < cfg.uniform_lo /\ cfg.uniform_lo < cfg.uniform_hi
    /\ cfg.pareto_shape > 0
    /\ cfg.pareto_scale > 0
    /\ IsRate(cfg.burst_on_rate)
    /\ 0 <= cfg.burst_off_rate /\ cfg.burst_off_rate <= 100
    /\ IsFraction(cfg.burst_p_on_off)
    /\ IsFraction(cfg.burst_p_off_on)

-----------------------------------------------------------------------------
(* Building the event source: the workload may refuse what validate()      *)
(* accepts.                                                                *)

\* on_rate is computed from the mean rate, burst_on_rate is not used:
\* (rate / N - p_off * off_rate) / p_on <= 1.
BurstyFits(cfg) ==
    LET on == cfg.burst_p_off_on   off == cfg.burst_p_on_off   n == cfg.num_processes
    IN  cfg.arrival_rate * (on + off) - n * off * cfg.burst_off_rate <= 100 * n * on

\* The Pareto scale that gives the mean rate is positive only above shape 1.
HeavyTailFits(cfg) == cfg.pareto_shape > 100

LockContentionFits(cfg) ==
    cfg.num_locks > 0 /\ IsRate(cfg.lock_request_rate) /\ cfg.lock_hold_mean > 0

Buildable(cfg) ==
    \/ cfg.workload_profile # NoName
    \/ CASE cfg.workload_name = "bursty"          -> BurstyFits(cfg)
         [] cfg.workload_name = "heavy_tail"      -> HeavyTailFits(cfg)
         [] cfg.workload_name = "trace"           -> cfg.trace_file \in TraceFiles
         [] cfg.workload_name = "lock_contention" -> LockContentionFits(cfg)
         [] OTHER                                 -> TRUE

-----------------------------------------------------------------------------
(* Converting text.                                                        *)

WholeFields ==
    {"ticks", "warmup_ticks", "num_processes", "seed", "context_switch_cost",
     "log_freq", "num_locks"}

ListFields ==
    {"arrival_rate_asymmetric", "alphas", "arrival_rates", "epsilon_totals",
     "tau_constant_bounds", "lambda_noise_stddevs"}

Convertible(field, text) ==
    IF field \in ListFields THEN \A k \in DOMAIN text : text[k] # NotANumber
                            ELSE text # NotANumber

\* stoull accepts a sign: -1 is the largest unsigned number.
Converted(field, text) ==
    CASE field \in WholeFields -> text % MaxWord
      [] field = "seeds"       -> [k \in DOMAIN text |-> text[k] % MaxWord]
      [] OTHER                 -> text

\* Assign to the record the texts given for some of its fields.
Assign(record, texts) ==
    [f \in DOMAIN record |->
        IF f \in DOMAIN texts THEN Converted(f, texts[f]) ELSE record[f]]

-----------------------------------------------------------------------------
(* Configuration files.                                                    *)

\* The fields a file may set, under their own names or an alias.  The other
\* keys of a file, of fields that exist too, are ignored.
YAMLFields ==
    {"ticks", "num_processes", "seed", "scheduler_name", "workload_name",
     "workload_profile", "trace_file", "arrival_rate", "service_rate", "alpha",
     "beta", "M", "epsilon_total", "tau_constant_bound", "pareto_shape",
     "pareto_scale", "burst_on_rate", "burst_off_rate", "burst_p_on_off",
     "burst_p_off_on", "uniform_lo", "uniform_hi", "output_dir", "log_freq",
     "binary_log", "null_log", "embi_clipped"}

JSONFields == YAMLFields \cup {"arrival_rate_asymmetric"}

ExperimentFields ==
    {"schedulers", "workloads", "seeds", "arrival_rates", "arrival_rate_asymmetric",
     "arrival_rate_asymmetric_sweep", "epsilon_totals", "tau_constant_bounds",
     "ticks", "num_processes", "service_rate", "alpha", "beta", "M",
     "pareto_shape", "pareto_scale", "burst_on_rate", "burst_off_rate",
     "burst_p_on_off", "burst_p_off_on", "log_freq", "binary_log", "null_log",
     "num_locks", "lock_request_rate", "lock_hold_mean", "output_dir", "trace_file"}

\* The keys that set a field, in the order in which they are read.
KeysOf(field) ==
    CASE field = "scheduler_name" -> <<"scheduler", "scheduler_name">>
      [] field = "workload_name"  -> <<"workload", "workload_name">>
      [] field = "output_dir"     -> <<"output_dir", "output">>
      [] field = "arrival_rates"  -> <<"arrival_rates", "arrival_rate_range">>
      [] OTHER                    -> <<field>>

\* The texts that the entries of a file give for those fields: the key that
\* is read last counts.
TextsFor(entries, fields) ==
    LET present(field) == {k \in DOMAIN KeysOf(field) : KeysOf(field)[k] \in DOMAIN entries}
    IN  [field \in {f \in fields : present(f) # {}} |->
            entries[KeysOf(field)[Max(present(field))]]]

FieldsRead(ext) == IF ext = "json" THEN JSONFields ELSE YAMLFields

\* load() of a file that can be loaded.
Load(name) ==
    LET file == ConfigFiles[name]
    IN  Assign(Config, TextsFor(file.entries, FieldsRead(file.ext)))

Readable(name, extensions) ==
    /\ name \in DOMAIN ConfigFiles
    /\ ConfigFiles[name].ext \in extensions
    /\ ~ConfigFiles[name].broken

AllConvertible(texts) == \A f \in DOMAIN texts : Convertible(f, texts[f])

Loadable(name) ==
    /\ Readable(name, {"yaml", "yml", "json"})
    /\ AllConvertible(TextsFor(ConfigFiles[name].entries, FieldsRead(ConfigFiles[name].ext)))
    /\ Valid(Load(name))

\* What the text of a field is: a number or not, a list, or anything else.  The
\* entries of a file are those whose type (array or not) is the one their key
\* is read as; the code passes over the others.
IsSequence(text) == Len(text) \in Nat /\ text = [k \in 1 .. Len(text) |-> text[k]]

SequenceFields ==
    {"schedulers", "workloads", "seeds", "arrival_rates", "arrival_rate_asymmetric_sweep",
     "alphas", "epsilon_totals", "lambda_noise_stddevs", "output_dir"}

Spells(field, text) ==
    /\ field \in WholeFields => text \in Int \cup {NotANumber}
    /\ field \in SequenceFields => IsSequence(text)

ASSUME ConfigurationAssumption ==
    /\ MaxWord \in Nat \ {0} /\ MinWarmup \in Nat /\ LastDigit \in Nat \ {0}
    /\ DefaultTicks \in Nat /\ DefaultProcesses \in Nat
    /\ \A name \in DOMAIN ConfigFiles, field \in WholeFields \cup SequenceFields :
          \A k \in DOMAIN KeysOf(field) :
             KeysOf(field)[k] \in DOMAIN ConfigFiles[name].entries =>
                Spells(field, ConfigFiles[name].entries[KeysOf(field)[k]])

-----------------------------------------------------------------------------
(* A sweep: one configuration for each choice of a value on every axis.    *)

Swept(axis, single) == IF axis = <<>> THEN <<single>> ELSE axis

\* The nested loops of expand(), outermost first.
Axes(exp) ==
    <<exp.schedulers, exp.workloads, exp.seeds, exp.arrival_rates,
      Swept(exp.arrival_rate_asymmetric_sweep, exp.arrival_rate_asymmetric),
      Swept(exp.alphas, exp.alpha), Swept(exp.epsilon_totals, 0),
      Swept(exp.lambda_noise_stddevs, 0)>>

ProductFrom(axes, i) ==
    LET product[j \in 1 .. 9] == IF j = 9 THEN 1 ELSE Len(axes[j]) * product[j + 1]
    IN  product[i]

TotalRuns(exp) == ProductFrom(Axes(exp), 1)

\* Fault: every loop turns at the speed of the innermost one.
PickAligned(axes, i, k) == axes[i][((k - 1) % Len(axes[i])) + 1]

\* The value of axis i in the k-th run.
Pick(axes, i, k) == axes[i][(((k - 1) \div ProductFrom(axes, i + 1)) % Len(axes[i])) + 1]

\* warmup_ticks of a run: 0 asks for the default.
Warmup(ticks, warmup) == IF warmup = 0 THEN Max({MinWarmup, ticks \div 10}) ELSE warmup

\* std::to_string rounds a decimal to its last digit: two decimals that differ
\* by less may be printed alike.
ToText(x) == (x + LastDigit \div 2) \div LastDigit

AsymSuffix(rates) == [k \in DOMAIN rates |-> ToText(rates[k])]

\* Fault: two seeds share a directory.
RunDirWithoutSeed(exp, cfg) ==
    exp.output_dir \o <<cfg.scheduler_name, cfg.workload_name,
                         <<cfg.arrival_rate, cfg.arrival_rate_asymmetric>>>>

\* The directory of a run; alpha and epsilon are part of its name when swept.
RunDir(exp, cfg) ==
    exp.output_dir \o
      <<cfg.scheduler_name, cfg.workload_name,
        <<cfg.seed, ToText(cfg.arrival_rate), AsymSuffix(cfg.arrival_rate_asymmetric),
          IF exp.alphas = <<>> THEN <<>> ELSE <<ToText(cfg.alpha)>>,
          IF exp.epsilon_totals = <<>> THEN <<>> ELSE <<ToText(cfg.epsilon_total)>> >> >>

\* The fields of a run that every run takes from the experiment.
Inherited ==
    {"ticks", "num_processes", "context_switch_cost", "service_rate", "beta", "M",
     "pareto_shape", "pareto_scale", "burst_on_rate", "burst_off_rate",
     "burst_p_on_off", "burst_p_off_on", "num_locks", "lock_request_rate",
     "lock_hold_mean", "trace_file", "log_freq", "binary_log", "null_log"}

\* The k-th run; fields that are neither inherited nor swept keep their default.
RunConfig(exp, k) ==
    LET pick(i) == Pick(Axes(exp), i, k)
        fixed == [f \in DOMAIN Config |-> IF f \in Inherited THEN exp[f] ELSE Config[f]]
        cfg == [fixed EXCEPT !.scheduler_name = pick(1), !.workload_name = pick(2),
                             !.seed = pick(3), !.arrival_rate = pick(4),
                             !.arrival_rate_asymmetric = pick(5), !.alpha = pick(6),
                             !.epsilon_total = pick(7), !.lambda_noise_stddev = pick(8),
                             !.warmup_ticks = Warmup(exp.ticks, exp.warmup_ticks)]
    IN  [cfg EXCEPT !.output_dir = RunDir(exp, cfg)]

Expand(exp) == [k \in 1 .. TotalRuns(exp) |-> RunConfig(exp, k)]

\* Fault: only the first configuration is validated.
ExpandsFirst(exp) == TotalRuns(exp) > 0 => Valid(RunConfig(exp, 1))

\* expand() throws on the first invalid configuration.
Expands(exp) == \A k \in 1 .. TotalRuns(exp) : Valid(RunConfig(exp, k))

ExperimentTexts(name) == TextsFor(ConfigFiles[name].entries, ExperimentFields)

LoadExperiment(name) == Assign(ExperimentConfig, ExperimentTexts(name))

ExperimentLoadable(name) ==
    /\ Readable(name, {"json"})
    /\ AllConvertible(ExperimentTexts(name))
    /\ Expands(LoadExperiment(name))

-----------------------------------------------------------------------------
(* The command line: a sequence of settings, <<flag>> or <<flag, text>>.   *)

SchedulerFlags == {<<"--scheduler", "scheduler_name">>}

WorkloadFlags == {<<"--workload", "workload_name">>, <<"--profile", "workload_profile">>,
                  <<"--trace", "trace_file">>}

SimulationFlags ==
    {<<"--ticks", "ticks">>, <<"--num-processes", "num_processes">>, <<"--seed", "seed">>,
     <<"--warmup-ticks", "warmup_ticks">>, <<"--context-switch-cost", "context_switch_cost">>}

RateFlags ==
    {<<"--arrival-rate-asymmetric", "arrival_rate_asymmetric">>,
     <<"--arrival-rate", "arrival_rate">>, <<"--service-rate", "service_rate">>,
     <<"--alpha", "alpha">>, <<"--beta", "beta">>, <<"--M", "M">>,
     <<"--lambda-noise", "lambda_noise_stddev">>, <<"--epsilon-total", "epsilon_total">>,
     <<"--tau-constant", "tau_constant_bound">>}

WorkloadParameterFlags ==
    {<<"--pareto-shape", "pareto_shape">>, <<"--pareto-scale", "pareto_scale">>,
     <<"--uniform-lo", "uniform_lo">>, <<"--uniform-hi", "uniform_hi">>,
     <<"--burst-on-rate", "burst_on_rate">>, <<"--burst-off-rate", "burst_off_rate">>}

OutputFlags == {<<"--output", "output_dir">>, <<"--log-freq", "log_freq">>}

LockFlags == {<<"--num-locks", "num_locks">>, <<"--lock-rate", "lock_request_rate">>,
              <<"--lock-hold", "lock_hold_mean">>}

\* The field each flag with a value sets.
FieldOf ==
    LET pairs == SchedulerFlags \cup WorkloadFlags \cup SimulationFlags \cup RateFlags
                   \cup WorkloadParameterFlags \cup OutputFlags \cup LockFlags
    IN  [flag \in {p[1] : p \in pairs} |-> (CHOOSE p \in pairs : p[1] = flag)[2]]

\* The flags without a value, and what they set.
Switches ==
    [flag \in {"--no-clip", "--binary-log", "--null-log", "--human-trace"} |->
        CASE flag = "--no-clip"    -> [embi_clipped |-> FALSE,
                                       scheduler_name |-> "embi_unclipped"]
          [] flag = "--binary-log" -> [binary_log |-> TRUE]
          [] flag = "--null-log"   -> [null_log |-> TRUE]
          [] OTHER                 -> [human_trace |-> TRUE]]

\* The fields of the configuration that a setting writes, with their texts.
TextsOf(setting) ==
    IF setting[1] \in DOMAIN Switches THEN Switches[setting[1]]
    ELSE [f \in {FieldOf[setting[1]]} |-> setting[2]]

Parsing == [status |-> "parsing", config |-> Config, exp_config |-> ExperimentConfig,
            experiment_mode |-> FALSE]

\* Fault: a file fills in only what no flag has set before it.
OnConfigFileBelow(result, name) ==
    IF ~Loadable(name) THEN [result EXCEPT !.status = "error"]
    ELSE [result EXCEPT !.config = [f \in DOMAIN Config |->
             IF result.config[f] # Config[f] THEN result.config[f] ELSE Load(name)[f]]]

\* A file replaces every field, those that flags before it have set included.
OnConfigFile(result, name) ==
    IF Loadable(name) THEN [result EXCEPT !.config = Load(name)]
    ELSE [result EXCEPT !.status = "error"]

\* So does an experiment file, the alphas of an earlier --alpha-sweep included.
OnExperimentFile(result, name) ==
    IF ExperimentLoadable(name)
    THEN [result EXCEPT !.exp_config = LoadExperiment(name), !.experiment_mode = TRUE]
    ELSE [result EXCEPT !.status = "error"]

OnAlphaSweep(result, list) ==
    IF Convertible("alphas", list)
    THEN [result EXCEPT !.exp_config.alphas = list, !.experiment_mode = TRUE]
    ELSE [result EXCEPT !.status = "error"]

OnField(result, setting) ==
    IF AllConvertible(TextsOf(setting))
    THEN [result EXCEPT !.config = Assign(@, TextsOf(setting))]
    ELSE [result EXCEPT !.status = "error"]

\* One turn of the loop over the arguments: nothing is read after --help and
\* after an error.
ParseSetting(result, setting) ==
    LET flag == setting[1]
    IN  IF result.status # "parsing"      THEN result
        ELSE IF flag \in {"--help", "-h"} THEN [result EXCEPT !.status = "help"]
        ELSE IF flag \in DOMAIN Switches  THEN OnField(result, setting)
        ELSE IF Len(setting) = 1          THEN [result EXCEPT !.status = "error"]
        ELSE IF flag = "--config"         THEN OnConfigFile(result, setting[2])
        ELSE IF flag = "--experiment"     THEN OnExperimentFile(result, setting[2])
        ELSE IF flag = "--alpha-sweep"    THEN OnAlphaSweep(result, setting[2])
        ELSE IF flag \in DOMAIN FieldOf   THEN OnField(result, setting)
        ELSE [result EXCEPT !.status = "error"]

\* The end of parse(): the configuration of a sweep is not looked at.
Finished(result) ==
    LET config == [result.config EXCEPT !.warmup_ticks = Warmup(result.config.ticks, @)]
        ends(status, final) == [status |-> status, config |-> final,
                                exp_config |-> result.exp_config,
                                experiment_mode |-> result.experiment_mode]
    IN  CASE result.status = "help" -> ends("help", result.config)
          [] result.status = "parsing" /\ result.experiment_mode -> ends("ok", result.config)
          [] /\ result.status = "parsing" /\ ~result.experiment_mode
             /\ Valid(config)       -> ends("ok", config)
          [] OTHER                  -> ends("error", config)

Parse(line) ==
    LET result[k \in 0 .. Len(line)] ==
            IF k = 0 THEN Parsing ELSE ParseSetting(result[k - 1], line[k])
    IN  Finished(result[Len(line)])

=============================================================================
