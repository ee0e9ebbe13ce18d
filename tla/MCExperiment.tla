---------------------------- MODULE MCExperiment ----------------------------
(***************************************************************************)
(* Command lines of settings from a menu, and the files they may name.     *)
(***************************************************************************)
EXTENDS Experiment

File(ext, entries) == [ext |-> ext, broken |-> FALSE, entries |-> entries]

MCConfigFiles ==
    ("base.yaml" :> File("yaml", [scheduler |-> "cfs", ticks |-> 3, seed |-> 7,
                                  warmup_ticks |-> 9, alpha |-> 30]))
      @@ ("bursts.json" :> File("json", [workload |-> "bursty", arrival_rate |-> 100,
                                         num_processes |-> 1, output_dir |-> <<"a">>,
                                         output |-> <<"b">>]))
      @@ ("locks.yaml" :> File("yaml", [workload |-> "lock_contention",
                                        workload_profile |-> "database"]))
      @@ ("bad.json" :> File("json", [ticks |-> NotANumber]))
      @@ ("sweep.json" :> File("json", [schedulers |-> <<"rr", "hybrid_embi">>,
                                        seeds |-> <<1, 2>>, log_freq |-> 1, ticks |-> 2]))
      @@ ("halfway.json" :> File("json", [workloads |-> <<"poisson", "lock_contention">>,
                                          num_locks |-> 0, binary_log |-> TRUE,
                                          log_freq |-> 1]))
      @@ ("twice.json" :> File("json", [seeds |-> <<5, 5>>, log_freq |-> 1]))
      @@ ("high.json" :> File("json", [arrival_rates |-> <<50, 150>>]))
      @@ ("none.json" :> File("json", [seeds |-> <<>>]))

MCMenu ==
    << <<"--help">>, <<"--bogus">>, <<"--seed">>,
       <<"--scheduler", "hybrid_embi">>, <<"--scheduler", "lottery">>, <<"--no-clip">>,
       <<"--workload", "lock_contention">>, <<"--num-locks", 0>>,
       <<"--workload", "heavy_tail">>, <<"--pareto-shape", 100>>,
       <<"--workload", "trace">>, <<"--trace", "good.csv">>,
       <<"--profile", "database">>, <<"--ticks", 0>>, <<"--ticks", 4>>,
       <<"--warmup-ticks", 1>>, <<"--log-freq", -1>>, <<"--log-freq", 2>>,
       <<"--arrival-rate", NotANumber>>, <<"--arrival-rate", 100>>,
       <<"--arrival-rate-asymmetric", <<30, 90>> >>,
       <<"--null-log">>, <<"--binary-log">>, <<"--output", <<"b">> >>,
       <<"--config", "base.yaml">>, <<"--config", "bursts.json">>,
       <<"--config", "bad.json">>, <<"--config", "notes.txt">>,
       <<"--config", "locks.yaml">>,
       <<"--experiment", "sweep.json">>, <<"--experiment", "halfway.json">>,
       <<"--experiment", "twice.json">>, <<"--experiment", "high.json">>,
       <<"--experiment", "none.json">>, <<"--experiment", "base.yaml">>,
       <<"--alpha-sweep", <<10, 20>> >>, <<"--alpha-sweep", <<10, 100>> >>,
       <<"--alpha-sweep", <<10, 12>> >> >>

\* Every pair of settings for single runs, but one flag without a value.
SingleRuns == {w \in BoundedSeq(1 .. 29, 2) : \A k \in DOMAIN w : w[k] = 3 => k = Len(w)}

\* Every experiment file, alone and before or after an --alpha-sweep; the values
\* of the last sweep are printed alike.
Sweeps == {<<k>> : k \in 30 .. 38}
            \cup UNION {{<<i, k>>, <<k, i>>} : i \in 36 .. 37, k \in {31, 34}}

MCLines == SingleRuns \cup Sweeps

MCTraceFiles == {"good.csv"}

=============================================================================
