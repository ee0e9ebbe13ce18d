-------------------------- MODULE Experiment_proofs --------------------------
(***************************************************************************)
(* Proofs about main(), CLI::parse and Experiment::run, for any menu of    *)
(* settings, any command lines, any configuration files, any buffer sizes  *)
(* and any failures and kills: which configurations are run, what a flag   *)
(* means, which runs a sweep has, and what the disk holds.                 *)
(*                                                                         *)
(* IInv is the inductive invariant.  Its parts say what the program is     *)
(* doing for which command (CommandInv, ProgressInv), what the logger has  *)
(* been given (LoopInv), and who has written what is on the disk (LogsInv, *)
(* TornInv, FilesInv, WrittenInv, KeptInv, ComparisonInv, EndInv).         *)
(***************************************************************************)
EXTENDS Experiment, Sums_proofs, TLAPS

-----------------------------------------------------------------------------
(* What parse() and expand() return.                                       *)

LEMMA FinishedIsValid ==
    ASSUME NEW result,
           Finished(result).status = "ok", ~Finished(result).experiment_mode
    PROVE  Valid(Finished(result).config)
<1> DEFINE config == [result.config EXCEPT !.warmup_ticks = Warmup(result.config.ticks, @)]
           ends(status, final) == [status |-> status, config |-> final,
                                   exp_config |-> result.exp_config,
                                   experiment_mode |-> result.experiment_mode]
           helped  == result.status = "help"
           sweeps  == result.status = "parsing" /\ result.experiment_mode
           runs    == result.status = "parsing" /\ ~result.experiment_mode /\ Valid(config)
<1>1. Finished(result) =
        CASE helped -> ends("help", result.config)
          [] sweeps -> ends("ok", result.config)
          [] runs   -> ends("ok", config)
          [] OTHER  -> ends("error", config)
  BY DEF Finished
<1> HIDE DEF config
<1>2. CASE helped
  BY <1>1, <1>2
<1>3. CASE sweeps
  BY <1>1, <1>3
<1>4. CASE runs
  BY <1>1, <1>4
<1>5. CASE ~helped /\ ~sweeps /\ ~runs
  BY <1>1, <1>5
<1> QED BY <1>2, <1>3, <1>4, <1>5

LEMMA ParseIsValid ==
    ASSUME NEW w, Parse(w).status = "ok", ~Parse(w).experiment_mode
    PROVE  Valid(Parse(w).config)
<1> DEFINE turns  == CHOOSE turns : turns = [k \in 0 .. Len(w) |->
                        IF k = 0 THEN Parsing ELSE ParseSetting(turns[k - 1], w[k])]
           result == turns[Len(w)]
<1>1. Parse(w) = Finished(result)
  BY Zenon DEF Parse
<1> HIDE DEF result
<1> QED BY <1>1, FinishedIsValid

LEMMA ExpandIsValid ==
    ASSUME NEW exp, Expands(exp), NEW k \in DOMAIN Expand(exp)
    PROVE  Valid(Expand(exp)[k])
BY DEF Expands, Expand

-----------------------------------------------------------------------------
(* Only valid runs.                                                        *)

\* The steps at which there is a run to make, or one has been made.
Running == {"build", "loop", "write", "compare"}

ValidConfigs == \A k \in DOMAIN configs : Valid(configs[k])

ValidRuns == pc \in Running => ValidConfigs

LEMMA ValidRunsStep == ValidRuns /\ [Next]_vars => ValidRuns'
<1> SUFFICES ASSUME ValidRuns, [Next]_vars, pc' \in Running
             PROVE  ValidConfigs'
  BY DEF ValidRuns
<1>0. ASSUME pc \in Running, configs' = configs
      PROVE  ValidConfigs'
  BY <1>0 DEF ValidRuns, ValidConfigs
<1>1. CASE Start
  BY <1>1 DEF Start, Running
<1>2. CASE ParseCommandLine
  <2> DEFINE result == Parse(Settings)
  <2>1. /\ result.status = "ok"
        /\ ~result.experiment_mode
        /\ configs' = <<result.config>>
    BY <1>2 DEF ParseCommandLine, Exit, Running
  <2>2. Valid(result.config)
    BY <2>1, ParseIsValid
  <2> QED BY <2>1, <2>2 DEF ValidConfigs
<1>3. CASE ExpandSweep
  <2>1. Expands(cli.exp_config) /\ configs' = Expand(cli.exp_config)
    BY <1>3 DEF ExpandSweep, Exit, Running
  <2> QED BY <2>1, ExpandIsValid DEF ValidConfigs
<1>4. CASE BuildRun
  BY <1>0, <1>4 DEF BuildRun, Running
<1>5. CASE SimulateTick
  BY <1>0, <1>5 DEF SimulateTick, Running
<1>6. CASE EndLoop
  BY <1>0, <1>6 DEF EndLoop, Running
<1>7. CASE WriteOutput \/ SkipOutput
  BY <1>0, <1>7 DEF WriteOutput, SkipOutput, Running
<1>8. CASE FinishRun
  BY <1>0, <1>8 DEF FinishRun, Running
<1>9. CASE WriteComparison
  BY <1>0, <1>9 DEF WriteComparison, Running
<1>10. CASE \/ BuildThrows \/ LoopThrows \/ DirectoryThrows \/ OutputThrows
            \/ NothingToCompare \/ ComparisonThrows \/ Kill
  BY <1>10 DEF BuildThrows, LoopThrows, DirectoryThrows, OutputThrows,
               NothingToCompare, ComparisonThrows, Kill, Exit, Running
<1>11. CASE UNCHANGED vars
  BY <1>0, <1>11 DEF vars
<1> QED BY <1>1, <1>2, <1>3, <1>4, <1>5, <1>6, <1>7, <1>8, <1>9, <1>10, <1>11 DEF Next

\* No run is made of a configuration that does not pass validate(), whether it
\* comes from the flags, a file or a sweep, and a sweep with an invalid
\* configuration makes none (CLI::parse, ExperimentConfig::expand).
THEOREM ValidatedBeforeRun == Spec => []OnlyValidRuns
<1>1. Init => ValidRuns
  BY DEF Init, ValidRuns, Running
<1>2. ValidRuns => OnlyValidRuns
  BY DEF ValidRuns, ValidConfigs, OnlyValidRuns, Running
<1> QED BY <1>1, <1>2, ValidRunsStep, PTL DEF Spec

-----------------------------------------------------------------------------
(* The logger: what it has been given is in its stream and its buffer.     *)

Rows == Seq(Nat \X Nat)

\* What an open logger has been given.
Given(log) == log.stream \o log.buffer

OpenLog(log) == log \in Logger /\ log.kind # "null" /\ ~log.closed /\ log.flushed <= Len(log.stream)

LEMMA GivenType == ASSUME NEW log, OpenLog(log) PROVE Given(log) \in Rows
BY DEF OpenLog, Logger, Given, Rows

LEMMA WriteAppends ==
    ASSUME NEW log, OpenLog(log), NEW row \in Nat \X Nat
    PROVE  OpenLog(Write(log, row)) /\ Given(Write(log, row)) = Append(Given(log), row)
<1> DEFINE more == Append(log.buffer, row)
           all  == log.stream \o more
           longer  == [log EXCEPT !.buffer = more]
           flushed == [log EXCEPT !.stream = all, !.buffer = <<>>]
<1>1. /\ log.stream \in Seq(Nat \X Nat) /\ log.buffer \in Seq(Nat \X Nat)
      /\ log = [kind |-> log.kind, cap |-> log.cap, buffer |-> log.buffer,
                stream |-> log.stream, flushed |-> log.flushed, closed |-> log.closed]
      /\ log.kind \in {"csv", "binary", "null"} /\ log.cap \in Nat \ {0}
      /\ log.flushed \in Nat /\ log.closed \in BOOLEAN
  BY DEF OpenLog, Logger
<1>2. more \in Seq(Nat \X Nat)
  BY <1>1
<1>3. all \in Seq(Nat \X Nat) /\ <<>> \in Seq(Nat \X Nat) /\ all \o <<>> = all
      /\ Len(all) >= Len(log.stream) /\ all = Append(Given(log), row)
  BY <1>1, <1>2 DEF Given
<1>4. Write(log, row) = IF Len(more) >= log.cap THEN flushed ELSE longer
  <2>1. [[log EXCEPT !.buffer = more] EXCEPT !.stream = @ \o more, !.buffer = <<>>] = flushed
    BY <1>1
  <2>2. longer.buffer = more
    BY <1>1
  <2>3. Append(log.buffer, row) = more
    OBVIOUS
  <2>4. ~(log.closed \/ log.kind = "null")
    BY DEF OpenLog
  <2>5. FlushBuffer(longer) = flushed
    BY <2>1, <2>2 DEF FlushBuffer
  <2> QED BY <2>2, <2>4, <2>5 DEF Write
<1> HIDE DEF more, all
<1>5. log = [kind |-> log.kind, cap |-> log.cap, buffer |-> log.buffer,
             stream |-> log.stream, flushed |-> log.flushed, closed |-> log.closed]
  BY <1>1
<1>6. longer = [kind |-> log.kind, cap |-> log.cap, buffer |-> more,
                stream |-> log.stream, flushed |-> log.flushed, closed |-> log.closed]
  BY <1>5
<1>7. flushed = [kind |-> log.kind, cap |-> log.cap, buffer |-> <<>>,
                 stream |-> all, flushed |-> log.flushed, closed |-> log.closed]
  <2> DEFINE given == [log EXCEPT !.stream = all]
  <2>1. given = [kind |-> log.kind, cap |-> log.cap, buffer |-> log.buffer,
                 stream |-> all, flushed |-> log.flushed, closed |-> log.closed]
    BY <1>5
  <2>2. flushed = [given EXCEPT !.buffer = <<>>]
    OBVIOUS
  <2> HIDE DEF given, flushed
  <2> QED BY <2>1, <2>2
<1> HIDE DEF longer, flushed
<1>8. OpenLog(longer) /\ longer.stream = log.stream /\ longer.buffer = more
  BY <1>1, <1>2, <1>6 DEF OpenLog, Logger
<1>9. OpenLog(flushed) /\ flushed.stream = all /\ flushed.buffer = <<>>
  BY <1>1, <1>3, <1>7 DEF OpenLog, Logger
<1>10. Given(longer) = all
  BY <1>8 DEF Given, all
<1>11. Given(flushed) = all
  BY <1>3, <1>9 DEF Given
<1> QED BY <1>3, <1>4, <1>8, <1>9, <1>10, <1>11

\* Flushing and closing leave nothing in the buffer.
LEMMA FlushGives ==
    ASSUME NEW log, OpenLog(log)
    PROVE  /\ OpenLog(Flush(log)) /\ Given(Flush(log)) = Given(log)
           /\ Flush(log).stream = Given(log)
           /\ Flush(log).kind = log.kind
           /\ Close(log).stream = Given(log)
<1> DEFINE all == log.stream \o log.buffer
<1>1. /\ log.stream \in Seq(Nat \X Nat) /\ log.buffer \in Seq(Nat \X Nat)
      /\ log = [kind |-> log.kind, cap |-> log.cap, buffer |-> log.buffer,
                stream |-> log.stream, flushed |-> log.flushed, closed |-> log.closed]
  BY DEF OpenLog, Logger
<1>2. all \in Seq(Nat \X Nat) /\ <<>> \in Seq(Nat \X Nat) /\ Len(all) \in Nat /\ all \o <<>> = all
  BY <1>1
<1>3. Flush(log) = [kind |-> log.kind, cap |-> log.cap, buffer |-> <<>>,
                    stream |-> all, flushed |-> Len(all), closed |-> log.closed]
  BY <1>1 DEF Flush, FlushBuffer, OpenLog
<1> HIDE DEF all
<1>4. OpenLog(Flush(log))
  BY <1>2, <1>3 DEF OpenLog, Logger
<1>5. Flush(log).stream = all /\ Flush(log).buffer = <<>> /\ Flush(log).kind = log.kind
  BY <1>3
<1>6. Close(log).stream = Flush(log).stream
  BY <1>3 DEF Close
<1>7. all = Given(log)
  BY DEF all, Given
<1> QED BY <1>2, <1>4, <1>5, <1>6, <1>7 DEF Given

LEMMA AppendConcat ==
    ASSUME NEW S, NEW a \in Seq(S), NEW b \in Seq(S), NEW x \in S
    PROVE  Append(a \o b, x) = a \o Append(b, x)
OBVIOUS

LEMMA RowsOfTickGrow ==
    ASSUME NEW t \in Nat
    PROVE  /\ RowsOfTick(t, 0) = <<>>
           /\ \A n \in Nat : /\ RowsOfTick(t, n) \in Rows
                             /\ Len(RowsOfTick(t, n)) = n
                             /\ RowsOfTick(t, n + 1) = Append(RowsOfTick(t, n), <<t, n>>)
<1>1. RowsOfTick(t, 0) = <<>>
  BY DEF RowsOfTick
<1> SUFFICES ASSUME NEW n \in Nat
             PROVE  /\ RowsOfTick(t, n) \in Rows
                    /\ Len(RowsOfTick(t, n)) = n
                    /\ RowsOfTick(t, n + 1) = Append(RowsOfTick(t, n), <<t, n>>)
  BY <1>1
<1> DEFINE fewer == RowsOfTick(t, n)
<1>2. fewer = [k \in 1 .. n |-> <<t, k - 1>>]
  BY DEF RowsOfTick
<1>3. fewer \in Seq(Nat \X Nat) /\ Len(fewer) = n
  BY <1>2
<1>4. \A k \in 1 .. n : fewer[k] = <<t, k - 1>>
  BY <1>2
<1> HIDE DEF fewer
<1>5. Append(fewer, <<t, n>>) = [k \in 1 .. n + 1 |-> <<t, k - 1>>]
  <2> DEFINE more == Append(fewer, <<t, n>>)
  <2>1. more \in Seq(Nat \X Nat) /\ Len(more) = n + 1
    BY <1>3
  <2>2. \A k \in 1 .. n + 1 : more[k] = IF k <= n THEN fewer[k] ELSE <<t, n>>
    BY <1>3
  <2>3. more = [k \in 1 .. n + 1 |-> more[k]]
    BY <2>1
  <2> HIDE DEF more
  <2>4. ASSUME NEW k \in 1 .. n + 1 PROVE more[k] = <<t, k - 1>>
    <3>1. CASE k <= n
      BY <1>4, <2>2, <3>1
    <3>2. CASE k = n + 1
      BY <2>2, <3>2
    <3> QED BY <3>1, <3>2
  <2>5. more = [k \in 1 .. n + 1 |-> <<t, k - 1>>]
    BY <2>3, <2>4
  <2> QED BY <2>5 DEF more
<1> QED BY <1>3, <1>5 DEF RowsOfTick, Rows, fewer

\* The rows of a tick are written one after the other.
LEMMA WriteTickUnfolds ==
    ASSUME NEW log, NEW t \in Nat, NEW n \in Nat
    PROVE  \E g : /\ g[0] = log
                  /\ \A k \in 1 .. n : g[k] = Write(g[k - 1], <<t, k - 1>>)
                  /\ WriteTick(log, t, n) = g[n]
<1> DEFINE rows == RowsOfTick(t, n)
           Writes(g, j) == g = [k \in 0 .. j |-> IF k = 0 THEN log
                                                 ELSE Write(g[k - 1], rows[k])]
           written == CHOOSE g : Writes(g, n)
<1>1. WriteTick(log, t, n) = written[n]
  BY DEF WriteTick
<1> HIDE DEF rows
<1>2. \E g : Writes(g, n)
  <2> DEFINE P == {j \in 0 .. n : \E g : Writes(g, j)}
  <2>1. 0 \in P
    <3>1. Writes([k \in 0 .. 0 |-> log], 0)
      OBVIOUS
    <3> HIDE DEF Writes
    <3> QED BY <3>1
  <2>2. ASSUME NEW j \in 0 + 1 .. n, j - 1 \in P PROVE j \in P
    <3> PICK g : Writes(g, j - 1)
      BY <2>2
    <3> DEFINE last == Write(g[j - 1], rows[j])
               h == [k \in 0 .. j |-> IF k = j THEN last ELSE g[k]]
    <3>1. \A k \in 0 .. j - 1 : g[k] = IF k = 0 THEN log ELSE Write(g[k - 1], rows[k])
      OBVIOUS
    <3>2. j - 1 \in 0 .. j - 1 /\ j \in Int /\ j # 0
      OBVIOUS
    <3> HIDE DEF last, Writes
    <3>3. h[j] = last /\ \A k \in 0 .. j - 1 : h[k] = g[k]
      OBVIOUS
    <3>4. h = [k \in 0 .. j |-> h[k]]
      OBVIOUS
    <3> HIDE DEF h
    <3>5. ASSUME NEW k \in 0 .. j
          PROVE  h[k] = IF k = 0 THEN log ELSE Write(h[k - 1], rows[k])
      <4>1. CASE k = j
        BY <3>2, <3>3, <4>1 DEF last
      <4>2. CASE k # j
        <5>1. k \in 0 .. j - 1 /\ (k # 0 => k - 1 \in 0 .. j - 1)
          BY <4>2
        <5> QED BY <3>1, <3>3, <5>1
      <4> QED BY <4>1, <4>2
    <3>6. Writes(h, j)
      BY <3>4, <3>5 DEF Writes
    <3> QED BY <3>6
  <2> HIDE DEF P
  <2>3. \A k \in 0 .. n : k \in P
    BY <2>1, <2>2, IntervalInduction
  <2> QED BY <2>3 DEF P
<1>3. Writes(written, n)
  <2> HIDE DEF Writes
  <2> QED BY <1>2
<1> HIDE DEF written
<1>4. written[0] = log
  BY <1>3
<1>5. ASSUME NEW k \in 1 .. n PROVE written[k] = Write(written[k - 1], <<t, k - 1>>)
  <2>1. rows[k] = <<t, k - 1>>
    BY DEF rows, RowsOfTick
  <2>2. k \in 0 .. n /\ k # 0
    OBVIOUS
  <2> QED BY <1>3, <2>1, <2>2
<1> HIDE DEF Writes
<1> QED BY <1>1, <1>4, <1>5

\* Writing a tick gives the logger the rows of the tick.
LEMMA WriteTickAppends ==
    ASSUME NEW log, OpenLog(log), NEW t \in Nat, NEW n \in Nat
    PROVE  /\ OpenLog(WriteTick(log, t, n))
           /\ Given(WriteTick(log, t, n)) = Given(log) \o RowsOfTick(t, n)
<1>1. PICK written : /\ written[0] = log
                     /\ \A k \in 1 .. n : written[k] = Write(written[k - 1], <<t, k - 1>>)
                     /\ WriteTick(log, t, n) = written[n]
  BY WriteTickUnfolds
<1> DEFINE P == {k \in 0 .. n : /\ OpenLog(written[k])
                                /\ Given(written[k]) = Given(log) \o RowsOfTick(t, k)}
<1>5. 0 \in P
  <2>1. Given(log) \o <<>> = Given(log)
    BY GivenType DEF Rows
  <2>2. 0 \in 0 .. n /\ written[0] = log
    BY <1>1
  <2>3. RowsOfTick(t, 0) = <<>>
    BY RowsOfTickGrow
  <2> QED BY <2>1, <2>2, <2>3
<1>6. ASSUME NEW k \in 0 + 1 .. n, k - 1 \in P PROVE k \in P
  <2>1. k - 1 \in Nat /\ k \in 0 .. n /\ (k - 1) + 1 = k /\ k # 0
    OBVIOUS
  <2>2. OpenLog(written[k - 1])
        /\ Given(written[k - 1]) = Given(log) \o RowsOfTick(t, k - 1)
    BY <1>6
  <2>4. written[k] = Write(written[k - 1], <<t, k - 1>>)
    BY <1>1, <2>1
  <2>5. <<t, k - 1>> \in Nat \X Nat
    BY <2>1
  <2>6. OpenLog(written[k]) /\ Given(written[k]) = Append(Given(written[k - 1]), <<t, k - 1>>)
    BY <2>2, <2>4, <2>5, WriteAppends
  <2>7. /\ RowsOfTick(t, k - 1) \in Rows
        /\ RowsOfTick(t, k) = Append(RowsOfTick(t, k - 1), <<t, k - 1>>)
    BY <2>1, RowsOfTickGrow
  <2>8. Given(log) \in Rows
    BY GivenType
  <2>9. Append(Given(log) \o RowsOfTick(t, k - 1), <<t, k - 1>>)
          = Given(log) \o Append(RowsOfTick(t, k - 1), <<t, k - 1>>)
    <3> DEFINE S == Nat \X Nat
               a == Given(log)
               b == RowsOfTick(t, k - 1)
               x == <<t, k - 1>>
    <3>1. a \in Seq(S) /\ b \in Seq(S) /\ x \in S
      BY <2>5, <2>7, <2>8 DEF Rows
    <3> HIDE DEF S, a, b, x
    <3>2. Append(a \o b, x) = a \o Append(b, x)
      BY <3>1, AppendConcat
    <3> QED BY <3>2 DEF a, b, x
  <2> QED BY <2>1, <2>2, <2>6, <2>7, <2>9
<1> HIDE DEF P
<1>7. \A k \in 0 .. n : k \in P
  BY <1>5, <1>6, IntervalInduction
<1>8. n \in P
  BY <1>7
<1> QED BY <1>1, <1>8 DEF P

LEMMA WriteTickNull ==
    ASSUME NEW log, log.kind = "null", NEW t \in Nat, NEW n \in Nat
    PROVE  WriteTick(log, t, n) = log
<1>1. PICK written : /\ written[0] = log
                     /\ \A k \in 1 .. n : written[k] = Write(written[k - 1], <<t, k - 1>>)
                     /\ WriteTick(log, t, n) = written[n]
  BY WriteTickUnfolds
<1> DEFINE P == {k \in 0 .. n : written[k] = log}
<1>2. 0 \in P
  BY <1>1
<1>3. ASSUME NEW k \in 0 + 1 .. n, k - 1 \in P PROVE k \in P
  <2>1. written[k] = Write(log, <<t, k - 1>>) /\ k \in 0 .. n
    BY <1>1, <1>3
  <2> QED BY <2>1 DEF Write
<1> HIDE DEF P
<1>4. \A k \in 0 .. n : k \in P
  BY <1>2, <1>3, IntervalInduction
<1>5. n \in P
  BY <1>4
<1> QED BY <1>1, <1>5 DEF P

-----------------------------------------------------------------------------
(* The rows of the ticks before t.                                         *)

\* The rows of the ticks before u, given those of the ticks before u - 1.
WithTick(c, rows, u) ==
    IF (u - 1) % c.log_freq = 0 THEN rows \o RowsOfTick(u - 1, c.num_processes) ELSE rows

Builds(c, g, t) == g = [u \in 0 .. t |-> IF u = 0 THEN <<>> ELSE WithTick(c, g[u - 1], u)]

LEMMA RowsExist == ASSUME NEW c, NEW t \in Nat PROVE \E g : Builds(c, g, t)
<1> DEFINE P == {j \in 0 .. t : \E g : Builds(c, g, j)}
<1>1. 0 \in P
  <2>1. Builds(c, [k \in 0 .. 0 |-> <<>>], 0)
    BY DEF Builds
  <2> QED BY <2>1
<1>2. ASSUME NEW j \in 0 + 1 .. t, j - 1 \in P PROVE j \in P
  <2> PICK g : Builds(c, g, j - 1)
    BY <1>2
  <2> DEFINE last == WithTick(c, g[j - 1], j)
             h == [k \in 0 .. j |-> IF k = j THEN last ELSE g[k]]
  <2>1. \A k \in 0 .. j - 1 : g[k] = IF k = 0 THEN <<>> ELSE WithTick(c, g[k - 1], k)
    BY DEF Builds
  <2>2. j - 1 \in 0 .. j - 1 /\ j \in Int /\ j # 0
    OBVIOUS
  <2> HIDE DEF last
  <2>3. h[j] = last /\ \A k \in 0 .. j - 1 : h[k] = g[k]
    OBVIOUS
  <2>4. h = [k \in 0 .. j |-> h[k]]
    OBVIOUS
  <2> HIDE DEF h
  <2>5. ASSUME NEW k \in 0 .. j
        PROVE  h[k] = IF k = 0 THEN <<>> ELSE WithTick(c, h[k - 1], k)
    <3>1. CASE k = j
      BY <2>2, <2>3, <3>1 DEF last
    <3>2. CASE k # j
      <4>1. k \in 0 .. j - 1 /\ (k # 0 => k - 1 \in 0 .. j - 1)
        BY <3>2
      <4> QED BY <2>1, <2>3, <4>1
    <3> QED BY <3>1, <3>2
  <2>6. Builds(c, h, j)
    BY <2>4, <2>5 DEF Builds
  <2> QED BY <2>6
<1> HIDE DEF P
<1>3. \A k \in 0 .. t : k \in P
  BY <1>1, <1>2, IntervalInduction
<1> QED BY <1>3 DEF P

LEMMA RowsUnique ==
    ASSUME NEW c, NEW t \in Nat, NEW u \in Nat, t <= u,
           NEW g, NEW h, Builds(c, g, t), Builds(c, h, u)
    PROVE  g[t] = h[t]
<1>1. /\ \A k \in 0 .. t : g[k] = IF k = 0 THEN <<>> ELSE WithTick(c, g[k - 1], k)
      /\ \A k \in 0 .. u : h[k] = IF k = 0 THEN <<>> ELSE WithTick(c, h[k - 1], k)
  BY DEF Builds
<1> DEFINE P == {k \in 0 .. t : g[k] = h[k]}
<1>2. 0 \in P
  BY <1>1
<1>3. ASSUME NEW k \in 0 + 1 .. t, k - 1 \in P PROVE k \in P
  <2>1. k \in 0 .. t /\ k \in 0 .. u /\ k # 0
    OBVIOUS
  <2>2. g[k - 1] = h[k - 1]
    BY <1>3
  <2> QED BY <1>1, <2>1, <2>2
<1> HIDE DEF P
<1>4. \A k \in 0 .. t : k \in P
  BY <1>2, <1>3, IntervalInduction
<1>5. t \in P
  BY <1>4
<1> QED BY <1>5 DEF P

\* What a run of a configuration counts with.
Numbers(c) == c.ticks \in Nat /\ c.num_processes \in Nat /\ c.log_freq \in Nat

LEMMA RowsBeforeGrow ==
    ASSUME NEW c, Numbers(c), c.log_freq >= 1
    PROVE  /\ RowsBefore(c, 0) = <<>>
           /\ \A t \in Nat : /\ RowsBefore(c, t) \in Rows
                             /\ RowsBefore(c, t + 1) = WithTick(c, RowsBefore(c, t), t + 1)
<1> DEFINE G(t) == CHOOSE g : Builds(c, g, t)
<1>1. ASSUME NEW t \in Nat PROVE Builds(c, G(t), t)
  <2>1. \E g : Builds(c, g, t)
    BY RowsExist
  <2> QED BY <2>1
<1>2. ASSUME NEW t \in Nat PROVE RowsBefore(c, t) = G(t)[t]
  BY Zenon DEF RowsBefore, Builds, WithTick
<1> HIDE DEF G
<1>3. RowsBefore(c, 0) = <<>>
  <2>1. 0 \in Nat /\ 0 \in 0 .. 0
    OBVIOUS
  <2>2. Builds(c, G(0), 0)
    BY <1>1
  <2>3. G(0)[0] = <<>>
    BY <2>1, <2>2 DEF Builds
  <2> QED BY <1>2, <2>1, <2>3
<1>4. ASSUME NEW t \in Nat
      PROVE  RowsBefore(c, t + 1) = WithTick(c, RowsBefore(c, t), t + 1)
  <2>1. Builds(c, G(t), t) /\ Builds(c, G(t + 1), t + 1) /\ t + 1 \in Nat /\ t <= t + 1
    BY <1>1
  <2>2. G(t)[t] = G(t + 1)[t]
    BY <2>1, RowsUnique
  <2>3. t + 1 \in 0 .. t + 1 /\ t + 1 # 0 /\ (t + 1) - 1 = t
    OBVIOUS
  <2>4. G(t + 1)[t + 1] = WithTick(c, G(t + 1)[t], t + 1)
    BY <2>1, <2>3 DEF Builds
  <2> QED BY <1>2, <2>1, <2>2, <2>4
<1> DEFINE P == {t \in Nat : RowsBefore(c, t) \in Rows}
<1>5. 0 \in P
  <2>1. <<>> \in Rows
    BY DEF Rows
  <2> QED BY <1>3, <2>1
<1>6. ASSUME NEW t \in Nat, t \in P PROVE t + 1 \in P
  <2>1. RowsOfTick(t, c.num_processes) \in Rows
    BY RowsOfTickGrow DEF Numbers
  <2>2. RowsBefore(c, t) \in Rows
    BY <1>6
  <2>3. (t + 1) - 1 = t
    OBVIOUS
  <2>4. RowsBefore(c, t) \o RowsOfTick(t, c.num_processes) \in Rows
    BY <2>1, <2>2 DEF Rows
  <2>5. WithTick(c, RowsBefore(c, t), t + 1) \in Rows
    BY <2>2, <2>3, <2>4 DEF WithTick
  <2> QED BY <1>4, <2>5
<1>7. \A t \in Nat : t \in P
  <2> HIDE DEF P
  <2> QED BY <1>5, <1>6, NatSetInduction
<1> QED BY <1>3, <1>4, <1>7

-----------------------------------------------------------------------------
(* Prefixes.                                                               *)

LEMMA Prefix ==
    ASSUME NEW S, NEW s \in Seq(S), NEW t \in Seq(S)
    PROVE  IsPrefix(s, t) <=> Len(s) <= Len(t) /\ \A k \in 1 .. Len(s) : s[k] = t[k]
<1>1. SubSeq(s, 1, Len(s)) = s
  OBVIOUS
<1>2. CASE Len(s) <= Len(t)
  <2> DEFINE start == SubSeq(t, 1, Len(s))
  <2>1. start \in Seq(S) /\ Len(start) = Len(s) /\ \A k \in 1 .. Len(s) : start[k] = t[k]
    BY <1>2
  <2>2. start = s <=> \A k \in 1 .. Len(s) : s[k] = t[k]
    <3> HIDE DEF start
    <3>1. start = [k \in 1 .. Len(s) |-> start[k]] /\ s = [k \in 1 .. Len(s) |-> s[k]]
      BY <2>1
    <3> QED BY <2>1, <3>1
  <2> QED BY <1>1, <1>2, <2>2 DEF IsPrefix
<1>3. CASE ~(Len(s) <= Len(t))
  BY <1>3 DEF IsPrefix
<1> QED BY <1>2, <1>3

LEMMA PrefixReflexive == ASSUME NEW S, NEW s \in Seq(S) PROVE IsPrefix(s, s)
BY Prefix

LEMMA PrefixOfConcat ==
    ASSUME NEW S, NEW s \in Seq(S), NEW t \in Seq(S), NEW u \in Seq(S), IsPrefix(s, t)
    PROVE  IsPrefix(s, t \o u)
<1>1. Len(s) <= Len(t) /\ \A k \in 1 .. Len(s) : s[k] = t[k]
  BY Prefix
<1>2. t \o u \in Seq(S) /\ Len(t \o u) >= Len(t) /\ \A k \in 1 .. Len(t) : (t \o u)[k] = t[k]
  OBVIOUS
<1>3. Len(s) <= Len(t \o u) /\ \A k \in 1 .. Len(s) : s[k] = (t \o u)[k]
  BY <1>1, <1>2
<1> QED BY <1>2, <1>3, Prefix

\* The rows written by any tick are the first rows of the run.
LEMMA RowsBeforePrefix ==
    ASSUME NEW c, Numbers(c), c.log_freq >= 1, NEW t \in Nat, NEW u \in Nat, t <= u,
           NEW rows \in Rows, IsPrefix(rows, RowsBefore(c, t))
    PROVE  IsPrefix(rows, RowsBefore(c, u))
<1> DEFINE P == {k \in t .. u : IsPrefix(rows, RowsBefore(c, k))}
<1>1. t \in P
  OBVIOUS
<1>2. ASSUME NEW k \in t + 1 .. u, k - 1 \in P PROVE k \in P
  <2>1. k - 1 \in Nat /\ (k - 1) + 1 = k /\ k \in t .. u
    OBVIOUS
  <2>2. RowsBefore(c, k - 1) \in Rows
        /\ RowsBefore(c, k) = WithTick(c, RowsBefore(c, k - 1), k)
    BY <2>1, RowsBeforeGrow
  <2>3. IsPrefix(rows, RowsBefore(c, k - 1))
    BY <1>2
  <2>4. RowsOfTick(k - 1, c.num_processes) \in Rows
    BY <2>1, RowsOfTickGrow DEF Numbers
  <2>5. IsPrefix(rows, RowsBefore(c, k - 1) \o RowsOfTick(k - 1, c.num_processes))
    BY <2>2, <2>3, <2>4, PrefixOfConcat DEF Rows
  <2> QED BY <2>1, <2>2, <2>3, <2>5 DEF WithTick
<1> HIDE DEF P
<1>3. \A k \in t .. u : k \in P
  BY <1>1, <1>2, IntervalInduction
<1>4. u \in P
  BY <1>3
<1> QED BY <1>4 DEF P

\* What a flushed or a cut log holds.
LEMMA CutIsPrefix ==
    ASSUME NEW log, OpenLog(log), NEW left \in Surviving(log)
    PROVE  /\ left.rows \in Rows /\ IsPrefix(left.rows, Given(log))
           /\ left.torn \in BOOLEAN
           /\ left.torn => Len(left.rows) < Len(Given(log))
<1>1. PICK n \in log.flushed .. Len(log.stream), torn \in BOOLEAN :
         /\ left = [rows |-> SubSeq(log.stream, 1, n), torn |-> torn]
         /\ torn => n \in log.flushed .. Len(log.stream) - 1
  <2>1. /\ log.flushed \in Nat /\ log.stream \in Seq(Nat \X Nat)
    BY DEF OpenLog, Logger
  <2>2. \A n \in log.flushed .. Len(log.stream) - 1 : n \in log.flushed .. Len(log.stream)
    BY <2>1
  <2>3. \/ \E n \in log.flushed .. Len(log.stream) :
              left = [rows |-> SubSeq(log.stream, 1, n), torn |-> FALSE]
        \/ \E n \in log.flushed .. Len(log.stream) - 1 :
              left = [rows |-> SubSeq(log.stream, 1, n), torn |-> TRUE]
    BY DEF Surviving
  <2> QED BY <2>2, <2>3, Zenon
<1> DEFINE rows == SubSeq(log.stream, 1, n)
<1>2. log.stream \in Seq(Nat \X Nat) /\ log.buffer \in Seq(Nat \X Nat) /\ log.flushed \in Nat
  BY DEF OpenLog, Logger
<1>3. n \in 0 .. Len(log.stream)
  BY <1>1, <1>2
<1>4. rows \in Seq(Nat \X Nat) /\ Len(rows) = n
      /\ \A k \in 1 .. n : rows[k] = log.stream[k]
  BY <1>1, <1>2, <1>3
<1> HIDE DEF rows
<1>5. IsPrefix(rows, log.stream)
  <2>1. Len(rows) <= Len(log.stream) /\ \A k \in 1 .. Len(rows) : rows[k] = log.stream[k]
    BY <1>2, <1>3, <1>4
  <2> QED BY <1>2, <1>4, <2>1, Prefix
<1>6. IsPrefix(rows, Given(log))
  BY <1>2, <1>4, <1>5, PrefixOfConcat DEF Given
<1>7. left.rows = rows /\ left.torn = torn
  BY <1>1 DEF rows
<1>8. Len(Given(log)) = Len(log.stream) + Len(log.buffer) /\ Len(log.buffer) \in Nat
      /\ Len(log.stream) \in Nat
  BY <1>2 DEF Given
<1>9. torn => n < Len(Given(log))
  <2> SUFFICES ASSUME torn PROVE n < Len(Given(log))
    OBVIOUS
  <2> DEFINE given == Len(Given(log))
             stream == Len(log.stream)
             buffer == Len(log.buffer)
  <2>1. n \in log.flushed .. stream - 1
    BY <1>1
  <2>2. given = stream + buffer /\ buffer \in Nat /\ stream \in Nat /\ log.flushed \in Nat
    BY <1>2, <1>8
  <2> HIDE DEF given, stream, buffer
  <2>3. n < given
    BY <2>1, <2>2
  <2> QED BY <2>3 DEF given
<1> QED BY <1>4, <1>6, <1>7, <1>9 DEF Rows

-----------------------------------------------------------------------------
(* What a command line can make of a configuration.                        *)

NumberFields == {"ticks", "num_processes", "log_freq"}

ConfigOK(c) == DOMAIN c = DOMAIN Config /\ Numbers(c)

ExpOK(e) == /\ DOMAIN e = DOMAIN ExperimentConfig
            /\ Numbers(e)
            /\ \A f \in SequenceFields : IsSequence(e[f])

ResultOK(r) == /\ DOMAIN r = {"status", "config", "exp_config", "experiment_mode"}
               /\ r.experiment_mode \in BOOLEAN
               /\ ConfigOK(r.config)
               /\ ExpOK(r.exp_config)

LEMMA DefaultConfig ==
    /\ ConfigOK(Config)
    /\ NumberFields \cup {"warmup_ticks"} \subseteq DOMAIN Config
<1>1. Config.ticks = DefaultTicks /\ Config.num_processes = DefaultProcesses
      /\ Config.log_freq = 1
  BY DEF Config
<1>2. NumberFields \cup {"warmup_ticks"} \subseteq DOMAIN Config
  BY DEF Config, NumberFields
<1> QED BY <1>1, <1>2, ConfigurationAssumption DEF ConfigOK, Numbers

LEMMA DefaultExperiment ==
    /\ ExpOK(ExperimentConfig)
    /\ NumberFields \cup SequenceFields \subseteq DOMAIN ExperimentConfig
<1>1. ExperimentConfig.ticks = DefaultTicks
      /\ ExperimentConfig.num_processes = DefaultProcesses
      /\ ExperimentConfig.log_freq = 100
  BY DEF ExperimentConfig
<1>2. NumberFields \cup SequenceFields \subseteq DOMAIN ExperimentConfig
  BY DEF ExperimentConfig, NumberFields, SequenceFields
<1>3. ASSUME NEW f \in SequenceFields PROVE IsSequence(ExperimentConfig[f])
  <2>1. /\ ExperimentConfig.schedulers = <<"embi">>
        /\ ExperimentConfig.workloads = <<"poisson">>
        /\ ExperimentConfig.seeds = <<42>> /\ ExperimentConfig.arrival_rates = <<50>>
        /\ ExperimentConfig.arrival_rate_asymmetric_sweep = <<>>
        /\ ExperimentConfig.alphas = <<>> /\ ExperimentConfig.epsilon_totals = <<>>
        /\ ExperimentConfig.lambda_noise_stddevs = <<>>
        /\ ExperimentConfig.output_dir = <<"results">>
    BY DEF ExperimentConfig
  <2>2. /\ IsSequence(<<"embi">>) /\ IsSequence(<<"poisson">>) /\ IsSequence(<<42>>)
        /\ IsSequence(<<50>>) /\ IsSequence(<<>>) /\ IsSequence(<<"results">>)
    BY DEF IsSequence
  <2> QED BY <2>1, <2>2 DEF SequenceFields
<1> QED BY <1>1, <1>2, <1>3, ConfigurationAssumption DEF ExpOK, Numbers

LEMMA ConvertedNumber ==
    ASSUME NEW f \in NumberFields, NEW text, Spells(f, text), Convertible(f, text)
    PROVE  Converted(f, text) \in Nat
<1>1. f \in WholeFields /\ f \notin ListFields
  BY DEF NumberFields, WholeFields, ListFields
<1>2. text \in Int
  BY <1>1 DEF Spells, Convertible
<1>3. Converted(f, text) = text % MaxWord
  <2>1. f # "seeds"
    BY DEF NumberFields
  <2> QED BY <1>1, <2>1 DEF Converted
<1>4. MaxWord \in Nat \ {0}
  BY ConfigurationAssumption
<1>5. text % MaxWord \in Nat
  BY <1>2, <1>4
<1> QED BY <1>3, <1>5

LEMMA ConvertedSequence ==
    ASSUME NEW f \in SequenceFields, NEW text, Spells(f, text)
    PROVE  IsSequence(Converted(f, text))
<1>1. f \notin WholeFields
  BY DEF SequenceFields, WholeFields
<1>2. IsSequence(text)
  BY DEF Spells
<1>3. CASE f = "seeds"
  <2> DEFINE seeds == [k \in DOMAIN text |-> text[k] % MaxWord]
  <2>1. Converted(f, text) = seeds
    BY <1>1, <1>3 DEF Converted
  <2>2. Len(text) \in Nat /\ DOMAIN text = 1 .. Len(text)
    BY <1>2 DEF IsSequence
  <2>3. Len(seeds) = Len(text)
    BY <2>2
  <2>4. IsSequence(seeds)
    BY <2>2, <2>3 DEF IsSequence
  <2> QED BY <2>1, <2>4
<1>4. CASE f # "seeds"
  BY <1>1, <1>2, <1>4 DEF Converted
<1> QED BY <1>3, <1>4

\* The texts given for some fields are what they should be.
TextsOK(texts) == \A f \in DOMAIN texts : f \in NumberFields \cup SequenceFields => Spells(f, texts[f])

LEMMA AssignNumbers ==
    ASSUME NEW c, Numbers(c), NumberFields \subseteq DOMAIN c,
           NEW texts, TextsOK(texts), AllConvertible(texts)
    PROVE  Numbers(Assign(c, texts))
<1>1. ASSUME NEW f \in NumberFields PROVE Assign(c, texts)[f] \in Nat
  <2>1. c[f] \in Nat
    BY DEF Numbers, NumberFields
  <2>2. Assign(c, texts)[f] = IF f \in DOMAIN texts THEN Converted(f, texts[f]) ELSE c[f]
    BY DEF Assign
  <2>3. f \in DOMAIN texts => Spells(f, texts[f]) /\ Convertible(f, texts[f])
    BY DEF TextsOK, AllConvertible
  <2> QED BY <2>1, <2>2, <2>3, ConvertedNumber
<1> QED BY <1>1 DEF Numbers, NumberFields

LEMMA AssignConfig ==
    ASSUME NEW c, ConfigOK(c), NEW texts, TextsOK(texts), AllConvertible(texts)
    PROVE  ConfigOK(Assign(c, texts))
<1>1. NumberFields \subseteq DOMAIN c /\ Numbers(c)
  BY DefaultConfig DEF ConfigOK
<1>2. DOMAIN Assign(c, texts) = DOMAIN c
  BY DEF Assign
<1>3. Numbers(Assign(c, texts))
  BY <1>1, AssignNumbers
<1> QED BY <1>2, <1>3 DEF ConfigOK

LEMMA AssignExperiment ==
    ASSUME NEW e, ExpOK(e), NEW texts, TextsOK(texts), AllConvertible(texts)
    PROVE  ExpOK(Assign(e, texts))
<1>1. /\ NumberFields \subseteq DOMAIN e /\ SequenceFields \subseteq DOMAIN e
      /\ Numbers(e)
  BY DefaultExperiment DEF ExpOK
<1>2. DOMAIN Assign(e, texts) = DOMAIN e
  BY DEF Assign
<1>3. Numbers(Assign(e, texts))
  BY <1>1, AssignNumbers
<1>4. ASSUME NEW f \in SequenceFields PROVE IsSequence(Assign(e, texts)[f])
  <2>1. Assign(e, texts)[f] = IF f \in DOMAIN texts THEN Converted(f, texts[f]) ELSE e[f]
    BY <1>1 DEF Assign
  <2>2. f \in DOMAIN texts => Spells(f, texts[f])
    BY DEF TextsOK
  <2>3. IsSequence(e[f])
    BY DEF ExpOK
  <2> QED BY <2>1, <2>2, <2>3, ConvertedSequence
<1> QED BY <1>2, <1>3, <1>4 DEF ExpOK

LEMMA FileTexts ==
    ASSUME NEW name \in DOMAIN ConfigFiles, NEW fields
    PROVE  TextsOK(TextsFor(ConfigFiles[name].entries, fields))
<1> DEFINE entries == ConfigFiles[name].entries
           present(f) == {k \in DOMAIN KeysOf(f) : KeysOf(f)[k] \in DOMAIN entries}
           texts == TextsFor(entries, fields)
<1> SUFFICES ASSUME NEW f \in DOMAIN texts, f \in NumberFields \cup SequenceFields
             PROVE  Spells(f, texts[f])
  BY DEF TextsOK
<1>1. texts = [g \in {h \in fields : present(h) # {}} |-> entries[KeysOf(g)[Max(present(g))]]]
  BY DEF TextsFor
<1>2. present(f) # {} /\ texts[f] = entries[KeysOf(f)[Max(present(f))]]
  BY <1>1
<1>3. Max(present(f)) \in present(f)
  <2>1. DOMAIN KeysOf(f) \subseteq {1, 2}
    BY DEF KeysOf
  <2>2. present(f) \subseteq {1, 2}
    BY <2>1
  <2> DEFINE S == present(f)
  <2> HIDE DEF S
  <2>3. \E k \in S : \A j \in S : k >= j
    BY <1>2, <2>2 DEF S
  <2>4. Max(S) \in S
    BY <2>3 DEF Max
  <2> QED BY <2>4 DEF S
<1>4. f \in WholeFields \cup SequenceFields
  BY DEF NumberFields, WholeFields
<1>5. Spells(f, entries[KeysOf(f)[Max(present(f))]])
  BY <1>3, <1>4, ConfigurationAssumption
<1> QED BY <1>2, <1>5

LEMMA LoadOK == ASSUME NEW name, Loadable(name) PROVE ConfigOK(Load(name))
<1> DEFINE texts == TextsFor(ConfigFiles[name].entries, FieldsRead(ConfigFiles[name].ext))
<1>1. name \in DOMAIN ConfigFiles /\ AllConvertible(texts)
  BY DEF Loadable, Readable
<1>2. TextsOK(texts)
  BY <1>1, FileTexts
<1>3. Load(name) = Assign(Config, texts)
  BY DEF Load
<1> HIDE DEF texts
<1> QED BY <1>1, <1>2, <1>3, DefaultConfig, AssignConfig

LEMMA LoadExperimentOK ==
    ASSUME NEW name, ExperimentLoadable(name) PROVE ExpOK(LoadExperiment(name))
<1> DEFINE texts == ExperimentTexts(name)
<1>1. name \in DOMAIN ConfigFiles /\ AllConvertible(texts)
  BY DEF ExperimentLoadable, Readable
<1>2. TextsOK(texts)
  BY <1>1, FileTexts DEF ExperimentTexts
<1>3. LoadExperiment(name) = Assign(ExperimentConfig, texts)
  BY DEF LoadExperiment
<1> HIDE DEF texts
<1> QED BY <1>1, <1>2, <1>3, DefaultExperiment, AssignExperiment

\* One setting of the menu leaves a result as it should be.
LEMMA ParseSettingOK ==
    ASSUME NEW r, ResultOK(r), NEW i \in DOMAIN Menu
    PROVE  ResultOK(ParseSetting(r, Menu[i]))
<1> DEFINE setting == Menu[i]
           flag == setting[1]
<1>1. ASSUME NEW status PROVE ResultOK([r EXCEPT !.status = status])
  BY DEF ResultOK
<1>2. ASSUME TextsOK(TextsOf(setting)) PROVE ResultOK(OnField(r, setting))
  <2>1. CASE AllConvertible(TextsOf(setting))
    <3> DEFINE c == Assign(r.config, TextsOf(setting))
    <3>1. ConfigOK(c)
      BY <1>2, <2>1, AssignConfig DEF ResultOK
    <3>2. OnField(r, setting) = [r EXCEPT !.config = c]
      BY <2>1 DEF OnField
    <3> HIDE DEF c
    <3> QED BY <3>1, <3>2 DEF ResultOK
  <2>2. CASE ~AllConvertible(TextsOf(setting))
    BY <1>1, <2>2 DEF OnField
  <2> QED BY <2>1, <2>2
<1>3. ASSUME flag \in DOMAIN Switches PROVE ResultOK(OnField(r, setting))
  <2>1. TextsOf(setting) = Switches[flag]
    BY <1>3 DEF TextsOf
  <2>2. DOMAIN Switches[flag] \cap (NumberFields \cup SequenceFields) = {}
    BY <1>3 DEF Switches, NumberFields, SequenceFields
  <2>3. TextsOK(TextsOf(setting))
    BY <2>1, <2>2 DEF TextsOK
  <2> QED BY <1>2, <2>3
<1>4. ASSUME flag \in DOMAIN FieldOf, Len(setting) # 1, flag \notin DOMAIN Switches
      PROVE  ResultOK(OnField(r, setting))
  <2>1. Spells(FieldOf[flag], setting[2])
    BY <1>4, MenuAssumption
  <2>2. TextsOf(setting) = [f \in {FieldOf[flag]} |-> setting[2]]
    BY <1>4 DEF TextsOf
  <2>3. TextsOK(TextsOf(setting))
    BY <2>1, <2>2 DEF TextsOK
  <2> QED BY <1>2, <2>3
<1>5. ResultOK(OnConfigFile(r, setting[2]))
  <2>1. CASE Loadable(setting[2])
    <3> DEFINE c == Load(setting[2])
    <3>1. ConfigOK(c) /\ OnConfigFile(r, setting[2]) = [r EXCEPT !.config = c]
      BY <2>1, LoadOK DEF OnConfigFile
    <3> HIDE DEF c
    <3> QED BY <3>1 DEF ResultOK
  <2>2. CASE ~Loadable(setting[2])
    BY <1>1, <2>2 DEF OnConfigFile
  <2> QED BY <2>1, <2>2
<1>6. ResultOK(OnExperimentFile(r, setting[2]))
  <2>1. CASE ExperimentLoadable(setting[2])
    <3> DEFINE e == LoadExperiment(setting[2])
    <3>1. /\ ExpOK(e)
          /\ OnExperimentFile(r, setting[2]) = [r EXCEPT !.exp_config = e, !.experiment_mode = TRUE]
      BY <2>1, LoadExperimentOK DEF OnExperimentFile
    <3> HIDE DEF e
    <3> QED BY <3>1 DEF ResultOK
  <2>2. CASE ~ExperimentLoadable(setting[2])
    BY <1>1, <2>2 DEF OnExperimentFile
  <2> QED BY <2>1, <2>2
<1>7. ASSUME Spells("alphas", setting[2]) PROVE ResultOK(OnAlphaSweep(r, setting[2]))
  <2>1. CASE Convertible("alphas", setting[2])
    <3> DEFINE list == setting[2]
               e == [r.exp_config EXCEPT !.alphas = list]
    <3>1. IsSequence(list)
      BY <1>7 DEF Spells, SequenceFields
    <3> HIDE DEF list
    <3>2. ExpOK(e)
      <4>1. ExpOK(r.exp_config)
        BY DEF ResultOK
      <4>2. DOMAIN e = DOMAIN r.exp_config
        OBVIOUS
      <4>3. Numbers(e)
        BY <4>1 DEF ExpOK, Numbers
      <4>4. ASSUME NEW f \in SequenceFields PROVE IsSequence(e[f])
        <5>1. f \in DOMAIN r.exp_config
          BY <4>1, DefaultExperiment DEF ExpOK
        <5>2. e[f] = IF f = "alphas" THEN list ELSE r.exp_config[f]
          BY <5>1
        <5>3. IsSequence(r.exp_config[f])
          BY <4>1 DEF ExpOK
        <5> HIDE DEF e
        <5> QED BY <3>1, <5>2, <5>3
      <4> HIDE DEF e
      <4> QED BY <4>1, <4>2, <4>3, <4>4 DEF ExpOK
    <3>3. OnAlphaSweep(r, list) = [r EXCEPT !.exp_config = e, !.experiment_mode = TRUE]
      BY <2>1 DEF OnAlphaSweep, ResultOK, list
    <3> HIDE DEF e
    <3> QED BY <3>2, <3>3 DEF ResultOK, list
  <2>2. CASE ~Convertible("alphas", setting[2])
    BY <1>1, <2>2 DEF OnAlphaSweep
  <2> QED BY <2>1, <2>2
<1>8. LET result == ParseSetting(r, setting)
      IN  \/ result = r
          \/ result = [r EXCEPT !.status = "help"]
          \/ result = [r EXCEPT !.status = "error"]
          \/ flag \in DOMAIN Switches /\ result = OnField(r, setting)
          \/ result = OnConfigFile(r, setting[2])
          \/ result = OnExperimentFile(r, setting[2])
          \/ flag = "--alpha-sweep" /\ Len(setting) # 1 /\ result = OnAlphaSweep(r, setting[2])
          \/ /\ flag \in DOMAIN FieldOf /\ Len(setting) # 1 /\ flag \notin DOMAIN Switches
             /\ result = OnField(r, setting)
  BY DEF ParseSetting
<1>9. flag = "--alpha-sweep" /\ Len(setting) # 1 => Spells("alphas", setting[2])
  BY MenuAssumption
<1> HIDE DEF setting, flag
<1> QED BY <1>1, <1>3, <1>4, <1>5, <1>6, <1>7, <1>8, <1>9 DEF setting, flag

-----------------------------------------------------------------------------
(* The loop over the arguments, and its result.                            *)

Turns(g, w, j) == g = [k \in 0 .. j |-> IF k = 0 THEN Parsing ELSE ParseSetting(g[k - 1], w[k])]

LEMMA TurnsExist == ASSUME NEW w, NEW n \in Nat PROVE \E g : Turns(g, w, n)
<1> DEFINE P == {j \in 0 .. n : \E g : Turns(g, w, j)}
<1>1. 0 \in P
  <2>1. Turns([k \in 0 .. 0 |-> Parsing], w, 0)
    BY DEF Turns
  <2> QED BY <2>1
<1>2. ASSUME NEW j \in 0 + 1 .. n, j - 1 \in P PROVE j \in P
  <2> PICK g : Turns(g, w, j - 1)
    BY <1>2
  <2> DEFINE last == ParseSetting(g[j - 1], w[j])
             h == [k \in 0 .. j |-> IF k = j THEN last ELSE g[k]]
  <2>1. \A k \in 0 .. j - 1 : g[k] = IF k = 0 THEN Parsing ELSE ParseSetting(g[k - 1], w[k])
    BY DEF Turns
  <2>2. j - 1 \in 0 .. j - 1 /\ j \in Int /\ j # 0
    OBVIOUS
  <2> HIDE DEF last
  <2>3. h[j] = last /\ \A k \in 0 .. j - 1 : h[k] = g[k]
    OBVIOUS
  <2>4. h = [k \in 0 .. j |-> h[k]]
    OBVIOUS
  <2> HIDE DEF h
  <2>5. ASSUME NEW k \in 0 .. j
        PROVE  h[k] = IF k = 0 THEN Parsing ELSE ParseSetting(h[k - 1], w[k])
    <3>1. CASE k = j
      BY <2>2, <2>3, <3>1 DEF last
    <3>2. CASE k # j
      <4>1. k \in 0 .. j - 1 /\ (k # 0 => k - 1 \in 0 .. j - 1)
        BY <3>2
      <4> QED BY <2>1, <2>3, <4>1
    <3> QED BY <3>1, <3>2
  <2>6. Turns(h, w, j)
    BY <2>4, <2>5 DEF Turns
  <2> QED BY <2>6
<1> HIDE DEF P
<1>3. \A k \in 0 .. n : k \in P
  BY <1>1, <1>2, IntervalInduction
<1> QED BY <1>3 DEF P

\* parse() reads one argument after the other.
LEMMA ParseUnfolds ==
    ASSUME NEW w, Len(w) \in Nat
    PROVE  \E g : /\ g[0] = Parsing
                  /\ \A k \in 1 .. Len(w) : g[k] = ParseSetting(g[k - 1], w[k])
                  /\ Parse(w) = Finished(g[Len(w)])
<1> DEFINE turns == CHOOSE g : Turns(g, w, Len(w))
<1>1. Turns(turns, w, Len(w))
  <2>1. \E g : Turns(g, w, Len(w))
    BY TurnsExist
  <2> QED BY <2>1
<1>2. Parse(w) = Finished(turns[Len(w)])
  BY Zenon DEF Parse, Turns
<1> HIDE DEF turns
<1>3. turns[0] = Parsing
  BY <1>1 DEF Turns
<1>4. \A k \in 1 .. Len(w) : turns[k] = ParseSetting(turns[k - 1], w[k])
  BY <1>1 DEF Turns
<1> QED BY <1>2, <1>3, <1>4

\* The text of a command line.
TextOf(l) == [k \in DOMAIN l |-> Menu[l[k]]]

LEMMA TextType ==
    ASSUME NEW l \in Lines
    PROVE  /\ Len(l) \in Nat /\ DOMAIN l = 1 .. Len(l) /\ Len(TextOf(l)) = Len(l)
           /\ \A k \in 1 .. Len(l) : l[k] \in DOMAIN Menu /\ TextOf(l)[k] = Menu[l[k]]
<1>1. Len(l) \in Nat /\ DOMAIN l = 1 .. Len(l)
  BY MenuAssumption DEF IsSequence
<1>2. TextOf(l) = [k \in 1 .. Len(l) |-> Menu[l[k]]]
  BY <1>1 DEF TextOf
<1>3. Len(TextOf(l)) = Len(l)
  BY <1>1, <1>2
<1> QED BY <1>1, <1>2, <1>3, LinesAssumption

LEMMA FinishedOK ==
    ASSUME NEW r, ResultOK(r) PROVE ResultOK(Finished(r))
<1> DEFINE config == [r.config EXCEPT !.warmup_ticks = Warmup(r.config.ticks, @)]
<1>1. ConfigOK(config)
  BY DEF ResultOK, ConfigOK, Numbers
<1>2. /\ DOMAIN Finished(r) = {"status", "config", "exp_config", "experiment_mode"}
      /\ Finished(r).config \in {r.config, config}
      /\ Finished(r).exp_config = r.exp_config
      /\ Finished(r).experiment_mode = r.experiment_mode
  <2> DEFINE ends(status, final) == [status |-> status, config |-> final,
                                     exp_config |-> r.exp_config,
                                     experiment_mode |-> r.experiment_mode]
             helped  == r.status = "help"
             sweeps  == r.status = "parsing" /\ r.experiment_mode
             runs    == r.status = "parsing" /\ ~r.experiment_mode /\ Valid(config)
  <2>1. Finished(r) =
          CASE helped -> ends("help", r.config)
            [] sweeps -> ends("ok", r.config)
            [] runs   -> ends("ok", config)
            [] OTHER  -> ends("error", config)
    BY DEF Finished
  <2> HIDE DEF config
  <2>2. \/ Finished(r) = ends("help", r.config)
        \/ Finished(r) = ends("ok", r.config)
        \/ Finished(r) = ends("ok", config)
        \/ Finished(r) = ends("error", config)
    <3> HIDE DEF ends
    <3> QED BY <2>1
  <2> QED BY <2>2
<1> HIDE DEF config
<1> QED BY <1>1, <1>2 DEF ResultOK

LEMMA ParseOK == ASSUME NEW l \in Lines PROVE ResultOK(Parse(TextOf(l)))
<1> DEFINE w == TextOf(l)
<1>1. Len(w) \in Nat /\ \A k \in 1 .. Len(w) : l[k] \in DOMAIN Menu /\ w[k] = Menu[l[k]]
  BY TextType
<1> HIDE DEF w
<1>2. PICK g : /\ g[0] = Parsing
               /\ \A k \in 1 .. Len(w) : g[k] = ParseSetting(g[k - 1], w[k])
               /\ Parse(w) = Finished(g[Len(w)])
  BY <1>1, ParseUnfolds
<1> DEFINE P == {k \in 0 .. Len(w) : ResultOK(g[k])}
<1>3. 0 \in P
  <2>1. ResultOK(Parsing)
    BY DefaultConfig, DefaultExperiment DEF Parsing, ResultOK
  <2> QED BY <1>1, <1>2, <2>1
<1>4. ASSUME NEW k \in 0 + 1 .. Len(w), k - 1 \in P PROVE k \in P
  <2>1. k \in 1 .. Len(w) /\ k \in 0 .. Len(w)
    BY <1>1
  <2>2. ResultOK(g[k - 1]) /\ l[k] \in DOMAIN Menu
    BY <1>1, <1>4, <2>1
  <2>3. ResultOK(ParseSetting(g[k - 1], Menu[l[k]]))
    BY <2>2, ParseSettingOK
  <2> QED BY <1>1, <1>2, <2>1, <2>3
<1> HIDE DEF P
<1>5. \A k \in 0 .. Len(w) : k \in P
  <2>1. 0 \in Int /\ Len(w) \in Int
    BY <1>1
  <2> QED BY <1>3, <1>4, <2>1, IntervalInduction
<1>6. ResultOK(g[Len(w)])
  BY <1>1, <1>5 DEF P
<1> QED BY <1>2, <1>6, FinishedOK DEF w

-----------------------------------------------------------------------------
(* The runs of a sweep.                                                    *)

LEMMA AxesType ==
    ASSUME NEW e, ExpOK(e)
    PROVE  \A i \in 1 .. 8 : IsSequence(Axes(e)[i]) /\ Len(Axes(e)[i]) \in Nat
<1>1. ASSUME NEW axis, NEW single, IsSequence(axis) PROVE IsSequence(Swept(axis, single))
  <2>1. IsSequence(<<single>>)
    BY DEF IsSequence
  <2> QED BY <1>1, <2>1 DEF Swept
<1>2. \A f \in SequenceFields : IsSequence(e[f])
  BY DEF ExpOK
<1>3. /\ IsSequence(e.schedulers) /\ IsSequence(e.workloads) /\ IsSequence(e.seeds)
      /\ IsSequence(e.arrival_rates) /\ IsSequence(e.arrival_rate_asymmetric_sweep)
      /\ IsSequence(e.alphas) /\ IsSequence(e.epsilon_totals)
      /\ IsSequence(e.lambda_noise_stddevs)
  BY <1>2 DEF SequenceFields
<1>4. /\ IsSequence(Swept(e.arrival_rate_asymmetric_sweep, e.arrival_rate_asymmetric))
      /\ IsSequence(Swept(e.alphas, e.alpha)) /\ IsSequence(Swept(e.epsilon_totals, 0))
      /\ IsSequence(Swept(e.lambda_noise_stddevs, 0))
  BY <1>1, <1>3
<1>5. \A i \in 1 .. 8 : IsSequence(Axes(e)[i])
  BY <1>3, <1>4 DEF Axes
<1> QED BY <1>5 DEF IsSequence

LEMMA Products ==
    ASSUME NEW axes, \A i \in 1 .. 8 : Len(axes[i]) \in Nat
    PROVE  /\ ProductFrom(axes, 9) = 1
           /\ \A i \in 1 .. 8 : ProductFrom(axes, i) = Len(axes[i]) * ProductFrom(axes, i + 1)
           /\ \A i \in 1 .. 9 : ProductFrom(axes, i) \in Nat
<1> DEFINE Solves(g) == g = [j \in 1 .. 9 |-> IF j = 9 THEN 1 ELSE Len(axes[j]) * g[j + 1]]
           product == CHOOSE g : Solves(g)
           p8 == Len(axes[8]) * 1
           p7 == Len(axes[7]) * p8
           p6 == Len(axes[6]) * p7
           p5 == Len(axes[5]) * p6
           p4 == Len(axes[4]) * p5
           p3 == Len(axes[3]) * p4
           p2 == Len(axes[2]) * p3
           p1 == Len(axes[1]) * p2
           q == <<p1, p2, p3, p4, p5, p6, p7, p8, 1>>
<1>1. Solves(q)
  <2>1. q = [j \in 1 .. 9 |-> q[j]]
    OBVIOUS
  <2>2. /\ q[1] = Len(axes[1]) * q[2] /\ q[2] = Len(axes[2]) * q[3]
        /\ q[3] = Len(axes[3]) * q[4] /\ q[4] = Len(axes[4]) * q[5]
        /\ q[5] = Len(axes[5]) * q[6] /\ q[6] = Len(axes[6]) * q[7]
        /\ q[7] = Len(axes[7]) * q[8] /\ q[8] = Len(axes[8]) * q[9]
        /\ q[9] = 1
    BY Zenon
  <2> HIDE DEF q, p1, p2, p3, p4, p5, p6, p7, p8
  <2>3. ASSUME NEW j \in 1 .. 9 PROVE q[j] = IF j = 9 THEN 1 ELSE Len(axes[j]) * q[j + 1]
    <3> DEFINE R(k) == IF k = 9 THEN 1 ELSE Len(axes[k]) * q[k + 1]
    <3>1. \/ j = 1 \/ j = 2 \/ j = 3 \/ j = 4 \/ j = 5 \/ j = 6 \/ j = 7 \/ j = 8 \/ j = 9
      OBVIOUS
    <3>2. /\ q[1] = R(1) /\ q[2] = R(2) /\ q[3] = R(3) /\ q[4] = R(4) /\ q[5] = R(5)
          /\ q[6] = R(6) /\ q[7] = R(7) /\ q[8] = R(8) /\ q[9] = R(9)
      <4>1. /\ 1 + 1 = 2 /\ 2 + 1 = 3 /\ 3 + 1 = 4 /\ 4 + 1 = 5 /\ 5 + 1 = 6 /\ 6 + 1 = 7
            /\ 7 + 1 = 8 /\ 8 + 1 = 9
            /\ 1 # 9 /\ 2 # 9 /\ 3 # 9 /\ 4 # 9 /\ 5 # 9 /\ 6 # 9 /\ 7 # 9 /\ 8 # 9
        OBVIOUS
      <4> QED BY <2>2, <4>1, Zenon
    <3>3. q[j] = R(j)
      <4> HIDE DEF R
      <4> QED BY <3>1, <3>2, Zenon
    <3> QED BY <3>3
  <2> QED BY <2>1, <2>3
<1>2. Solves(product)
  <2> HIDE DEF Solves, q
  <2> QED BY <1>1
<1>3. \A i : ProductFrom(axes, i) = product[i]
  BY Zenon DEF ProductFrom
<1> HIDE DEF product
<1>4. product[9] = 1
  BY <1>2
<1>5. ASSUME NEW i \in 1 .. 8 PROVE product[i] = Len(axes[i]) * product[i + 1]
  <2>1. i \in 1 .. 9 /\ i # 9
    OBVIOUS
  <2> QED BY <1>2, <2>1
<1> HIDE DEF Solves
<1>6. ASSUME NEW i \in 1 .. 8, product[i + 1] \in Nat PROVE product[i] \in Nat
  <2>1. Len(axes[i]) \in Nat /\ product[i] = Len(axes[i]) * product[i + 1]
    BY <1>5
  <2> QED BY <1>6, <2>1
<1>7. /\ product[8] \in Nat /\ product[7] \in Nat /\ product[6] \in Nat /\ product[5] \in Nat
      /\ product[4] \in Nat /\ product[3] \in Nat /\ product[2] \in Nat /\ product[1] \in Nat
  BY <1>4, <1>6
<1>8. ASSUME NEW i \in 1 .. 9 PROVE product[i] \in Nat
  <2>1. \/ i = 1 \/ i = 2 \/ i = 3 \/ i = 4 \/ i = 5 \/ i = 6 \/ i = 7 \/ i = 8 \/ i = 9
    OBVIOUS
  <2>2. product[9] \in Nat
    BY <1>4
  <2> QED BY <1>7, <2>1, <2>2, Zenon
<1> QED BY <1>3, <1>4, <1>5, <1>8

LEMMA ExpandType ==
    ASSUME NEW e, ExpOK(e)
    PROVE  /\ TotalRuns(e) \in Nat
           /\ DOMAIN Expand(e) = 1 .. TotalRuns(e) /\ Len(Expand(e)) = TotalRuns(e)
           /\ \A k \in 1 .. TotalRuns(e) : Expand(e)[k] = RunConfig(e, k)
<1>1. TotalRuns(e) \in Nat
  BY AxesType, Products DEF TotalRuns
<1>2. Expand(e) = [k \in 1 .. TotalRuns(e) |-> RunConfig(e, k)]
  BY DEF Expand
<1> QED BY <1>1, <1>2

LEMMA RunConfigNumbers ==
    ASSUME NEW e, ExpOK(e), NEW k PROVE Numbers(RunConfig(e, k))
<1> DEFINE fixed == [f \in DOMAIN Config |-> IF f \in Inherited THEN e[f] ELSE Config[f]]
<1>1. NumberFields \subseteq DOMAIN fixed
  BY DefaultConfig
<1>2. ASSUME NEW f \in NumberFields PROVE RunConfig(e, k)[f] = fixed[f]
  <2> HIDE DEF fixed
  <2> QED BY <1>1, <1>2 DEF RunConfig, NumberFields, fixed
<1>3. \A f \in NumberFields : fixed[f] = e[f]
  BY <1>1 DEF NumberFields, Inherited
<1> QED BY <1>2, <1>3 DEF ExpOK, Numbers, NumberFields

-----------------------------------------------------------------------------
(* The inductive invariant.                                                *)

\* The configurations the command line asks for.
Planned == IF cli.experiment_mode THEN Expand(cli.exp_config) ELSE <<cli.config>>

Steps == {"shell", "parse", "expand"} \cup Running

CommandInv ==
    /\ line \in Lines /\ attempt \in Nat /\ pc \in Steps
    /\ ResultOK(cli)
    /\ pc # "shell" => exit = "none"
    /\ pc \in {"expand"} \cup Running => cli.status = "ok"
    /\ pc \in {"expand", "compare"} => cli.experiment_mode

\* The configurations there are, and how far their runs have come.
ProgressInv ==
    /\ run \in Nat \ {0} /\ tick \in Nat /\ output \in Nat \ {0} /\ results \in Seq(Nat)
    /\ pc \in {"parse", "expand"} => configs = <<>> /\ run = 1 /\ output = 1
    /\ pc \in Running => configs = Planned
    /\ configs = <<>> \/ (cli.status = "ok" /\ configs = Planned)
    /\ Len(results) <= run /\ Len(results) <= Len(configs)
    /\ pc \in {"build", "loop", "write"} => run <= Len(configs) /\ Len(results) = run - 1
    /\ pc = "compare" => Len(results) = Len(configs)

\* The log of the run under way.
LoopInv ==
    /\ IsLogging => pc \in {"loop", "write"}
    /\ pc \in {"loop", "write"} => tick <= cfg.ticks /\ (IsLogging <=> ~cfg.null_log)
    /\ IsLogging => /\ OpenLog(logger) /\ Given(logger) = RowsBefore(cfg, tick)
                    /\ dir \in DOMAIN logs
                    /\ logs[dir].by = attempt /\ logs[dir].config = cfg
    /\ pc = "write" => /\ tick = cfg.ticks
                       /\ IsLogging => /\ logs[dir].rows = RowsBefore(cfg, cfg.ticks)
                                       /\ ~logs[dir].torn

\* The logs on the disk.
IsLog(log) ==
    /\ log = [by |-> log.by, config |-> log.config, rows |-> log.rows, torn |-> log.torn]
    /\ log.torn \in BOOLEAN
    /\ Numbers(log.config) /\ log.config.log_freq >= 1
    /\ log.rows \in Rows
    /\ IsPrefix(log.rows, RowsBefore(log.config, log.config.ticks))
    /\ log.torn => Len(log.rows) < Len(RowsBefore(log.config, log.config.ticks))

LogsInv == \A d \in DOMAIN logs : IsLog(logs[d])

\* A torn log of this attempt is the last thing it has left.
TornInv ==
    \A d \in DOMAIN logs :
        /\ logs[d].by \in 0 .. attempt
        /\ logs[d].torn /\ logs[d].by = attempt => pc = "shell" /\ exit = "killed"

\* Which attempt has written the other files.
FilesInv ==
    \A p \in DOMAIN files : /\ files[p].by \in 0 .. attempt
                            /\ pc \in {"parse", "expand"} => files[p].by < attempt

Wrote(k, name) == /\ <<configs[k].output_dir, name>> \in DOMAIN files
                  /\ files[<<configs[k].output_dir, name>>] = Report(<<k>>, TRUE)

\* The summaries of the run under way.
WrittenInv ==
    pc = "write" => /\ output > 1 => Wrote(run, "summary.txt")
                    /\ output > 2 => Wrote(run, "summary.json")

\* No run since has had the directory of run k.
Undisturbed(k) ==
    \A j \in DOMAIN configs : j <= run /\ configs[j].output_dir = configs[k].output_dir => j <= k

Kept(k) == /\ HasOutputs(k)
           /\ ~configs[k].null_log => configs[k].output_dir \in DOMAIN logs

KeptInv == \A k \in DOMAIN results : Undisturbed(k) => Kept(k)

Whole(name) == /\ cli.experiment_mode /\ Comparison(name) \in DOMAIN files
               /\ files[Comparison(name)].by = attempt /\ files[Comparison(name)].whole

\* The comparison.
ComparisonInv ==
    \A name \in {"summary.txt", "summary.json"} :
        Whole(name) => /\ configs = Planned /\ Len(results) = Len(configs)
                       /\ Len(files[Comparison(name)].runs) = Len(results)

Ranked == /\ Comparison("summary.txt") \in DOMAIN files
          /\ \E order \in Rankings : files[Comparison("summary.txt")] = Report(order, TRUE)

\* The end of the program.
EndInv ==
    /\ pc = "compare" => output = 1 \/ (output = 2 /\ Ranked)
    /\ exit = "success" /\ cli.status = "ok" =>
          /\ configs = Planned /\ Len(results) = Len(configs)
          /\ cli.experiment_mode /\ configs # <<>> =>
                /\ Ranked
                /\ Comparison("summary.json") \in DOMAIN files
                /\ files[Comparison("summary.json")] = Report([k \in DOMAIN results |-> k], TRUE)

IInv == /\ CommandInv /\ ProgressInv /\ LoopInv /\ LogsInv /\ TornInv /\ FilesInv
        /\ WrittenInv /\ KeptInv /\ ComparisonInv /\ EndInv /\ ValidRuns

-----------------------------------------------------------------------------
(* The command, and what it asks for.                                      *)

LEMMA ConfigsType ==
    ASSUME CommandInv, ProgressInv
    PROVE  /\ Len(configs) \in Nat /\ DOMAIN configs = 1 .. Len(configs)
           /\ \A k \in DOMAIN configs : Numbers(configs[k])
<1>1. CASE configs = <<>>
  BY <1>1
<1>2. CASE configs # <<>> /\ cli.experiment_mode
  <2>1. configs = Expand(cli.exp_config) /\ ExpOK(cli.exp_config)
    BY <1>2 DEF CommandInv, ProgressInv, Planned, ResultOK
  <2> QED BY <2>1, ExpandType, RunConfigNumbers
<1>3. CASE configs # <<>> /\ ~cli.experiment_mode
  <2>1. configs = <<cli.config>> /\ Numbers(cli.config)
    BY <1>3 DEF CommandInv, ProgressInv, Planned, ResultOK, ConfigOK
  <2> QED BY <2>1
<1> QED BY <1>1, <1>2, <1>3

\* The run under way.
LEMMA CurrentRun ==
    ASSUME CommandInv, ProgressInv, ValidRuns, pc \in {"build", "loop", "write"}
    PROVE  /\ run \in DOMAIN configs /\ DOMAIN results = 1 .. run - 1
           /\ Numbers(cfg) /\ cfg.log_freq >= 1
<1>1. run \in DOMAIN configs
  BY ConfigsType DEF ProgressInv
<1>2. DOMAIN results = 1 .. run - 1
  BY DEF ProgressInv
<1>3. Numbers(cfg)
  BY <1>1, ConfigsType DEF cfg
<1>4. Valid(cfg)
  BY <1>1 DEF ValidRuns, ValidConfigs, Running, cfg
<1>5. cfg.log_freq >= 1
  BY <1>4 DEF Valid
<1> QED BY <1>1, <1>2, <1>3, <1>5

LEMMA NoResultOK == ResultOK(NoResult) /\ NoResult.status = "parsing"
BY DefaultConfig, DefaultExperiment DEF NoResult, Parsing, ResultOK

LEMMA CommandInvStep == IInv /\ [Next]_vars => CommandInv'
<1> SUFFICES ASSUME IInv, [Next]_vars PROVE CommandInv'
  OBVIOUS
<1> USE DEF CommandInv, Steps, Running
<1>1. CASE Start
  <2>1. ResultOK(cli')
    BY <1>1, NoResultOK DEF Start
  <2>2. attempt' \in Nat
    BY <1>1 DEF Start, IInv
  <2> QED BY <1>1, <2>1, <2>2 DEF Start, IInv
<1>2. CASE ParseCommandLine
  <2>1. Settings = TextOf(line)
    BY DEF Settings, TextOf
  <2>2. ResultOK(cli')
    BY <1>2, <2>1, ParseOK DEF ParseCommandLine, IInv
  <2> QED BY <1>2, <2>2 DEF ParseCommandLine, IInv, Exit
<1>3. CASE ExpandSweep
  BY <1>3 DEF ExpandSweep, Exit, IInv
<1>4. CASE BuildRun \/ SimulateTick \/ EndLoop \/ WriteOutput \/ SkipOutput
  BY <1>4 DEF BuildRun, SimulateTick, EndLoop, WriteOutput, SkipOutput, IInv
<1>5. CASE FinishRun
  BY <1>5 DEF FinishRun, StepAfter, Exit, IInv
<1>6. CASE WriteComparison
  BY <1>6 DEF WriteComparison, Exit, IInv
<1>7. CASE \/ BuildThrows \/ LoopThrows \/ DirectoryThrows \/ OutputThrows
           \/ NothingToCompare \/ ComparisonThrows
  BY <1>7 DEF BuildThrows, LoopThrows, DirectoryThrows, OutputThrows, NothingToCompare,
              ComparisonThrows, Exit, IInv
<1>8. CASE Kill
  BY <1>8 DEF Kill, IInv
<1>9. CASE UNCHANGED vars
  BY <1>9 DEF vars, IInv
<1> QED BY <1>1, <1>2, <1>3, <1>4, <1>5, <1>6, <1>7, <1>8, <1>9 DEF Next

LEMMA ProgressInvStep == IInv /\ [Next]_vars => ProgressInv'
<1> SUFFICES ASSUME IInv, [Next]_vars PROVE ProgressInv'
  OBVIOUS
<1>1. ProgressInv /\ Len(configs) \in Nat
  BY ConfigsType DEF IInv
<1>2. CASE Start
  BY <1>1, <1>2 DEF Start, ProgressInv, Running
<1>3. CASE ParseCommandLine
  <2>1. /\ configs = <<>> /\ run = 1 /\ output = 1 /\ results \in Seq(Nat) /\ Len(results) = 0
        /\ tick \in Nat
    BY <1>1, <1>3 DEF ParseCommandLine, ProgressInv
  <2>2. UNCHANGED <<run, tick, output, results>>
    BY <1>3 DEF ParseCommandLine
  <2>3. \/ configs' = configs /\ pc' \in {"shell", "expand"}
        \/ /\ configs' = <<cli'.config>> /\ pc' = "build"
           /\ cli'.status = "ok" /\ ~cli'.experiment_mode
    BY <1>3 DEF ParseCommandLine, Exit
  <2>4. CASE configs' = configs /\ pc' \in {"shell", "expand"}
    BY <2>1, <2>2, <2>4 DEF ProgressInv, Running
  <2>5. CASE /\ configs' = <<cli'.config>> /\ pc' = "build"
             /\ cli'.status = "ok" /\ ~cli'.experiment_mode
    BY <2>1, <2>2, <2>5 DEF ProgressInv, Running, Planned
  <2> QED BY <2>3, <2>4, <2>5
<1>4. CASE ExpandSweep
  <2>1. cli.experiment_mode /\ cli.status = "ok"
    BY <1>4 DEF ExpandSweep, IInv, CommandInv
  <2>2. Len(Expand(cli.exp_config)) \in Nat
    BY ExpandType DEF IInv, CommandInv, ResultOK
  <2>3. /\ pc = "expand" /\ UNCHANGED <<cli, run, tick, output, results>>
        /\ \/ /\ configs' = Expand(cli.exp_config)
              /\ pc' = IF configs' = <<>> THEN "compare" ELSE "build"
           \/ configs' = configs /\ pc' = "shell"
    BY <1>4 DEF ExpandSweep, Exit
  <2> QED BY <1>1, <2>1, <2>2, <2>3 DEF ProgressInv, Running, Planned
<1>5. CASE BuildRun \/ SimulateTick \/ EndLoop \/ WriteOutput \/ SkipOutput
  <2>1. UNCHANGED <<cli, configs, run, results>>
    BY <1>5 DEF BuildRun, SimulateTick, EndLoop, WriteOutput, SkipOutput
  <2>2. pc \in {"build", "loop", "write"} /\ pc' \in {"build", "loop", "write"}
    BY <1>5 DEF BuildRun, SimulateTick, EndLoop, WriteOutput, SkipOutput
  <2>3. tick' \in Nat /\ output' \in Nat \ {0}
    <3>1. tick \in Nat /\ output \in Nat \ {0}
      BY <1>1 DEF ProgressInv
    <3>2. tick' \in {tick, 0, tick + 1} /\ output' \in {output, 1, output + 1}
      BY <1>5 DEF BuildRun, SimulateTick, EndLoop, WriteOutput, SkipOutput
    <3> QED BY <3>1, <3>2
  <2> QED BY <1>1, <2>1, <2>2, <2>3 DEF ProgressInv, Running, Planned
<1>6. CASE FinishRun
  <2>1. /\ pc = "write" /\ UNCHANGED <<cli, configs, tick>> /\ output' = 1
        /\ \E jain \in JainIndexes : results' = Append(results, jain)
        /\ IF cli.experiment_mode
           THEN /\ pc' = StepAfter(run)
                /\ run' = IF pc' = "build" THEN run + 1 ELSE run
           ELSE pc' = "shell" /\ run' = run
    BY <1>6 DEF FinishRun, Exit
  <2> QED BY <1>1, <2>1, BoundsAssumption DEF StepAfter, ProgressInv, Running, Planned
<1>7. CASE WriteComparison
  <2>1. UNCHANGED <<cli, configs, run, tick, results>> /\ pc = "compare"
        /\ pc' \in {"compare", "shell"} /\ output' = 2
    BY <1>7 DEF WriteComparison, Exit
  <2> QED BY <1>1, <2>1 DEF ProgressInv, Running, Planned
<1>8. CASE \/ BuildThrows \/ LoopThrows \/ DirectoryThrows \/ OutputThrows
           \/ NothingToCompare \/ ComparisonThrows
  BY <1>1, <1>8 DEF BuildThrows, LoopThrows, DirectoryThrows, OutputThrows, NothingToCompare,
                    ComparisonThrows, Exit, ProgressInv, Running, Planned
<1>9. CASE Kill
  BY <1>1, <1>9 DEF Kill, ProgressInv, Running, Planned
<1>10. CASE UNCHANGED vars
  BY <1>1, <1>10 DEF vars, ProgressInv, Running, Planned
<1> QED BY <1>2, <1>3, <1>4, <1>5, <1>6, <1>7, <1>8, <1>9, <1>10 DEF Next

-----------------------------------------------------------------------------
(* The log of the run under way.                                           *)

LEMMA LoggerOpens ==
    ASSUME NEW c
    PROVE  /\ c.null_log => LoggerFor(c).kind = "null"
           /\ ~c.null_log => OpenLog(LoggerFor(c)) /\ Given(LoggerFor(c)) = <<>>
<1>1. c.null_log => LoggerFor(c).kind = "null"
  BY DEF LoggerFor, NoLogger, Open
<1>2. ASSUME NEW kind \in {"csv", "binary"}, NEW cap \in Nat \ {0}
      PROVE  OpenLog(Open(kind, cap)) /\ Given(Open(kind, cap)) = <<>>
  <2>1. <<>> \in Seq(Nat \X Nat) /\ Len(<<>>) = 0 /\ <<>> \o <<>> = <<>>
    OBVIOUS
  <2> QED BY <2>1 DEF Open, OpenLog, Logger, Given
<1>3. CSVBuffer \in Nat \ {0} /\ BinaryBuffer \in Nat \ {0}
  BY BoundsAssumption
<1> QED BY <1>1, <1>2, <1>3 DEF LoggerFor

LEMMA NoLoggerIsNull == NoLogger.kind = "null"
BY DEF NoLogger, Open

\* What the file of the current log is after it has been written.
LEMMA HeldAfter ==
    ASSUME dir \in DOMAIN logs, IsLog(logs[dir]), NEW rows, NEW torn, LogHolds(rows, torn)
    PROVE  /\ logs'[dir] = [by |-> logs[dir].by, config |-> logs[dir].config, rows |-> rows,
                            torn |-> torn]
           /\ DOMAIN logs' = DOMAIN logs
           /\ \A d \in DOMAIN logs : d # dir => logs'[d] = logs[d]
<1> DEFINE old == logs[dir]
           new == [old EXCEPT !.rows = rows, !.torn = torn]
<1>1. logs' = [logs EXCEPT ![dir] = new]
  BY DEF LogHolds
<1>2. old = [by |-> old.by, config |-> old.config, rows |-> old.rows, torn |-> old.torn]
  BY DEF IsLog
<1>3. new = [by |-> old.by, config |-> old.config, rows |-> rows, torn |-> torn]
  <2> DEFINE half == [old EXCEPT !.rows = rows]
  <2>1. half = [by |-> old.by, config |-> old.config, rows |-> rows, torn |-> old.torn]
    BY <1>2
  <2>2. new = [half EXCEPT !.torn = torn]
    OBVIOUS
  <2> HIDE DEF half, new
  <2> QED BY <2>1, <2>2
<1> HIDE DEF new
<1>4. logs'[dir] = new /\ DOMAIN logs' = DOMAIN logs
      /\ \A d \in DOMAIN logs : d # dir => logs'[d] = logs[d]
  BY <1>1
<1> QED BY <1>3, <1>4

LEMMA LoopInvStep == IInv /\ [Next]_vars => LoopInv'
<1> SUFFICES ASSUME IInv, [Next]_vars PROVE LoopInv'
  OBVIOUS
<1>0. CommandInv /\ ProgressInv /\ LoopInv /\ ValidRuns
  BY DEF IInv
<1>1. ASSUME logger' = NoLogger, pc' \notin {"loop", "write"} PROVE LoopInv'
  BY <1>1, NoLoggerIsNull DEF LoopInv, IsLogging
<1>2. CASE Start
  BY <1>0, <1>2 DEF Start, LoopInv, IsLogging
<1>3. CASE ParseCommandLine \/ ExpandSweep
  BY <1>0, <1>1, <1>3 DEF ParseCommandLine, ExpandSweep, Exit, LoopInv, IsLogging
<1>4. CASE BuildRun
  <2>1. cfg' = cfg /\ dir' = dir
    BY <1>4 DEF BuildRun, cfg, dir
  <2>2. Numbers(cfg) /\ cfg.log_freq >= 1
    BY <1>0, <1>4, CurrentRun DEF BuildRun
  <2>3. tick' = 0 /\ pc' = "loop" /\ attempt' = attempt /\ logger' = LoggerFor(cfg)
    BY <1>4 DEF BuildRun
  <2>4. 0 <= cfg.ticks
    BY <2>2 DEF Numbers
  <2>5. CASE cfg.null_log
    <3>1. ~IsLogging'
      BY <2>3, <2>5, LoggerOpens DEF IsLogging
    <3> QED BY <2>1, <2>3, <2>4, <2>5, <3>1 DEF LoopInv
  <2>6. CASE ~cfg.null_log
    <3>1. OpenLog(logger') /\ Given(logger') = <<>>
      BY <2>3, <2>6, LoggerOpens
    <3>2. IsLogging'
      BY <3>1 DEF OpenLog, IsLogging
    <3>3. Given(logger') = RowsBefore(cfg, 0)
      BY <2>2, <3>1, RowsBeforeGrow
    <3>4. logs' = Put(logs, dir, [by |-> attempt, config |-> cfg, rows |-> <<>>, torn |-> FALSE])
      BY <1>4, <2>6 DEF BuildRun
    <3> DEFINE log == [by |-> attempt, config |-> cfg, rows |-> <<>>, torn |-> FALSE]
    <3>6. log.by = attempt /\ log.config = cfg
      OBVIOUS
    <3> HIDE DEF log
    <3>7. logs' = Put(logs, dir, log)
      BY <3>4 DEF log
    <3>8. dir \in DOMAIN logs' /\ logs'[dir] = log
      BY <3>7 DEF Put
    <3>5. dir \in DOMAIN logs' /\ logs'[dir].by = attempt /\ logs'[dir].config = cfg
      BY <3>6, <3>8
    <3> QED BY <2>1, <2>3, <2>4, <2>6, <3>1, <3>2, <3>3, <3>5 DEF LoopInv
  <2> QED BY <2>5, <2>6
<1>5. CASE SimulateTick
  <2>1. cfg' = cfg /\ dir' = dir
    BY <1>5 DEF SimulateTick, cfg, dir
  <2>2. Numbers(cfg) /\ cfg.log_freq >= 1
    BY <1>0, <1>5, CurrentRun DEF SimulateTick
  <2>3. /\ pc = "loop" /\ pc' = "loop" /\ tick < cfg.ticks /\ tick' = tick + 1
        /\ UNCHANGED <<attempt, logs>>
        /\ logger' = IF tick % cfg.log_freq = 0
                     THEN WriteTick(logger, tick, cfg.num_processes) ELSE logger
    BY <1>5 DEF SimulateTick
  <2>4. tick \in Nat /\ cfg.ticks \in Nat /\ cfg.num_processes \in Nat
    BY <1>0, <2>2 DEF ProgressInv, Numbers
  <2>5. tick' <= cfg.ticks
    BY <2>3, <2>4
  <2>6. CASE cfg.null_log
    <3>1. logger.kind = "null"
      BY <1>0, <2>3, <2>6 DEF LoopInv, IsLogging
    <3>2. logger' = logger
      BY <2>3, <2>4, <3>1, WriteTickNull
    <3> QED BY <2>1, <2>3, <2>5, <2>6, <3>1, <3>2 DEF LoopInv, IsLogging
  <2>7. CASE ~cfg.null_log
    <3>1. IsLogging
      BY <1>0, <2>3, <2>7 DEF LoopInv
    <3>2. /\ OpenLog(logger) /\ Given(logger) = RowsBefore(cfg, tick)
          /\ dir \in DOMAIN logs /\ logs[dir].by = attempt /\ logs[dir].config = cfg
      BY <1>0, <3>1 DEF LoopInv
    <3>3. RowsBefore(cfg, tick + 1) = WithTick(cfg, RowsBefore(cfg, tick), tick + 1)
      BY <2>2, <2>4, RowsBeforeGrow
    <3>4. (tick + 1) - 1 = tick
      BY <2>4
    <3>5. OpenLog(logger') /\ Given(logger') = RowsBefore(cfg, tick + 1)
      <4>1. CASE tick % cfg.log_freq = 0
        <5>1. logger' = WriteTick(logger, tick, cfg.num_processes)
          BY <2>3, <4>1
        <5>2. /\ OpenLog(logger')
              /\ Given(logger') = Given(logger) \o RowsOfTick(tick, cfg.num_processes)
          BY <2>4, <3>2, <5>1, WriteTickAppends
        <5> QED BY <3>2, <3>3, <3>4, <4>1, <5>2 DEF WithTick
      <4>2. CASE tick % cfg.log_freq # 0
        BY <2>3, <3>2, <3>3, <3>4, <4>2 DEF WithTick
      <4> QED BY <4>1, <4>2
    <3>6. IsLogging'
      BY <3>5 DEF OpenLog, IsLogging
    <3> QED BY <2>1, <2>3, <2>5, <2>7, <3>2, <3>5, <3>6 DEF LoopInv
  <2> QED BY <2>6, <2>7
<1>6. CASE EndLoop
  <2>1. cfg' = cfg /\ dir' = dir
    BY <1>6 DEF EndLoop, cfg, dir
  <2>2. /\ pc = "loop" /\ pc' = "write" /\ tick = cfg.ticks
        /\ UNCHANGED <<attempt, tick>> /\ logger' = Flush(logger)
        /\ IF IsLogging THEN LogHolds(Flush(logger).stream, FALSE) ELSE logs' = logs
    BY <1>6 DEF EndLoop
  <2>3. tick <= cfg.ticks
    BY <1>0, <2>2 DEF LoopInv
  <2>4. CASE IsLogging
    <3>1. /\ OpenLog(logger) /\ Given(logger) = RowsBefore(cfg, tick) /\ ~cfg.null_log
          /\ dir \in DOMAIN logs /\ logs[dir].by = attempt /\ logs[dir].config = cfg
      BY <1>0, <2>2, <2>4 DEF LoopInv
    <3>2. OpenLog(logger') /\ Given(logger') = Given(logger) /\ Flush(logger).stream = Given(logger)
      BY <2>2, <3>1, FlushGives
    <3>3. IsLogging'
      BY <3>2 DEF OpenLog, IsLogging
    <3>4. IsLog(logs[dir])
      BY <1>0, <3>1 DEF IInv, LogsInv
    <3>5. LogHolds(Given(logger), FALSE)
      BY <2>2, <2>4, <3>2
    <3>7. /\ dir \in DOMAIN logs'
          /\ logs'[dir] = [by |-> logs[dir].by, config |-> logs[dir].config,
                           rows |-> Given(logger), torn |-> FALSE]
      BY <3>1, <3>4, <3>5, HeldAfter, Zenon
    <3>6. /\ dir \in DOMAIN logs' /\ logs'[dir].by = attempt /\ logs'[dir].config = cfg
          /\ logs'[dir].rows = Given(logger) /\ ~logs'[dir].torn
      BY <3>1, <3>7
    <3> QED BY <2>1, <2>2, <2>3, <3>1, <3>2, <3>3, <3>6 DEF LoopInv
  <2>5. CASE ~IsLogging
    <3>1. logger.kind = "null" /\ cfg.null_log
      BY <1>0, <2>2, <2>5 DEF LoopInv, IsLogging
    <3>2. logger' = logger
      BY <2>2, <3>1 DEF Flush
    <3> QED BY <2>1, <2>2, <2>3, <3>1, <3>2 DEF LoopInv, IsLogging
  <2> QED BY <2>4, <2>5
<1>7. CASE WriteOutput \/ SkipOutput
  BY <1>0, <1>7 DEF WriteOutput, SkipOutput, LoopInv, IsLogging, cfg, dir
<1>8. CASE FinishRun
  BY <1>1, <1>8 DEF FinishRun, StepAfter, Exit
<1>9. CASE WriteComparison
  BY <1>0, <1>1, <1>9 DEF WriteComparison, Exit, LoopInv, IsLogging
<1>10. CASE \/ BuildThrows \/ LoopThrows \/ DirectoryThrows \/ OutputThrows
            \/ NothingToCompare \/ ComparisonThrows
  BY <1>1, <1>10 DEF BuildThrows, LoopThrows, DirectoryThrows, OutputThrows,
                     NothingToCompare, ComparisonThrows, Exit
<1>11. CASE Kill
  BY <1>1, <1>11 DEF Kill
<1>12. CASE UNCHANGED vars
  BY <1>0, <1>12 DEF vars, LoopInv, IsLogging, cfg, dir
<1> QED BY <1>2, <1>3, <1>4, <1>5, <1>6, <1>7, <1>8, <1>9, <1>10, <1>11, <1>12 DEF Next

-----------------------------------------------------------------------------
(* The logs on the disk.                                                   *)

\* The log of the run under way may end after any of its rows.
LEMMA LogHoldsFirstRows ==
    ASSUME IInv, IsLogging, NEW rows \in Rows, IsPrefix(rows, Given(logger)),
           NEW torn \in BOOLEAN, torn => Len(rows) < Len(Given(logger)), LogHolds(rows, torn)
    PROVE  LogsInv'
<1>1. /\ pc \in {"loop", "write"} /\ tick <= cfg.ticks /\ Given(logger) = RowsBefore(cfg, tick)
      /\ dir \in DOMAIN logs /\ logs[dir].config = cfg
  BY DEF IInv, LoopInv
<1>2. Numbers(cfg) /\ cfg.log_freq >= 1
  BY <1>1, CurrentRun DEF IInv
<1>3. tick \in Nat /\ cfg.ticks \in Nat
  BY <1>2 DEF IInv, ProgressInv, Numbers
<1> DEFINE all == RowsBefore(cfg, cfg.ticks)
<1>4. IsPrefix(rows, all)
  BY <1>1, <1>2, <1>3, RowsBeforePrefix
<1>5. torn => Len(rows) < Len(all)
  <2>1. Given(logger) \in Rows /\ all \in Rows
    BY <1>1, <1>2, <1>3, RowsBeforeGrow
  <2>2. IsPrefix(Given(logger), Given(logger))
    BY <2>1, PrefixReflexive DEF Rows
  <2>3. IsPrefix(Given(logger), all)
    BY <1>1, <1>2, <1>3, <2>1, <2>2, RowsBeforePrefix
  <2> HIDE DEF all
  <2>4. Len(Given(logger)) <= Len(all)
    BY <2>1, <2>3, Prefix DEF Rows
  <2>5. Len(rows) \in Nat /\ Len(Given(logger)) \in Nat /\ Len(all) \in Nat
    BY <2>1 DEF Rows
  <2> QED BY <2>4, <2>5
<1> HIDE DEF all
<1>6. IsLog(logs[dir])
  BY <1>1 DEF IInv, LogsInv
<1>7. /\ logs'[dir] = [by |-> logs[dir].by, config |-> cfg, rows |-> rows, torn |-> torn]
      /\ DOMAIN logs' = DOMAIN logs /\ \A d \in DOMAIN logs : d # dir => logs'[d] = logs[d]
  BY <1>1, <1>6, HeldAfter
<1>8. IsLog(logs'[dir])
  BY <1>2, <1>4, <1>5, <1>7 DEF IsLog, all
<1> QED BY <1>7, <1>8 DEF IInv, LogsInv

LEMMA ExitLogs == ASSUME IInv, NEW how, Exit(how) PROVE LogsInv'
<1>1. CASE IsLogging
  <2>1. OpenLog(logger)
    BY <1>1 DEF IInv, LoopInv
  <2>2. Close(logger).stream = Given(logger) /\ Given(logger) \in Rows
    BY <2>1, FlushGives, GivenType
  <2>3. IsPrefix(Given(logger), Given(logger))
    BY <2>2, PrefixReflexive DEF Rows
  <2>4. LogHolds(Given(logger), FALSE)
    BY <1>1, <2>2 DEF Exit
  <2> QED BY <1>1, <2>2, <2>3, <2>4, LogHoldsFirstRows
<1>2. CASE ~IsLogging
  BY <1>2 DEF Exit, IInv, LogsInv
<1> QED BY <1>1, <1>2

LEMMA LogsInvStep == IInv /\ [Next]_vars => LogsInv'
<1> SUFFICES ASSUME IInv, [Next]_vars PROVE LogsInv'
  OBVIOUS
<1>1. ASSUME UNCHANGED logs PROVE LogsInv'
  BY <1>1 DEF IInv, LogsInv
<1>2. CASE Start \/ SimulateTick \/ WriteOutput \/ SkipOutput
  BY <1>1, <1>2 DEF Start, SimulateTick, WriteOutput, SkipOutput
<1>3. CASE ParseCommandLine
  BY <1>1, <1>3, ExitLogs DEF ParseCommandLine
<1>4. CASE ExpandSweep
  BY <1>1, <1>4, ExitLogs DEF ExpandSweep
<1>5. CASE BuildRun
  <2>1. Numbers(cfg) /\ cfg.log_freq >= 1
    BY <1>5, CurrentRun DEF BuildRun, IInv
  <2> DEFINE log == [by |-> attempt, config |-> cfg, rows |-> <<>>, torn |-> FALSE]
  <2>2. logs' = logs \/ logs' = Put(logs, dir, log)
    BY <1>5 DEF BuildRun
  <2>3. IsLog(log)
    <3>1. <<>> \in Rows
      BY DEF Rows
    <3>2. RowsBefore(cfg, 0) = <<>> /\ cfg.ticks \in Nat /\ 0 <= cfg.ticks
      BY <2>1, RowsBeforeGrow DEF Numbers
    <3>3. IsPrefix(<<>>, RowsBefore(cfg, 0))
      BY <3>1, <3>2, PrefixReflexive DEF Rows
    <3>4. IsPrefix(<<>>, RowsBefore(cfg, cfg.ticks))
      BY <2>1, <3>1, <3>2, <3>3, RowsBeforePrefix
    <3> QED BY <2>1, <3>1, <3>4 DEF IsLog
  <2> HIDE DEF log
  <2>4. CASE logs' = Put(logs, dir, log)
    <3>1. ASSUME NEW d \in DOMAIN logs' PROVE IsLog(logs'[d])
      <4>1. d = dir \/ (d # dir /\ d \in DOMAIN logs)
        BY <2>4 DEF Put
      <4>2. logs'[d] = log \/ (d \in DOMAIN logs /\ logs'[d] = logs[d])
        BY <2>4, <4>1 DEF Put
      <4> QED BY <2>3, <4>2 DEF IInv, LogsInv
    <3> QED BY <3>1 DEF LogsInv
  <2> QED BY <1>1, <2>2, <2>4
<1>6. CASE EndLoop
  <2>1. CASE IsLogging
    <3>1. OpenLog(logger)
      BY <2>1 DEF IInv, LoopInv
    <3>2. Flush(logger).stream = Given(logger) /\ Given(logger) \in Rows
      BY <3>1, FlushGives, GivenType
    <3>3. IsPrefix(Given(logger), Given(logger))
      BY <3>2, PrefixReflexive DEF Rows
    <3>4. LogHolds(Given(logger), FALSE)
      BY <1>6, <2>1, <3>2 DEF EndLoop
    <3> QED BY <2>1, <3>2, <3>3, <3>4, LogHoldsFirstRows
  <2>2. CASE ~IsLogging
    BY <1>1, <1>6, <2>2 DEF EndLoop
  <2> QED BY <2>1, <2>2
<1>7. CASE FinishRun
  <2>1. CASE cli.experiment_mode
    <3>1. CASE IsLogging
      <4>1. OpenLog(logger)
        BY <3>1 DEF IInv, LoopInv
      <4>2. Close(logger).stream = Given(logger) /\ Given(logger) \in Rows
        BY <4>1, FlushGives, GivenType
      <4>3. IsPrefix(Given(logger), Given(logger))
        BY <4>2, PrefixReflexive DEF Rows
      <4>4. LogHolds(Given(logger), FALSE)
        BY <1>7, <2>1, <3>1, <4>2 DEF FinishRun
      <4> QED BY <3>1, <4>2, <4>3, <4>4, LogHoldsFirstRows
    <3>2. CASE ~IsLogging
      BY <1>1, <1>7, <2>1, <3>2 DEF FinishRun
    <3> QED BY <3>1, <3>2
  <2>2. CASE ~cli.experiment_mode
    BY <1>7, <2>2, ExitLogs DEF FinishRun
  <2> QED BY <2>1, <2>2
<1>8. CASE WriteComparison
  BY <1>1, <1>8, ExitLogs DEF WriteComparison
<1>9. CASE \/ BuildThrows \/ LoopThrows \/ DirectoryThrows \/ OutputThrows
           \/ NothingToCompare \/ ComparisonThrows
  BY <1>9, ExitLogs DEF BuildThrows, LoopThrows, DirectoryThrows, OutputThrows,
                        NothingToCompare, ComparisonThrows
<1>10. CASE Kill
  <2>1. CASE IsLogging
    <3>1. OpenLog(logger)
      BY <2>1 DEF IInv, LoopInv
    <3>2. PICK left \in Surviving(logger) : LogHolds(left.rows, left.torn)
      BY <1>10, <2>1 DEF Kill
    <3>3. /\ left.rows \in Rows /\ IsPrefix(left.rows, Given(logger))
          /\ left.torn \in BOOLEAN
          /\ left.torn => Len(left.rows) < Len(Given(logger))
      BY <3>1, <3>2, CutIsPrefix
    <3> QED BY <2>1, <3>2, <3>3, LogHoldsFirstRows
  <2>2. CASE ~IsLogging
    BY <1>1, <1>10, <2>2 DEF Kill
  <2> QED BY <2>1, <2>2
<1>11. CASE UNCHANGED vars
  BY <1>1, <1>11 DEF vars
<1> QED BY <1>2, <1>3, <1>4, <1>5, <1>6, <1>7, <1>8, <1>9, <1>10, <1>11 DEF Next

\* Only a kill tears a row.
LEMMA TornInvStep == IInv /\ [Next]_vars => TornInv'
<1> SUFFICES ASSUME IInv, [Next]_vars PROVE TornInv'
  OBVIOUS
<1>0. attempt \in Nat
  BY DEF IInv, CommandInv
<1>1. ASSUME pc # "shell", attempt' = attempt, logs' = logs PROVE TornInv'
  BY <1>1 DEF IInv, TornInv
<1>2. ASSUME pc # "shell", attempt' = attempt, IsLogging, NEW rows, NEW torn, LogHolds(rows, torn),
             torn => pc' = "shell" /\ exit' = "killed"
      PROVE  TornInv'
  <2>1. dir \in DOMAIN logs /\ IsLog(logs[dir])
    BY <1>2 DEF IInv, LoopInv, LogsInv
  <2>2. /\ logs'[dir] = [by |-> logs[dir].by, config |-> logs[dir].config, rows |-> rows,
                         torn |-> torn]
        /\ DOMAIN logs' = DOMAIN logs
        /\ \A d \in DOMAIN logs : d # dir => logs'[d] = logs[d]
    BY <1>2, <2>1, HeldAfter, Zenon
  <2>3. logs'[dir].by = logs[dir].by /\ logs'[dir].torn = torn
    BY <2>2
  <2> QED BY <1>2, <2>1, <2>2, <2>3, Zenon DEF IInv, TornInv
<1>3. ASSUME pc # "shell", attempt' = attempt, NEW how, Exit(how) PROVE TornInv'
  BY <1>1, <1>2, <1>3 DEF Exit
<1>4. CASE Start
  <2>1. attempt' = attempt + 1 /\ logs' = logs
    BY <1>4 DEF Start
  <2>2. ASSUME NEW d \in DOMAIN logs PROVE logs[d].by \in 0 .. attempt' /\ logs[d].by # attempt'
    <3>1. logs[d].by \in 0 .. attempt
      BY DEF IInv, TornInv
    <3> QED BY <1>0, <2>1, <3>1
  <2> QED BY <2>1, <2>2 DEF TornInv
<1>5. CASE ParseCommandLine \/ ExpandSweep
  BY <1>1, <1>3, <1>5 DEF ParseCommandLine, ExpandSweep
<1>6. CASE BuildRun
  <2>1. pc = "build" /\ attempt' = attempt
    BY <1>6 DEF BuildRun
  <2> DEFINE log == [by |-> attempt, config |-> cfg, rows |-> <<>>, torn |-> FALSE]
  <2>2. logs' = logs \/ logs' = Put(logs, dir, log)
    BY <1>6 DEF BuildRun
  <2>3. log.by = attempt /\ ~log.torn
    OBVIOUS
  <2> HIDE DEF log
  <2>4. CASE logs' = Put(logs, dir, log)
    <3>1. ASSUME NEW d \in DOMAIN logs'
          PROVE  logs'[d] = log \/ (d \in DOMAIN logs /\ logs'[d] = logs[d])
      BY <2>4 DEF Put
    <3>2. \A d \in DOMAIN logs : /\ logs[d].by \in 0 .. attempt
                                 /\ ~(logs[d].torn /\ logs[d].by = attempt)
      BY <2>1 DEF IInv, TornInv
    <3>3. log.by \in 0 .. attempt
      BY <1>0, <2>3
    <3> QED BY <2>1, <2>3, <3>1, <3>2, <3>3 DEF TornInv
  <2> QED BY <1>1, <2>1, <2>2, <2>4
<1>7. CASE SimulateTick \/ WriteOutput \/ SkipOutput
  BY <1>1, <1>7 DEF SimulateTick, WriteOutput, SkipOutput
<1>8. CASE EndLoop
  BY <1>1, <1>2, <1>8 DEF EndLoop
<1>9. CASE FinishRun
  BY <1>1, <1>2, <1>3, <1>9 DEF FinishRun
<1>10. CASE WriteComparison
  BY <1>1, <1>3, <1>10 DEF WriteComparison
<1>11. CASE \/ BuildThrows \/ LoopThrows \/ DirectoryThrows \/ OutputThrows
            \/ NothingToCompare \/ ComparisonThrows
  BY <1>3, <1>11 DEF BuildThrows, LoopThrows, DirectoryThrows, OutputThrows,
                     NothingToCompare, ComparisonThrows
<1>12. CASE Kill
  BY <1>1, <1>2, <1>12 DEF Kill
<1>13. CASE UNCHANGED vars
  BY <1>13 DEF vars, IInv, TornInv
<1> QED BY <1>4, <1>5, <1>6, <1>7, <1>8, <1>9, <1>10, <1>11, <1>12, <1>13 DEF Next

-----------------------------------------------------------------------------
(* The directories of the runs, and the files in them.                     *)

LEMMA ConcatAt ==
    ASSUME NEW S, NEW s \in Seq(S), NEW t \in Seq(S)
    PROVE  /\ Len(s \o t) = Len(s) + Len(t)
           /\ \A k \in 1 .. Len(t) : (s \o t)[Len(s) + k] = t[k]
<1>1. Len(s) \in Nat /\ Len(t) \in Nat
  OBVIOUS
<1>2. Len(s \o t) = Len(s) + Len(t)
  OBVIOUS
<1>3. ASSUME NEW k \in 1 .. Len(t) PROVE (s \o t)[Len(s) + k] = t[k]
  <2>1. /\ Len(s) + k \in 1 .. Len(s) + Len(t) /\ ~(Len(s) + k <= Len(s))
        /\ (Len(s) + k) - Len(s) = k
    BY <1>1
  <2> QED BY <2>1
<1> QED BY <1>2, <1>3

\* A directory three names below another is not that one.
LEMMA Below ==
    ASSUME NEW s, IsSequence(s), NEW a, NEW b, NEW c
    PROVE  /\ s \o <<a, b, c>> # s
           /\ \A k \in 1 .. 3 : (s \o <<a, b, c>>)[Len(s) + k] = <<a, b, c>>[k]
<1> DEFINE names == {s[k] : k \in 1 .. Len(s)} \cup {a, b, c}
           last == <<a, b, c>>
<1>1. Len(s) \in Nat /\ s = [k \in 1 .. Len(s) |-> s[k]]
  BY DEF IsSequence
<1>2. s \in Seq(names) /\ last \in Seq(names)
  BY <1>1
<1>6. Len(last) = 3
  OBVIOUS
<1> HIDE DEF names, last
<1>3. /\ Len(s \o last) = Len(s) + Len(last)
      /\ \A k \in 1 .. Len(last) : (s \o last)[Len(s) + k] = last[k]
  BY <1>2, ConcatAt
<1>4. Len(s) \in Nat
  BY <1>1
<1>5. Len(s \o last) # Len(s)
  BY <1>3, <1>4, <1>6
<1> QED BY <1>3, <1>5, <1>6 DEF last

LEMMA DirectoryOfRun ==
    ASSUME NEW e, NEW k
    PROVE  RunConfig(e, k).output_dir = RunDir(e, RunConfig(e, k))
<1> DEFINE pick(i) == Pick(Axes(e), i, k)
           fixed == [f \in DOMAIN Config |-> IF f \in Inherited THEN e[f] ELSE Config[f]]
           c == [fixed EXCEPT !.scheduler_name = pick(1), !.workload_name = pick(2),
                              !.seed = pick(3), !.arrival_rate = pick(4),
                              !.arrival_rate_asymmetric = pick(5), !.alpha = pick(6),
                              !.epsilon_total = pick(7), !.lambda_noise_stddev = pick(8),
                              !.warmup_ticks = Warmup(e.ticks, e.warmup_ticks)]
<1>1. DOMAIN c = DOMAIN Config
  <2>1. DOMAIN fixed = DOMAIN Config
    OBVIOUS
  <2> HIDE DEF fixed, pick
  <2> QED BY <2>1, Zenon
<1>2. RunConfig(e, k) = [c EXCEPT !.output_dir = RunDir(e, c)]
  BY DEF RunConfig
<1>3. "output_dir" \in DOMAIN c
  <2>1. "output_dir" \in DOMAIN Config
    BY DEF Config
  <2> HIDE DEF c
  <2> QED BY <1>1, <2>1
<1> HIDE DEF c
<1>4. RunConfig(e, k).output_dir = RunDir(e, c)
  BY <1>2, <1>3
<1>5. /\ RunConfig(e, k).scheduler_name = c.scheduler_name
      /\ RunConfig(e, k).workload_name = c.workload_name
      /\ RunConfig(e, k).seed = c.seed /\ RunConfig(e, k).arrival_rate = c.arrival_rate
      /\ RunConfig(e, k).arrival_rate_asymmetric = c.arrival_rate_asymmetric
      /\ RunConfig(e, k).alpha = c.alpha /\ RunConfig(e, k).epsilon_total = c.epsilon_total
  BY <1>1, <1>2 DEF Config
<1> QED BY <1>4, <1>5 DEF RunDir

\* No run has the directory of the comparison.
LEMMA ComparisonApart ==
    ASSUME IInv, cli.experiment_mode, NEW k \in DOMAIN configs
    PROVE  configs[k].output_dir # cli.exp_config.output_dir
<1> DEFINE e == cli.exp_config
<1>1. configs # <<>>
  OBVIOUS
<1>2. configs = Expand(e) /\ ExpOK(e)
  BY <1>1 DEF IInv, ProgressInv, CommandInv, Planned, ResultOK
<1>3. configs[k] = RunConfig(e, k)
  BY <1>2, ExpandType
<1>4. IsSequence(e.output_dir)
  BY <1>2 DEF ExpOK, SequenceFields
<1> HIDE DEF e
<1>5. PICK a, b, c : RunDir(e, RunConfig(e, k)) = e.output_dir \o <<a, b, c>>
  BY DEF RunDir
<1>6. configs[k].output_dir = e.output_dir \o <<a, b, c>>
  BY <1>3, <1>5, DirectoryOfRun
<1> QED BY <1>4, <1>6, Below DEF e

LEMMA FilesInvPut ==
    ASSUME IInv, NEW p, NEW runs, NEW whole, files' = Put(files, p, Report(runs, whole)),
           attempt' = attempt, pc' \notin {"parse", "expand"}
    PROVE  FilesInv'
<1> DEFINE v == Report(runs, whole)
<1>1. v.by = attempt /\ attempt \in Nat
  BY DEF Report, IInv, CommandInv
<1> HIDE DEF v
<1>2. files' = Put(files, p, v)
  BY DEF v
<1>3. ASSUME NEW q \in DOMAIN files' PROVE files'[q].by \in 0 .. attempt
  <2>1. files'[q] = v \/ (q \in DOMAIN files /\ files'[q] = files[q])
    BY <1>2 DEF Put
  <2> QED BY <1>1, <2>1 DEF IInv, FilesInv
<1> QED BY <1>3 DEF FilesInv

LEMMA FilesInvStep == IInv /\ [Next]_vars => FilesInv'
<1> SUFFICES ASSUME IInv, [Next]_vars PROVE FilesInv'
  OBVIOUS
<1>1. FilesInv /\ CommandInv
  BY DEF IInv
<1>2. CASE Start
  <2>1. files' = files /\ attempt' = attempt + 1 /\ attempt \in Nat
    BY <1>1, <1>2 DEF Start, CommandInv
  <2>2. \A p \in DOMAIN files : files[p].by \in 0 .. attempt' /\ files[p].by < attempt'
    BY <1>1, <2>1 DEF FilesInv
  <2> QED BY <2>1, <2>2 DEF FilesInv
<1>3. ASSUME files' = files, attempt' = attempt,
             pc' \in {"parse", "expand"} => pc \in {"parse", "expand"}
      PROVE  FilesInv'
  BY <1>1, <1>3 DEF FilesInv
<1>4. CASE ParseCommandLine \/ ExpandSweep
  <2>1. pc \in {"parse", "expand"} /\ files' = files /\ attempt' = attempt
    BY <1>4 DEF ParseCommandLine, ExpandSweep
  <2> QED BY <1>3, <2>1
<1>5. CASE BuildRun \/ SimulateTick \/ EndLoop \/ SkipOutput
  BY <1>3, <1>5 DEF BuildRun, SimulateTick, EndLoop, SkipOutput
<1>6. CASE \/ BuildThrows \/ LoopThrows \/ DirectoryThrows \/ OutputThrows
           \/ NothingToCompare \/ ComparisonThrows
  BY <1>3, <1>6 DEF BuildThrows, LoopThrows, DirectoryThrows, OutputThrows,
                    NothingToCompare, ComparisonThrows, Exit
<1>7. CASE FinishRun
  BY <1>3, <1>7 DEF FinishRun, Exit, StepAfter
<1>8. CASE WriteOutput
  <2>1. pc = "write" /\ pc' = pc /\ attempt' = attempt
    BY <1>8 DEF WriteOutput
  <2>2. \/ files' = files
        \/ files' = Put(files, <<dir, Outputs[output]>>, Report(<<run>>, TRUE))
    BY <1>8 DEF WriteOutput
  <2> QED BY <1>3, <2>1, <2>2, FilesInvPut
<1>9. CASE WriteComparison
  <2>1. pc = "compare" /\ pc' \in {"compare", "shell"} /\ attempt' = attempt
    BY <1>9 DEF WriteComparison, Exit
  <2>2. \E path, order : files' = Put(files, path, Report(order, TRUE))
    BY <1>9 DEF WriteComparison
  <2>3. ASSUME NEW path, NEW order, files' = Put(files, path, Report(order, TRUE))
        PROVE  FilesInv'
    <3> HIDE <1>9
    <3> QED BY <2>1, <2>3, FilesInvPut
  <2> QED BY <2>2, <2>3
<1>10. CASE Kill
  <2>1. pc' = "shell" /\ attempt' = attempt
    BY <1>10 DEF Kill
  <2>2. files' = files \/ \E path : files' = Put(files, path, Report(<<>>, FALSE))
    BY <1>10 DEF Kill
  <2> QED BY <1>3, <2>1, <2>2, FilesInvPut
<1>11. CASE UNCHANGED vars
  BY <1>3, <1>11 DEF vars
<1> QED BY <1>2, <1>4, <1>5, <1>6, <1>7, <1>8, <1>9, <1>10, <1>11 DEF Next

LEMMA OutputNames ==
    /\ Len(Outputs) = 5
    /\ Outputs[1] = "summary.txt" /\ Outputs[2] = "summary.json" /\ Outputs[3] = "v_trace.csv"
    /\ Outputs[4] = "artifact_manifest.json" /\ Outputs[5] = "hybrid_trace.csv"
BY DEF Outputs

LEMMA WrittenInvStep == IInv /\ [Next]_vars => WrittenInv'
<1> SUFFICES ASSUME IInv, [Next]_vars, pc' = "write" PROVE WrittenInv'
  BY DEF WrittenInv
<1>1. WrittenInv /\ output \in Nat \ {0}
  BY DEF IInv, ProgressInv
<1>2. CASE EndLoop
  BY <1>2 DEF EndLoop, WrittenInv
<1>3. ASSUME UNCHANGED <<pc, files, attempt, configs, run>>,
             \/ output' = output \/ (output > 2 /\ output' > 2)
      PROVE  WrittenInv'
  BY <1>1, <1>3 DEF WrittenInv, Wrote, Report
<1>4. CASE WriteOutput
  <2>1. /\ pc = "write" /\ output <= Len(Outputs) /\ output' = output + 1
        /\ UNCHANGED <<attempt, pc, configs, run>>
        /\ \/ MaySkip(Outputs[output]) /\ files' = files
           \/ files' = Put(files, <<dir, Outputs[output]>>, Report(<<run>>, TRUE))
    BY <1>4 DEF WriteOutput
  <2> DEFINE written == Report(<<run>>, TRUE)
             d == configs[run].output_dir
  <2>2. written' = written /\ d' = d /\ dir = d
    BY <2>1 DEF Report, dir, cfg
  <2>3. CASE output = 1
    <3>1. files' = Put(files, <<d, "summary.txt">>, written)
      BY <2>1, <2>2, <2>3, OutputNames DEF MaySkip
    <3> HIDE DEF written
    <3>2. <<d, "summary.txt">> \in DOMAIN files' /\ files'[<<d, "summary.txt">>] = written
      BY <3>1 DEF Put
    <3>3. Wrote(run, "summary.txt")'
      BY <2>2, <3>2 DEF Wrote, written
    <3>4. output' = 2
      BY <2>1, <2>3
    <3> QED BY <3>3, <3>4 DEF WrittenInv
  <2>4. CASE output = 2
    <3>1. files' = Put(files, <<d, "summary.json">>, written)
      BY <2>1, <2>2, <2>4, OutputNames DEF MaySkip
    <3>2. Wrote(run, "summary.txt")
      BY <1>1, <2>1, <2>4 DEF WrittenInv
    <3>3. <<d, "summary.txt">> \in DOMAIN files /\ files[<<d, "summary.txt">>] = written
      BY <3>2 DEF Wrote
    <3> HIDE DEF written
    <3>4. <<d, "summary.txt">> # <<d, "summary.json">>
      OBVIOUS
    <3>5. /\ <<d, "summary.json">> \in DOMAIN files' /\ files'[<<d, "summary.json">>] = written
          /\ <<d, "summary.txt">> \in DOMAIN files' /\ files'[<<d, "summary.txt">>] = written
      BY <3>1, <3>3, <3>4 DEF Put
    <3>6. Wrote(run, "summary.txt")' /\ Wrote(run, "summary.json")'
      BY <2>2, <3>5 DEF Wrote, written
    <3> QED BY <3>6 DEF WrittenInv
  <2>5. CASE output > 2
    <3>1. Wrote(run, "summary.txt") /\ Wrote(run, "summary.json")
      BY <1>1, <2>1, <2>5 DEF WrittenInv
    <3>2. /\ <<d, "summary.txt">> \in DOMAIN files /\ files[<<d, "summary.txt">>] = written
          /\ <<d, "summary.json">> \in DOMAIN files /\ files[<<d, "summary.json">>] = written
      BY <3>1 DEF Wrote
    <3>3. Outputs[output] # "summary.txt" /\ Outputs[output] # "summary.json"
      <4>1. output \in {3, 4, 5}
        BY <1>1, <2>1, <2>5, OutputNames
      <4> QED BY <4>1, OutputNames
    <3> HIDE DEF written, d
    <3>4. /\ <<d, "summary.txt">> \in DOMAIN files' /\ files'[<<d, "summary.txt">>] = written
          /\ <<d, "summary.json">> \in DOMAIN files' /\ files'[<<d, "summary.json">>] = written
      <4> DEFINE name == Outputs[output]
      <4>1. files' = files \/ files' = Put(files, <<d, name>>, written)
        BY <2>1, <2>2 DEF written
      <4> HIDE DEF name
      <4>2. name # "summary.txt" /\ name # "summary.json"
        BY <3>3 DEF name
      <4> QED BY <3>2, <4>1, <4>2 DEF Put
    <3>5. Wrote(run, "summary.txt")' /\ Wrote(run, "summary.json")'
      BY <2>2, <3>4 DEF Wrote, written, d
    <3> QED BY <3>5 DEF WrittenInv
  <2> QED BY <1>1, <2>3, <2>4, <2>5
<1>5. CASE SkipOutput
  <2>1. /\ output <= Len(Outputs) /\ Outputs[output] \notin Mandatory /\ output' = output + 1
        /\ UNCHANGED <<pc, files, attempt, configs, run>>
    BY <1>5 DEF SkipOutput
  <2>2. output > 2
    <3>1. output # 1 /\ output # 2
      BY <2>1, OutputNames DEF Mandatory
    <3> QED BY <1>1, <3>1
  <2> QED BY <1>1, <1>3, <2>1, <2>2
<1>6. CASE UNCHANGED vars
  BY <1>3, <1>6 DEF vars
<1>7. CASE Start \/ ParseCommandLine \/ ExpandSweep
  BY <1>7 DEF Start, ParseCommandLine, ExpandSweep, Exit
<1>8. CASE BuildRun \/ SimulateTick \/ Kill
  BY <1>8 DEF BuildRun, SimulateTick, Kill
<1>9. CASE \/ BuildThrows \/ LoopThrows \/ DirectoryThrows \/ OutputThrows
           \/ NothingToCompare \/ ComparisonThrows \/ WriteComparison \/ FinishRun
  BY <1>9 DEF BuildThrows, LoopThrows, DirectoryThrows, OutputThrows, NothingToCompare,
              ComparisonThrows, WriteComparison, FinishRun, StepAfter, Exit
<1> QED BY <1>2, <1>4, <1>5, <1>6, <1>7, <1>8, <1>9 DEF Next

-----------------------------------------------------------------------------
(* The outputs of the finished runs.                                       *)

\* The logs and the files a step may change: those of the run under way, and
\* the comparison.
Changing == pc \in {"build", "loop", "write"}

KeepsLogs ==
    \A d \in DOMAIN logs : (Changing /\ d = dir) \/ (d \in DOMAIN logs' /\ logs'[d] = logs[d])

KeepsFiles ==
    \A p \in DOMAIN files :
        \/ Changing /\ p[1] = dir
        \/ pc = "compare" /\ p[1] = cli.exp_config.output_dir
        \/ p \in DOMAIN files' /\ files'[p] = files[p]

LEMMA StepKeepsLogs == IInv /\ [Next]_vars => KeepsLogs
<1> SUFFICES ASSUME IInv, [Next]_vars PROVE KeepsLogs
  OBVIOUS
<1>1. ASSUME logs' = logs PROVE KeepsLogs
  BY <1>1 DEF KeepsLogs
<1>2. ASSUME NEW rows, NEW torn, LogHolds(rows, torn), Changing PROVE KeepsLogs
  BY <1>2 DEF KeepsLogs, LogHolds
<1>3. IsLogging => Changing
  BY DEF IInv, LoopInv, Changing
<1>4. ASSUME NEW how, Exit(how) PROVE KeepsLogs
  BY <1>1, <1>2, <1>3, <1>4 DEF Exit
<1>5. CASE Start \/ SimulateTick \/ WriteOutput \/ SkipOutput \/ UNCHANGED vars
  BY <1>1, <1>5 DEF Start, SimulateTick, WriteOutput, SkipOutput, vars
<1>6. CASE ParseCommandLine \/ ExpandSweep \/ WriteComparison
  BY <1>1, <1>4, <1>6 DEF ParseCommandLine, ExpandSweep, WriteComparison
<1>7. CASE BuildRun
  <2>1. Changing
    BY <1>7 DEF BuildRun, Changing
  <2>2. logs' = logs \/ \E v : logs' = Put(logs, dir, v)
    BY <1>7 DEF BuildRun
  <2>3. ASSUME NEW v, logs' = Put(logs, dir, v) PROVE KeepsLogs
    BY <2>1, <2>3 DEF Put, KeepsLogs
  <2> QED BY <1>1, <2>2, <2>3
<1>8. CASE EndLoop
  BY <1>1, <1>2, <1>3, <1>8 DEF EndLoop
<1>9. CASE FinishRun
  BY <1>1, <1>2, <1>3, <1>4, <1>9 DEF FinishRun
<1>10. CASE \/ BuildThrows \/ LoopThrows \/ DirectoryThrows \/ OutputThrows
            \/ NothingToCompare \/ ComparisonThrows
  BY <1>4, <1>10 DEF BuildThrows, LoopThrows, DirectoryThrows, OutputThrows,
                     NothingToCompare, ComparisonThrows
<1>11. CASE Kill
  BY <1>1, <1>2, <1>3, <1>11 DEF Kill
<1> QED BY <1>5, <1>6, <1>7, <1>8, <1>9, <1>10, <1>11 DEF Next

LEMMA StepKeepsFiles == [Next]_vars => KeepsFiles
<1> SUFFICES ASSUME [Next]_vars PROVE KeepsFiles
  OBVIOUS
<1>1. ASSUME files' = files PROVE KeepsFiles
  BY <1>1 DEF KeepsFiles
<1>2. ASSUME NEW p, NEW v, files' = Put(files, p, v), Changing /\ p[1] = dir
      PROVE  KeepsFiles
  BY <1>2 DEF KeepsFiles, Put
<1>3. ASSUME NEW p, NEW v, files' = Put(files, p, v),
             pc = "compare" /\ p[1] = cli.exp_config.output_dir
      PROVE  KeepsFiles
  BY <1>3 DEF KeepsFiles, Put
<1>4. \A name : Comparison(name)[1] = cli.exp_config.output_dir
  BY DEF Comparison
<1>5. CASE WriteOutput
  <2>1. Changing /\ <<dir, Outputs[output]>>[1] = dir
    BY <1>5 DEF WriteOutput, Changing
  <2>2. \/ files' = files
        \/ files' = Put(files, <<dir, Outputs[output]>>, Report(<<run>>, TRUE))
    BY <1>5 DEF WriteOutput
  <2> QED BY <1>1, <1>2, <2>1, <2>2
<1>6. CASE WriteComparison
  <2>1. pc = "compare"
    BY <1>6 DEF WriteComparison
  <2>2. \E name, order : files' = Put(files, Comparison(name), Report(order, TRUE))
    BY <1>6 DEF WriteComparison
  <2> QED BY <1>3, <1>4, <2>1, <2>2
<1>7. CASE Kill
  <2>1. files' = files \/ \E path \in Writing : files' = Put(files, path, Report(<<>>, FALSE))
    BY <1>7 DEF Kill
  <2>2. ASSUME NEW path \in Writing, files' = Put(files, path, Report(<<>>, FALSE))
        PROVE  KeepsFiles
    <3>1. CASE pc = "write"
      <4>1. \E name : path = <<dir, name>>
        BY <2>2, <3>1 DEF Writing
      <4>2. Changing /\ path[1] = dir
        BY <3>1, <4>1 DEF Changing
      <4> QED BY <1>2, <2>2, <4>2
    <3>2. CASE pc = "compare"
      <4>1. \E name : path = Comparison(name)
        BY <2>2, <3>2 DEF Writing
      <4> QED BY <1>3, <1>4, <2>2, <3>2, <4>1
    <3>3. CASE pc \notin {"write", "compare"}
      BY <2>2, <3>3 DEF Writing
    <3> QED BY <3>1, <3>2, <3>3
  <2> QED BY <1>1, <2>1, <2>2
<1>8. CASE Start \/ ParseCommandLine \/ ExpandSweep \/ BuildRun \/ UNCHANGED vars
  BY <1>1, <1>8 DEF Start, ParseCommandLine, ExpandSweep, BuildRun, vars
<1>9. CASE SimulateTick \/ EndLoop \/ SkipOutput \/ FinishRun
  BY <1>1, <1>9 DEF SimulateTick, EndLoop, SkipOutput, FinishRun
<1>10. CASE \/ BuildThrows \/ LoopThrows \/ DirectoryThrows \/ OutputThrows
            \/ NothingToCompare \/ ComparisonThrows
  BY <1>1, <1>10 DEF BuildThrows, LoopThrows, DirectoryThrows, OutputThrows,
                     NothingToCompare, ComparisonThrows
<1> QED BY <1>5, <1>6, <1>7, <1>8, <1>9, <1>10 DEF Next

LEMMA KeptStays ==
    ASSUME IInv, KeepsLogs, KeepsFiles, UNCHANGED <<configs, attempt>>,
           NEW k \in DOMAIN results, Undisturbed(k)
    PROVE  Kept(k)'
<1> DEFINE d == configs[k].output_dir
<1>1. Kept(k) /\ k \in DOMAIN configs
  <2>1. k \in DOMAIN configs
    BY ConfigsType DEF IInv, ProgressInv
  <2> QED BY <2>1 DEF IInv, KeptInv
<1>2. ~(Changing /\ d = dir)
  <2> SUFFICES ASSUME Changing, d = dir PROVE FALSE
    OBVIOUS
  <2>1. run \in DOMAIN configs /\ DOMAIN results = 1 .. run - 1
    BY CurrentRun DEF Changing, IInv
  <2>2. run <= run /\ configs[run].output_dir = configs[k].output_dir
    BY DEF dir, cfg, IInv, ProgressInv
  <2>3. run <= k
    BY <2>1, <2>2 DEF Undisturbed
  <2>4. k \in 1 .. run - 1 /\ run \in Nat
    BY <2>1 DEF IInv, ProgressInv
  <2> QED BY <2>3, <2>4
<1>3. ~(pc = "compare" /\ d = cli.exp_config.output_dir)
  BY <1>1, ComparisonApart DEF IInv, CommandInv
<1> HIDE DEF d
<1>4. ASSUME NEW name, <<d, name>> \in DOMAIN files
      PROVE  <<d, name>> \in DOMAIN files' /\ files'[<<d, name>>] = files[<<d, name>>]
  <2>1. <<d, name>>[1] = d
    OBVIOUS
  <2> QED BY <1>2, <1>3, <1>4, <2>1 DEF KeepsFiles
<1>5. d \in DOMAIN logs => d \in DOMAIN logs' /\ logs'[d] = logs[d]
  BY <1>2 DEF KeepsLogs
<1>6. ASSUME NEW name \in {"summary.txt", "summary.json"}
      PROVE  <<d, name>> \in DOMAIN files' /\ files'[<<d, name>>] = Report(<<k>>, TRUE)
  BY <1>1, <1>4 DEF Kept, HasOutputs, d
<1>7. ~configs[k].null_log =>
         /\ d \in DOMAIN logs'
         /\ logs'[d] = [by |-> attempt, config |-> configs[k],
                        rows |-> RowsBefore(configs[k], configs[k].ticks), torn |-> FALSE]
  BY <1>1, <1>5 DEF Kept, HasOutputs, d
<1>8. configs' = configs /\ attempt' = attempt
  OBVIOUS
<1> QED BY <1>6, <1>7, <1>8 DEF Kept, HasOutputs, Report, d

\* A finished run has everything it should have.
LEMMA FinishedIsKept == ASSUME IInv, FinishRun, NEW k, k = run PROVE Kept(k)'
<1>1. /\ pc = "write" /\ output > 5 /\ UNCHANGED <<attempt, configs, files>>
      /\ IF IsLogging THEN LogHolds(Close(logger).stream, FALSE) ELSE logs' = logs
  BY OutputNames DEF FinishRun, Exit, IInv, ProgressInv
<1>2. Wrote(run, "summary.txt") /\ Wrote(run, "summary.json")
  BY <1>1 DEF IInv, ProgressInv, WrittenInv
<1>3. ASSUME ~cfg.null_log
      PROVE  /\ dir \in DOMAIN logs'
             /\ logs'[dir] = [by |-> attempt, config |-> cfg,
                              rows |-> RowsBefore(cfg, cfg.ticks), torn |-> FALSE]
  <2>1. /\ IsLogging /\ OpenLog(logger) /\ Given(logger) = RowsBefore(cfg, cfg.ticks)
        /\ dir \in DOMAIN logs /\ logs[dir].by = attempt /\ logs[dir].config = cfg
    BY <1>1, <1>3 DEF IInv, LoopInv
  <2>2. Close(logger).stream = Given(logger)
    BY <2>1, FlushGives
  <2>3. LogHolds(Given(logger), FALSE)
    BY <1>1, <2>1, <2>2
  <2>4. IsLog(logs[dir])
    BY <2>1 DEF IInv, LogsInv
  <2> QED BY <2>1, <2>3, <2>4, HeldAfter
<1>4. /\ <<configs[k].output_dir, "summary.txt">> \in DOMAIN files
      /\ files[<<configs[k].output_dir, "summary.txt">>] = Report(<<k>>, TRUE)
      /\ <<configs[k].output_dir, "summary.json">> \in DOMAIN files
      /\ files[<<configs[k].output_dir, "summary.json">>] = Report(<<k>>, TRUE)
  BY <1>2 DEF Wrote
<1>5. dir = configs[k].output_dir /\ cfg = configs[k]
  BY DEF dir, cfg
<1> QED BY <1>1, <1>3, <1>4, <1>5 DEF Kept, HasOutputs, Report

LEMMA KeptInvStep == IInv /\ [Next]_vars => KeptInv'
<1> SUFFICES ASSUME IInv, [Next]_vars PROVE KeptInv'
  OBVIOUS
<1>1. KeepsLogs /\ KeepsFiles
  BY StepKeepsLogs, StepKeepsFiles
<1>2. ASSUME UNCHANGED <<results, run, configs, attempt>> PROVE KeptInv'
  <2>1. ASSUME NEW k \in DOMAIN results, Undisturbed(k) PROVE Kept(k)'
    BY <1>1, <1>2, <2>1, KeptStays
  <2> QED BY <1>2, <2>1 DEF KeptInv, Undisturbed
<1>3. ASSUME results' = <<>> PROVE KeptInv'
  BY <1>3 DEF KeptInv
<1>4. CASE Start
  BY <1>3, <1>4 DEF Start
<1>5. CASE ParseCommandLine \/ ExpandSweep
  <2>1. pc \in {"parse", "expand"} /\ results' = results
    BY <1>5 DEF ParseCommandLine, ExpandSweep
  <2>2. results = <<>>
    <3>1. configs = <<>> /\ results \in Seq(Nat) /\ Len(results) <= Len(configs)
      BY <2>1 DEF IInv, ProgressInv
    <3> QED BY <3>1
  <2> QED BY <1>3, <2>1, <2>2
<1>6. CASE BuildRun \/ SimulateTick \/ EndLoop \/ WriteOutput \/ SkipOutput
  BY <1>2, <1>6 DEF BuildRun, SimulateTick, EndLoop, WriteOutput, SkipOutput
<1>7. CASE \/ BuildThrows \/ LoopThrows \/ DirectoryThrows \/ OutputThrows
           \/ NothingToCompare \/ ComparisonThrows
  BY <1>2, <1>7 DEF BuildThrows, LoopThrows, DirectoryThrows, OutputThrows,
                    NothingToCompare, ComparisonThrows
<1>8. CASE WriteComparison \/ Kill \/ UNCHANGED vars
  BY <1>2, <1>8 DEF WriteComparison, Kill, vars
<1>9. CASE FinishRun
  <2>1. /\ pc = "write" /\ UNCHANGED <<configs, attempt>>
        /\ \E jain \in JainIndexes : results' = Append(results, jain)
        /\ run' \in {run, run + 1}
    BY <1>9 DEF FinishRun
  <2>2. run \in DOMAIN configs /\ DOMAIN results = 1 .. run - 1
    BY <2>1, CurrentRun DEF IInv
  <2>3. run \in Nat \ {0} /\ results \in Seq(Nat) /\ Len(results) = run - 1
    BY <2>1 DEF IInv, ProgressInv
  <2>4. DOMAIN results' = 1 .. run
    BY <2>1, <2>3
  <2>5. ASSUME NEW k \in 1 .. run - 1, Undisturbed(k)' PROVE Kept(k)'
    <3>1. Undisturbed(k)
      <4>1. DOMAIN configs = 1 .. Len(configs) /\ Len(configs) \in Nat
        BY ConfigsType DEF IInv
      <4>2. \A j \in DOMAIN configs : j <= run => j <= run'
        BY <2>1, <2>3, <4>1
      <4> QED BY <2>1, <2>5, <4>2 DEF Undisturbed
    <3>2. k \in DOMAIN results
      BY <2>2
    <3> QED BY <1>1, <2>1, <3>1, <3>2, KeptStays
  <2>7. ASSUME NEW k \in 1 .. run, Undisturbed(k)' PROVE Kept(k)'
    <3>1. CASE k = run
      BY <1>9, <3>1, FinishedIsKept
    <3>2. CASE k # run
      <4>1. k \in 1 .. run - 1
        BY <2>3, <3>2
      <4> QED BY <2>5, <2>7, <4>1
    <3> QED BY <3>1, <3>2
  <2> QED BY <2>4, <2>7 DEF KeptInv
<1> QED BY <1>4, <1>5, <1>6, <1>7, <1>8, <1>9 DEF Next

-----------------------------------------------------------------------------
(* The comparison.                                                         *)

LEMMA RankingLength ==
    ASSUME results \in Seq(Nat), NEW order \in Rankings
    PROVE  Len(order) = Len(results)
<1> DEFINE n == Len(results)
           D == 1 .. Cardinality(1 .. n)
<1>1. n \in Nat /\ DOMAIN results = 1 .. n
  OBVIOUS
<1> HIDE DEF n
<1>2. Cardinality(1 .. n) = n
  <2>1. 1 \in Int /\ n \in Int
    BY <1>1
  <2>2. Cardinality(1 .. n) = IF 1 > n THEN 0 ELSE n - 1 + 1
    BY <2>1, FS_Interval
  <2> QED BY <1>1, <2>2
<1>3. order \in [D -> 1 .. n]
  BY <1>1 DEF Rankings, SetToSeqs
<1>4. order \in [1 .. n -> 1 .. n]
  BY <1>2, <1>3
<1>5. Len(order) = n
  BY <1>1, <1>4
<1> QED BY <1>5 DEF n

LEMMA ComparisonStays ==
    ASSUME IInv, UNCHANGED <<cli, configs, attempt>>,
           Len(results) = Len(configs) => results' = results,
           \A p \in DOMAIN files' :
              \/ Changing /\ p[1] = dir
              \/ ~files'[p].whole
              \/ p \in DOMAIN files /\ files'[p] = files[p]
    PROVE  ComparisonInv'
<1> SUFFICES ASSUME NEW name \in {"summary.txt", "summary.json"}, Whole(name)'
             PROVE  /\ configs = Planned /\ Len(results) = Len(configs) /\ results' = results
                    /\ files'[Comparison(name)] = files[Comparison(name)]
                    /\ Len(files[Comparison(name)].runs) = Len(results)
  BY DEF ComparisonInv, Planned, Comparison
<1> DEFINE p == Comparison(name)
<1>1. p' = p /\ cli.experiment_mode /\ p[1] = cli.exp_config.output_dir
      /\ p \in DOMAIN files' /\ files'[p].by = attempt /\ files'[p].whole
  BY DEF Comparison, Whole
<1>2. ~(Changing /\ p[1] = dir)
  <2> SUFFICES ASSUME Changing PROVE p[1] # dir
    OBVIOUS
  <2>1. run \in DOMAIN configs
    BY CurrentRun DEF Changing, IInv
  <2> QED BY <1>1, <2>1, ComparisonApart DEF dir, cfg
<1>3. p \in DOMAIN files /\ files'[p] = files[p]
  <2> HIDE DEF p
  <2> QED BY <1>1, <1>2
<1>4. Whole(name)
  BY <1>1, <1>3 DEF Whole
<1> QED BY <1>3, <1>4 DEF IInv, ComparisonInv

LEMMA ComparisonInvStep == IInv /\ [Next]_vars => ComparisonInv'
<1> SUFFICES ASSUME IInv, [Next]_vars PROVE ComparisonInv'
  OBVIOUS
<1>1. ASSUME UNCHANGED <<cli, configs, attempt, results, files>> PROVE ComparisonInv'
  BY <1>1, ComparisonStays
<1>2. CASE Start
  <2>1. ~cli'.experiment_mode
    BY <1>2 DEF Start, NoResult, Parsing
  <2> QED BY <2>1 DEF ComparisonInv, Whole
<1>3. CASE ParseCommandLine \/ ExpandSweep
  <2>1. pc \in {"parse", "expand"} /\ files' = files /\ attempt' = attempt
    BY <1>3 DEF ParseCommandLine, ExpandSweep
  <2>2. \A p \in DOMAIN files : files[p].by < attempt /\ files[p].by \in 0 .. attempt
    BY <2>1 DEF IInv, FilesInv
  <2>3. attempt \in Nat
    BY DEF IInv, CommandInv
  <2>4. \A p \in DOMAIN files : files[p].by # attempt
    BY <2>2, <2>3
  <2> QED BY <2>1, <2>4 DEF ComparisonInv, Whole
<1>4. CASE BuildRun \/ SimulateTick \/ EndLoop \/ SkipOutput \/ UNCHANGED vars
  BY <1>1, <1>4 DEF BuildRun, SimulateTick, EndLoop, SkipOutput, vars
<1>5. CASE \/ BuildThrows \/ LoopThrows \/ DirectoryThrows \/ OutputThrows
           \/ NothingToCompare \/ ComparisonThrows
  BY <1>1, <1>5 DEF BuildThrows, LoopThrows, DirectoryThrows, OutputThrows,
                    NothingToCompare, ComparisonThrows
<1>6. CASE WriteOutput
  <2>1. /\ UNCHANGED <<cli, configs, attempt, results>>
        /\ \/ files' = files
           \/ files' = Put(files, <<dir, Outputs[output]>>, Report(<<run>>, TRUE))
    BY <1>6 DEF WriteOutput
  <2>2. Changing
    BY <1>6 DEF WriteOutput, Changing
  <2>3. ASSUME NEW q, NEW v, files' = Put(files, q, v), q[1] = dir PROVE ComparisonInv'
    <3>1. \A p \in DOMAIN files' : \/ Changing /\ p[1] = dir
                                   \/ p \in DOMAIN files /\ files'[p] = files[p]
      BY <2>2, <2>3 DEF Put
    <3> QED BY <2>1, <3>1, ComparisonStays
  <2>4. <<dir, Outputs[output]>>[1] = dir
    OBVIOUS
  <2> QED BY <1>1, <2>1, <2>3, <2>4
<1>7. CASE FinishRun
  <2>1. Len(results) # Len(configs)
    <3>1. /\ pc = "write" /\ run \in Nat /\ run <= Len(configs) /\ Len(results) = run - 1
          /\ Len(configs) \in Nat
      BY <1>7, ConfigsType DEF FinishRun, IInv, ProgressInv
    <3> QED BY <3>1
  <2>2. UNCHANGED <<cli, configs, attempt, files>>
    BY <1>7 DEF FinishRun
  <2> QED BY <2>1, <2>2, ComparisonStays
<1>8. CASE WriteComparison
  <2>1. /\ pc = "compare" /\ UNCHANGED <<cli, configs, attempt, results>>
        /\ configs = Planned /\ Len(results) = Len(configs) /\ results \in Seq(Nat)
    BY <1>8 DEF WriteComparison, IInv, ProgressInv, Running
  <2>2. \E path, order : /\ files' = Put(files, path, Report(order, TRUE))
                         /\ Len(order) = Len(results)
    <3>1. CASE output = 1
      <4>1. PICK order \in Rankings :
               files' = Put(files, Comparison("summary.txt"), Report(order, TRUE))
        <5>1. ~(output = 2)
          BY <3>1
        <5> QED BY <1>8, <5>1, Zenon DEF WriteComparison
      <4> QED BY <2>1, <4>1, RankingLength
    <3>2. CASE output # 1
      <4> DEFINE order == [k \in DOMAIN results |-> k]
      <4>1. Len(order) = Len(results)
        BY <2>1
      <4>2. files' = Put(files, Comparison("summary.json"), Report(order, TRUE))
        BY <1>8, <3>2 DEF WriteComparison
      <4> HIDE DEF order
      <4> QED BY <4>1, <4>2
    <3> QED BY <3>1, <3>2
  <2>3. ASSUME NEW path, NEW order, files' = Put(files, path, Report(order, TRUE)),
               Len(order) = Len(results),
               NEW name \in {"summary.txt", "summary.json"}, Whole(name)'
        PROVE  Len(files'[Comparison(name)].runs) = Len(results)
    <3> DEFINE p == Comparison(name)
               v == Report(order, TRUE)
    <3>1. p' = p /\ cli.experiment_mode /\ p \in DOMAIN files' /\ files'[p].by = attempt
          /\ files'[p].whole
      BY <2>1, <2>3 DEF Comparison, Whole
    <3>2. v.runs = order
      BY DEF Report
    <3>3. files' = Put(files, path, v)
      BY <2>3
    <3> HIDE DEF p, v
    <3>4. CASE p = path
      BY <2>3, <3>2, <3>3, <3>4 DEF Put, p
    <3>5. CASE p # path
      <4>1. p \in DOMAIN files /\ files'[p] = files[p]
        BY <3>1, <3>3, <3>5 DEF Put
      <4>2. Whole(name)
        BY <3>1, <4>1 DEF Whole, p
      <4> QED BY <4>1, <4>2 DEF IInv, ComparisonInv, p
    <3> QED BY <3>4, <3>5
  <2>4. configs' = Planned'
    BY <2>1 DEF Planned
  <2>5. \A name : Comparison(name)' = Comparison(name)
    BY <2>1 DEF Comparison
  <2> QED BY <2>1, <2>2, <2>3, <2>4, <2>5 DEF ComparisonInv
<1>9. CASE Kill
  <2>1. /\ UNCHANGED <<cli, configs, attempt, results>>
        /\ files' = files \/ \E path : files' = Put(files, path, Report(<<>>, FALSE))
    BY <1>9 DEF Kill
  <2>2. ASSUME NEW path, files' = Put(files, path, Report(<<>>, FALSE))
        PROVE  ComparisonInv'
    <3> DEFINE v == Report(<<>>, FALSE)
    <3>1. ~v.whole
      BY DEF Report
    <3>2. files' = Put(files, path, v)
      BY <2>2
    <3> HIDE DEF v
    <3>3. \A p \in DOMAIN files' : ~files'[p].whole \/ (p \in DOMAIN files /\ files'[p] = files[p])
      BY <3>1, <3>2 DEF Put
    <3> QED BY <2>1, <3>3, ComparisonStays
  <2> QED BY <1>1, <2>1, <2>2
<1> QED BY <1>2, <1>3, <1>4, <1>5, <1>6, <1>7, <1>8, <1>9 DEF Next

-----------------------------------------------------------------------------
(* The end of the program.                                                 *)

LEMMA EndInvStep == IInv /\ [Next]_vars => EndInv'
<1> SUFFICES ASSUME IInv, [Next]_vars PROVE EndInv'
  OBVIOUS
<1>0. pc # "shell" => exit = "none"
  BY DEF IInv, CommandInv
<1>1. ASSUME exit' # "success", pc' # "compare" PROVE EndInv'
  BY <1>1 DEF EndInv
<1>2. CASE Start
  BY <1>1, <1>2 DEF Start
<1>3. CASE ParseCommandLine
  <2>1. pc' # "compare" /\ exit = "none"
    BY <1>0, <1>3 DEF ParseCommandLine, Exit
  <2>2. exit' = "success" => cli'.status = "help"
    BY <1>3, <2>1 DEF ParseCommandLine, Exit
  <2> QED BY <2>1, <2>2 DEF EndInv
<1>4. CASE ExpandSweep
  <2>1. pc = "expand" /\ exit = "none" /\ output = 1 /\ output' = output
    BY <1>0, <1>4 DEF ExpandSweep, IInv, ProgressInv
  <2>2. exit' # "success"
    BY <1>4, <2>1 DEF ExpandSweep, Exit
  <2> QED BY <2>1, <2>2 DEF EndInv
<1>5. CASE BuildRun \/ SimulateTick \/ EndLoop \/ WriteOutput \/ SkipOutput
  BY <1>0, <1>1, <1>5 DEF BuildRun, SimulateTick, EndLoop, WriteOutput, SkipOutput
<1>6. CASE \/ BuildThrows \/ LoopThrows \/ DirectoryThrows \/ OutputThrows
           \/ ComparisonThrows \/ Kill
  BY <1>1, <1>6 DEF BuildThrows, LoopThrows, DirectoryThrows, OutputThrows,
                    ComparisonThrows, Kill, Exit
<1>7. CASE FinishRun
  <2>1. pc = "write" /\ exit = "none" /\ output' = 1
        /\ UNCHANGED <<cli, configs>>
        /\ \E jain \in JainIndexes : results' = Append(results, jain)
    BY <1>0, <1>7 DEF FinishRun
  <2>2. CASE cli.experiment_mode
    <3>1. exit' = "none"
      BY <1>7, <2>1, <2>2 DEF FinishRun
    <3> QED BY <2>1, <3>1 DEF EndInv
  <2>3. CASE ~cli.experiment_mode
    <3>1. pc' = "shell"
      BY <1>7, <2>3 DEF FinishRun, Exit
    <3>2. configs = Planned /\ run \in Nat \ {0} /\ run <= Len(configs)
          /\ results \in Seq(Nat) /\ Len(results) = run - 1
      BY <2>1 DEF IInv, ProgressInv, Running
    <3>3. Len(configs) = 1
      BY <2>3, <3>2 DEF Planned
    <3>4. Len(results') = 1
      BY <2>1, <3>2, <3>3
    <3>5. Planned' = Planned
      BY <2>1 DEF Planned
    <3> QED BY <2>1, <2>3, <3>1, <3>2, <3>3, <3>4, <3>5 DEF EndInv
  <2> QED BY <2>2, <2>3
<1>8. CASE WriteComparison
  <2>1. /\ pc = "compare" /\ exit = "none" /\ UNCHANGED <<cli, configs, attempt, results>>
    BY <1>0, <1>8 DEF WriteComparison
  <2>2. configs = Planned /\ Len(results) = Len(configs)
    BY <2>1 DEF IInv, ProgressInv, Running
  <2>3. \/ output = 1 /\ pc' = pc /\ exit' = exit /\ output' = 2
           /\ \E order \in Rankings :
                 files' = Put(files, Comparison("summary.txt"), Report(order, TRUE))
        \/ output = 2 /\ output' = 2
           /\ files' = Put(files, Comparison("summary.json"),
                           Report([k \in DOMAIN results |-> k], TRUE))
           /\ Exit("success")
    BY <1>8, Zenon DEF WriteComparison
  <2>4. /\ \A name : Comparison(name)' = Comparison(name)
        /\ \A order : Report(order, TRUE)' = Report(order, TRUE)
        /\ Rankings' = Rankings /\ Planned' = Planned
    BY <2>1 DEF Comparison, Report, Rankings, Planned
  <2>5. CASE output = 1
    <3>1. ~(output = 2)
      BY <2>5
    <3>2. PICK order \in Rankings :
             files' = Put(files, Comparison("summary.txt"), Report(order, TRUE))
      BY <2>3, <3>1, Zenon
    <3> DEFINE p == Comparison("summary.txt")
               v == Report(order, TRUE)
    <3>3. p' = p /\ files' = Put(files, p, v)
      BY <2>4, <3>2
    <3>4. p \in DOMAIN files' /\ files'[p] = v
      <4> HIDE DEF p, v
      <4> QED BY <3>3 DEF Put
    <3>5. Ranked'
      <4>1. order \in Rankings' /\ v = Report(order, TRUE)'
        BY <2>4
      <4> QED BY <3>3, <3>4, <4>1 DEF Ranked
    <3>6. pc' = "compare" /\ exit' = "none" /\ output' = 2
      BY <2>1, <2>3, <3>1
    <3> QED BY <3>5, <3>6 DEF EndInv
  <2>6. CASE output # 1
    <3>1. output = 2 /\ Ranked
      BY <2>1, <2>6 DEF IInv, EndInv
    <3> DEFINE p == Comparison("summary.txt")
               q == Comparison("summary.json")
               v == Report([k \in DOMAIN results |-> k], TRUE)
    <3>2. p' = p /\ q' = q /\ v' = v
      BY <2>1, <2>4 DEF Report
    <3>3. files' = Put(files, q, v) /\ Exit("success")
      BY <2>3, <2>6
    <3>4. p # q
      BY DEF Comparison
    <3>5. PICK order \in Rankings : files[p] = Report(order, TRUE)
      BY <3>1 DEF Ranked
    <3>6. p \in DOMAIN files
      BY <3>1 DEF Ranked
    <3>7. /\ p \in DOMAIN files' /\ files'[p] = files[p]
          /\ q \in DOMAIN files' /\ files'[q] = v
      <4> HIDE DEF p, q, v
      <4> QED BY <3>3, <3>4, <3>6 DEF Put
    <3>8. Ranked'
      <4>1. order \in Rankings' /\ files'[p] = Report(order, TRUE)'
        BY <2>4, <3>5, <3>7
      <4> QED BY <3>2, <3>7, <4>1 DEF Ranked
    <3>9. pc' = "shell"
      BY <3>3 DEF Exit
    <3> QED BY <2>1, <2>2, <2>4, <3>2, <3>7, <3>8, <3>9 DEF EndInv
  <2> QED BY <2>5, <2>6
<1>9. CASE NothingToCompare
  <2>1. /\ pc = "compare" /\ results = <<>> /\ UNCHANGED <<cli, configs, results>>
        /\ pc' = "shell"
    BY <1>9 DEF NothingToCompare, Exit
  <2>2. configs = Planned /\ Len(results) = Len(configs) /\ cli.experiment_mode
    BY <2>1 DEF IInv, ProgressInv, CommandInv, Running
  <2>3. configs = <<>>
    <3>1. configs = [k \in 1 .. TotalRuns(cli.exp_config) |-> RunConfig(cli.exp_config, k)]
      BY <2>2 DEF Planned, Expand
    <3>2. TotalRuns(cli.exp_config) = 0
      <4>1. configs = Expand(cli.exp_config) /\ ExpOK(cli.exp_config)
        BY <2>2 DEF Planned, IInv, CommandInv, ResultOK
      <4>2. Len(configs) = TotalRuns(cli.exp_config)
        BY <4>1, ExpandType
      <4> QED BY <2>1, <2>2, <4>2
    <3> QED BY <3>1, <3>2
  <2>4. Planned' = Planned
    BY <2>1 DEF Planned
  <2> QED BY <2>1, <2>2, <2>3, <2>4 DEF EndInv
<1>10. CASE UNCHANGED vars
  BY <1>10 DEF vars, IInv, EndInv, Planned, Ranked, Comparison, Report, Rankings
<1> QED BY <1>2, <1>3, <1>4, <1>5, <1>6, <1>7, <1>8, <1>9, <1>10 DEF Next

-----------------------------------------------------------------------------
(* The invariant.                                                          *)

LEMMA InvInit == Init => IInv
<1> SUFFICES ASSUME Init PROVE IInv
  OBVIOUS
<1>1. /\ line \in Lines /\ attempt = 0 /\ pc = "shell" /\ exit = "none" /\ cli = NoResult
      /\ configs = <<>> /\ run = 1 /\ tick = 0 /\ logger = NoLogger /\ output = 1
      /\ results = <<>> /\ logs = <<>> /\ files = <<>>
  BY DEF Init
<1>2. CommandInv
  BY <1>1, NoResultOK DEF CommandInv, Steps, Running
<1>3. ProgressInv
  <2>1. results \in Seq(Nat) /\ Len(results) = 0 /\ Len(configs) = 0
    BY <1>1
  <2> QED BY <1>1, <2>1 DEF ProgressInv, Running
<1>4. LoopInv
  BY <1>1, NoLoggerIsNull DEF LoopInv, IsLogging
<1>5. LogsInv /\ TornInv /\ FilesInv
  BY <1>1 DEF LogsInv, TornInv, FilesInv
<1>6. WrittenInv /\ KeptInv /\ ValidRuns
  BY <1>1 DEF WrittenInv, KeptInv, ValidRuns, Running
<1>7. ComparisonInv /\ EndInv
  BY <1>1 DEF ComparisonInv, EndInv, Whole
<1> QED BY <1>2, <1>3, <1>4, <1>5, <1>6, <1>7 DEF IInv

LEMMA InvHolds == Spec => []IInv
<1>1. IInv /\ [Next]_vars => IInv'
  <2> SUFFICES ASSUME IInv, [Next]_vars PROVE IInv'
    OBVIOUS
  <2>1. CommandInv' /\ ProgressInv' /\ LoopInv' /\ LogsInv' /\ TornInv'
    BY CommandInvStep, ProgressInvStep, LoopInvStep, LogsInvStep, TornInvStep
  <2>2. FilesInv' /\ WrittenInv' /\ KeptInv' /\ ComparisonInv' /\ EndInv'
    BY FilesInvStep, WrittenInvStep, KeptInvStep, ComparisonInvStep, EndInvStep
  <2>3. ValidRuns'
    BY ValidRunsStep DEF IInv
  <2> QED BY <2>1, <2>2, <2>3 DEF IInv
<1> QED BY <1>1, InvInit, PTL DEF Spec

\* Whatever fails and whenever the process is killed, the log of a run holds
\* the first rows of that run, in order and none twice.  Only a kill leaves a
\* torn row, the beginning of the one that comes next; and until a log is closed
\* no row is missing between its file, its stream and its buffer
\* (CSVLogger::flushBuffer, BinaryLogger::flushBuffer, Simulator::run).
THEOREM LogsArePrefixes == Spec => []LogIsPrefix
<1>1. IInv => LogIsPrefix
  <2> SUFFICES ASSUME IInv PROVE LogIsPrefix
    OBVIOUS
  <2>1. \A d \in DOMAIN logs :
           /\ IsPrefix(logs[d].rows, RowsBefore(logs[d].config, logs[d].config.ticks))
           /\ logs[d].torn =>
                 Len(logs[d].rows) < Len(RowsBefore(logs[d].config, logs[d].config.ticks))
    BY DEF IInv, LogsInv, IsLog
  <2>2. IsLogging => logger.stream \o logger.buffer = RowsBefore(cfg, tick)
    BY DEF IInv, LoopInv, Given
  <2>3. \A d \in DOMAIN logs : logs[d].torn /\ logs[d].by = attempt => exit = "killed"
    BY DEF IInv, TornInv
  <2> QED BY <2>1, <2>2, <2>3 DEF LogIsPrefix
<1> QED BY <1>1, InvHolds, PTL

\* The last run in a directory has not been disturbed.
LEMMA LastIsLast ==
    ASSUME IInv, Len(results) = Len(configs), NEW k \in DOMAIN configs
    PROVE  HasOutputs(LastIn(k))
<1> DEFINE same == {j \in DOMAIN configs : configs[j].output_dir = configs[k].output_dir}
           n == Len(configs)
<1>1. n \in Nat /\ DOMAIN configs = 1 .. n /\ DOMAIN results = 1 .. n
  BY ConfigsType DEF IInv, ProgressInv
<1>2. same \subseteq 1 .. n /\ k \in same
  BY <1>1
<1> HIDE DEF same, n
<1>3. PICK m \in same : \A j \in same : m >= j
  <2>1. IsFiniteSet(same)
    <3>1. 1 \in Int /\ n \in Int
      BY <1>1
    <3>2. IsFiniteSet(1 .. n)
      BY <3>1, FS_Interval
    <3> QED BY <1>2, <3>2, FS_Subset
  <2> DEFINE P == {T \in SUBSET same : T # {} => \E x \in T : \A y \in T : x >= y}
  <2>2. {} \in P
    OBVIOUS
  <2>3. ASSUME NEW T \in SUBSET same, NEW x \in same, T \in P, x \notin T
        PROVE  T \cup {x} \in P
    <3>1. CASE T = {}
      BY <1>1, <1>2, <3>1
    <3>2. CASE T # {}
      <4>1. PICK z \in T : \A y \in T : z >= y
        BY <2>3, <3>2
      <4>2. z \in Nat /\ x \in Nat /\ \A y \in T : y \in Nat
        BY <1>1, <1>2
      <4>3. CASE z >= x
        BY <4>1, <4>3
      <4>4. CASE ~(z >= x)
        BY <4>1, <4>2, <4>4
      <4> QED BY <4>3, <4>4
    <3> QED BY <3>1, <3>2
  <2> HIDE DEF P
  <2>4. same \in P
    BY <2>1, <2>2, <2>3, FiniteSetInduction
  <2> QED BY <1>2, <2>4 DEF P
<1>4. LastIn(k) \in same /\ \A j \in same : LastIn(k) >= j
  <2>1. LastIn(k) = CHOOSE x \in same : \A y \in same : x >= y
    BY DEF LastIn, Max, same
  <2> QED BY <1>3, <2>1
<1> DEFINE last == LastIn(k)
<1> HIDE DEF last
<1>5. last \in 1 .. n /\ last \in same /\ \A j \in same : j <= last
  BY <1>1, <1>2, <1>4 DEF last
<1>6. Undisturbed(last)
  BY <1>1, <1>5 DEF Undisturbed, same
<1>7. HasOutputs(last)
  BY <1>1, <1>5, <1>6 DEF IInv, KeptInv, Kept
<1> QED BY <1>7 DEF last

\* A comparison that this attempt has written whole compares all the runs of
\* the sweep, and the results of each of them are on the disk: no failure makes
\* the program compare some of the runs (Experiment::run).
THEOREM ComparisonsAreWhole == Spec => []NoPartialComparison
<1>1. IInv => NoPartialComparison
  <2> SUFFICES ASSUME IInv, NEW name \in {"summary.txt", "summary.json"}, Whole(name)
               PROVE  /\ Len(files[Comparison(name)].runs) = TotalRuns(cli.exp_config)
                      /\ \A k \in DOMAIN configs : HasOutputs(LastIn(k))
    BY DEF NoPartialComparison, Whole
  <2>1. /\ configs = Expand(cli.exp_config) /\ Len(results) = Len(configs)
        /\ Len(files[Comparison(name)].runs) = Len(results)
    BY DEF IInv, ComparisonInv, Whole, Planned
  <2>2. ExpOK(cli.exp_config)
    BY DEF IInv, CommandInv, ResultOK
  <2>3. Len(configs) = TotalRuns(cli.exp_config)
    BY <2>1, <2>2, ExpandType
  <2> QED BY <2>1, <2>3, LastIsLast
<1> QED BY <1>1, InvHolds, PTL

\* When the program reports success, this attempt has made every run, the last
\* run of each directory has its log and both summaries there, and the summary
\* of a sweep lists each run once, the fairest first (main, Simulator::run,
\* Experiment::writeSummary).
THEOREM SuccessIsHonest == Spec => []SuccessMeansWritten
<1>1. IInv => SuccessMeansWritten
  <2> SUFFICES ASSUME IInv, exit = "success", cli.status = "ok"
               PROVE  /\ Len(results) = Len(configs)
                      /\ \A k \in DOMAIN configs : HasOutputs(LastIn(k))
                      /\ cli.experiment_mode /\ configs # <<>> =>
                            /\ files[Comparison("summary.json")] =
                                  Report([k \in DOMAIN configs |-> k], TRUE)
                            /\ Ranked
    BY DEF SuccessMeansWritten, Ranked
  <2>1. Len(results) = Len(configs)
    BY DEF IInv, EndInv
  <2>2. \A k \in DOMAIN configs : HasOutputs(LastIn(k))
    BY <2>1, LastIsLast
  <2>3. DOMAIN results = DOMAIN configs
    BY <2>1, ConfigsType DEF IInv, ProgressInv
  <2>4. cli.experiment_mode /\ configs # <<>> =>
           /\ Ranked
           /\ files[Comparison("summary.json")] = Report([k \in DOMAIN results |-> k], TRUE)
    BY DEF IInv, EndInv
  <2> QED BY <2>1, <2>2, <2>3, <2>4
<1> QED BY <1>1, InvHolds, PTL

-----------------------------------------------------------------------------
(* Counting with the lengths of the axes as digits.                        *)

LEMMA Divided ==
    ASSUME NEW a \in Nat, NEW b \in Nat \ {0}
    PROVE  /\ a \div b \in Nat /\ a % b \in 0 .. b - 1
           /\ a = b * (a \div b) + (a % b)
BY Z3

LEMMA Quotient ==
    ASSUME NEW b \in Nat \ {0}, NEW q \in Nat, NEW r \in 0 .. b - 1, NEW a, a = b * q + r
    PROVE  a \div b = q /\ a % b = r
BY Z3

LEMMA Regroup ==
    ASSUME NEW l \in Nat, NEW p \in Nat, NEW s \in Nat, NEW t \in Nat, NEW r \in Nat
    PROVE  p * (l * s + t) + r = (l * p) * s + (p * t + r)
BY Z3

LEMMA BelowProduct ==
    ASSUME NEW l \in Nat \ {0}, NEW p \in Nat \ {0}, NEW t \in 0 .. l - 1, NEW r \in 0 .. p - 1
    PROVE  p * t + r \in 0 .. (l * p) - 1 /\ l * p \in Nat \ {0}
<1>1. p * t \in Nat /\ p * t <= p * (l - 1)
  BY Z3
<1>2. p * (l - 1) = l * p - p /\ l * p \in Nat \ {0}
  BY Z3
<1> QED BY <1>1, <1>2

LEMMA Tower ==
    ASSUME NEW x \in Nat, NEW l \in Nat \ {0}, NEW p \in Nat \ {0}
    PROVE  x \div p = l * (x \div (l * p)) + ((x \div p) % l)
<1> DEFINE q == x \div p
           r == x % p
           s == q \div l
           t == q % l
<1>1. q \in Nat /\ r \in 0 .. p - 1 /\ x = p * q + r
  BY Divided
<1> HIDE DEF q, r
<1>2. s \in Nat /\ t \in 0 .. l - 1 /\ q = l * s + t
  BY <1>1, Divided
<1> HIDE DEF s, t
<1>3. x = (l * p) * s + (p * t + r)
  <2>1. t \in Nat /\ r \in Nat
    BY <1>1, <1>2
  <2> QED BY <1>1, <1>2, <2>1, Regroup
<1>4. p * t + r \in 0 .. (l * p) - 1 /\ l * p \in Nat \ {0}
  BY <1>1, <1>2, BelowProduct
<1> DEFINE lp == l * p
           rest == p * t + r
<1>5. lp \in Nat \ {0} /\ rest \in 0 .. lp - 1 /\ x = lp * s + rest
  BY <1>3, <1>4
<1> HIDE DEF lp, rest
<1>6. x \div lp = s
  BY <1>2, <1>5, Quotient
<1> QED BY <1>2, <1>6 DEF lp, q, t

\* x is among the p numbers that have a as their quotient by p.
Zooms(q, l, p, d, a, x) ==
    /\ q \in Nat /\ l \in Nat \ {0} /\ p \in Nat \ {0} /\ d \in 0 .. l - 1 /\ x \in Nat
    /\ a = q * l + d /\ a * p <= x /\ x < (a + 1) * p

LEMMA Zoom ==
    ASSUME NEW q, NEW l, NEW p, NEW d, NEW a, NEW x, Zooms(q, l, p, d, a, x)
    PROVE  /\ q * (l * p) <= x /\ x < (q + 1) * (l * p)
           /\ (x \div p) % l = d
<1> USE DEF Zooms
<1> DEFINE r == x - a * p
<1>1. a \in Nat /\ a * p \in Nat
  BY Z3
<1>2. (a + 1) * p = a * p + p
  BY Z3
<1>3. q * (l * p) = (q * l) * p /\ (q * l) * p \in Nat /\ a * p = (q * l) * p + d * p
      /\ (q + 1) * (l * p) = (q * l) * p + l * p
  BY Z3
<1>4. d * p \in Nat /\ d * p + p <= l * p /\ l * p \in Nat
  <2>1. (l - d) * p >= p
    BY Z3
  <2>2. (l - d) * p = l * p - d * p /\ d * p \in Nat /\ l * p \in Nat
    BY Z3
  <2> QED BY <2>1, <2>2
<1>5. q * (l * p) <= x /\ x < (q + 1) * (l * p)
  <2> DEFINE qlp == (q * l) * p
             dp == d * p
             lp == l * p
  <2>1. qlp \in Nat /\ dp \in Nat /\ lp \in Nat /\ dp + p <= lp
        /\ qlp + dp <= x /\ x < qlp + dp + p
    BY <1>1, <1>2, <1>3, <1>4
  <2>2. q * (l * p) = qlp /\ (q + 1) * (l * p) = qlp + lp
    BY <1>3
  <2> HIDE DEF qlp, dp, lp
  <2>3. qlp <= x /\ x < qlp + lp
    BY <2>1
  <2> QED BY <2>2, <2>3
<1>6. r \in 0 .. p - 1 /\ x = p * a + r
  <2>1. a * p <= x /\ x < a * p + p
    BY <1>2
  <2>2. p * a = a * p
    BY <1>1, Z3
  <2> DEFINE ap == a * p
  <2>3. ap \in Nat /\ ap <= x /\ x < ap + p /\ r = x - ap /\ p * a = ap
    BY <1>1, <2>1, <2>2
  <2> HIDE DEF r, ap
  <2> QED BY <2>3
<1>7. x \div p = a
  <2> HIDE DEF r
  <2> QED BY <1>1, <1>6, Quotient
<1>8. a % l = d
  <2>1. a = l * q + d
    BY Z3
  <2> QED BY <2>1, Quotient
<1> QED BY <1>5, <1>7, <1>8

\* The position of the k-th run on an axis, counted from 0.
Digit(axes, i, k) == ((k - 1) \div ProductFrom(axes, i + 1)) % Len(axes[i])

Lengths(axes) == \A i \in 1 .. 8 : Len(axes[i]) \in Nat

LEMMA NoEmptyAxis ==
    ASSUME NEW axes, Lengths(axes), ProductFrom(axes, 1) > 0
    PROVE  /\ \A i \in 1 .. 9 : ProductFrom(axes, i) \in Nat \ {0}
           /\ \A i \in 1 .. 8 : Len(axes[i]) \in Nat \ {0}
<1> DEFINE P == {i \in 1 .. 9 : ProductFrom(axes, i) \in Nat \ {0}}
<1>1. /\ \A i \in 1 .. 8 : ProductFrom(axes, i) = Len(axes[i]) * ProductFrom(axes, i + 1)
      /\ \A i \in 1 .. 9 : ProductFrom(axes, i) \in Nat
  BY Products DEF Lengths
<1>2. ASSUME NEW m \in Nat, NEW n \in Nat, m * n # 0 PROVE m \in Nat \ {0} /\ n \in Nat \ {0}
  BY <1>2, Z3
<1>3. ASSUME NEW i \in 1 .. 8, ProductFrom(axes, i) \in Nat \ {0}
      PROVE  Len(axes[i]) \in Nat \ {0} /\ ProductFrom(axes, i + 1) \in Nat \ {0}
  <2>1. i + 1 \in 1 .. 9
    OBVIOUS
  <2> DEFINE m == Len(axes[i])
             n == ProductFrom(axes, i + 1)
  <2>2. m \in Nat /\ n \in Nat /\ m * n # 0
    BY <1>1, <1>3, <2>1 DEF Lengths
  <2> HIDE DEF m, n
  <2>3. m \in Nat \ {0} /\ n \in Nat \ {0}
    BY <1>2, <2>2
  <2> QED BY <2>3 DEF m, n
<1>4. 1 \in P
  BY <1>1
<1>5. ASSUME NEW i \in 1 + 1 .. 9, i - 1 \in P PROVE i \in P
  <2>1. i - 1 \in 1 .. 8 /\ (i - 1) + 1 = i /\ i \in 1 .. 9
    OBVIOUS
  <2> QED BY <1>3, <1>5, <2>1
<1> HIDE DEF P
<1>6. \A i \in 1 .. 9 : i \in P
  <2>1. 1 \in Int /\ 9 \in Int
    OBVIOUS
  <2> QED BY <1>4, <1>5, <2>1, IntervalInduction
<1>7. \A i \in 1 .. 9 : ProductFrom(axes, i) \in Nat \ {0}
  BY <1>6 DEF P
<1>8. \A i \in 1 .. 8 : i \in 1 .. 9
  OBVIOUS
<1> QED BY <1>3, <1>7, <1>8

\* Two runs at the same position on every axis are the same run.
LEMMA SameDigits ==
    ASSUME NEW axes, Lengths(axes), NEW j \in 1 .. ProductFrom(axes, 1),
           NEW k \in 1 .. ProductFrom(axes, 1),
           \A i \in 1 .. 8 : Digit(axes, i, j) = Digit(axes, i, k)
    PROVE  j = k
<1> DEFINE P == {i \in 1 .. 9 : (j - 1) \div ProductFrom(axes, i)
                                   = (k - 1) \div ProductFrom(axes, i)}
           all == ProductFrom(axes, 1)
           x == j - 1
           y == k - 1
<1>1. /\ \A i \in 1 .. 8 : ProductFrom(axes, i) = Len(axes[i]) * ProductFrom(axes, i + 1)
      /\ \A i \in 1 .. 9 : ProductFrom(axes, i) \in Nat
      /\ ProductFrom(axes, 9) = 1
  BY Products DEF Lengths
<1>2. all \in Nat /\ all > 0 /\ x \in 0 .. all - 1 /\ y \in 0 .. all - 1
  <2>1. all \in Nat /\ j \in 1 .. all /\ k \in 1 .. all
    BY <1>1
  <2> HIDE DEF all, P
  <2> QED BY <2>1
<1>3. /\ \A i \in 1 .. 9 : ProductFrom(axes, i) \in Nat \ {0}
      /\ \A i \in 1 .. 8 : Len(axes[i]) \in Nat \ {0}
  BY <1>2, NoEmptyAxis
<1>4. 1 \in P
  <2> HIDE DEF all, x, y
  <2>1. x = all * 0 + x /\ y = all * 0 + y /\ all \in Nat \ {0}
    BY <1>2
  <2>2. x \div all = 0 /\ y \div all = 0
    BY <1>2, <2>1, Quotient
  <2> QED BY <2>2 DEF all, x, y
<1>5. ASSUME NEW i \in 1 + 1 .. 9, i - 1 \in P PROVE i \in P
  <2> DEFINE l == Len(axes[i - 1])
             p == ProductFrom(axes, i)
  <2>1. i - 1 \in 1 .. 8 /\ (i - 1) + 1 = i /\ i \in 1 .. 9
    OBVIOUS
  <2>2. l \in Nat \ {0} /\ p \in Nat \ {0} /\ ProductFrom(axes, i - 1) = l * p
    BY <1>1, <1>3, <2>1
  <2>3. x \div (l * p) = y \div (l * p)
    BY <1>5, <2>2
  <2>4. (x \div p) % l = (y \div p) % l
    BY <2>1 DEF Digit
  <2>5. x \in Nat /\ y \in Nat
    BY <1>2
  <2> HIDE DEF l, p, x, y
  <2>6. x \div p = l * (x \div (l * p)) + ((x \div p) % l)
        /\ y \div p = l * (y \div (l * p)) + ((y \div p) % l)
    BY <2>2, <2>5, Tower
  <2>7. x \div p = y \div p
    BY <2>3, <2>4, <2>6
  <2> QED BY <2>1, <2>7 DEF p, x, y
<1> HIDE DEF P
<1>6. \A i \in 1 .. 9 : i \in P
  <2>1. 1 \in Int /\ 9 \in Int
    OBVIOUS
  <2> QED BY <1>4, <1>5, <2>1, IntervalInduction
<1>7. x \div 1 = y \div 1
  BY <1>1, <1>6 DEF P
<1>8. x = y
  BY <1>2, <1>7
<1> QED BY <1>8

LEMMA Composed == ASSUME NEW q \in Nat, NEW l \in Nat, NEW b \in Nat PROVE q * l + b \in Nat
BY Z3

\* Every combination of positions is some run's.
LEMMA DigitsReach ==
    ASSUME NEW axes, Lengths(axes), NEW d, \A i \in 1 .. 8 : d[i] \in 0 .. Len(axes[i]) - 1
    PROVE  \E k \in 1 .. ProductFrom(axes, 1) : \A i \in 1 .. 8 : Digit(axes, i, k) = d[i]
<1> DEFINE all == ProductFrom(axes, 1)
           Within(i, q) == {x \in Nat : q * ProductFrom(axes, i) <= x
                                        /\ x < (q + 1) * ProductFrom(axes, i)}
           Fits(i, x) == /\ x < all
                         /\ \A a \in 1 .. 8 : a < i => Digit(axes, a, x + 1) = d[a]
           P == {i \in 1 .. 9 : \E q \in Nat : \A x \in Within(i, q) : Fits(i, x)}
<1>1. /\ \A i \in 1 .. 8 : ProductFrom(axes, i) = Len(axes[i]) * ProductFrom(axes, i + 1)
      /\ \A i \in 1 .. 9 : ProductFrom(axes, i) \in Nat
      /\ ProductFrom(axes, 9) = 1
  BY Products DEF Lengths
<1>2. ASSUME NEW i \in 1 .. 8 PROVE Len(axes[i]) \in Nat \ {0}
  <2> DEFINE l == Len(axes[i])
  <2>1. l \in Nat /\ d[i] \in 0 .. l - 1
    BY DEF Lengths
  <2> HIDE DEF l
  <2>2. l \in Nat \ {0}
    BY <2>1
  <2> QED BY <2>2 DEF l
<1>3. all > 0
  <2>1. ASSUME NEW l \in Nat \ {0}, NEW p \in Nat \ {0} PROVE l * p \in Nat \ {0}
    BY Z3
  <2> DEFINE p(i) == ProductFrom(axes, i)
             l(i) == Len(axes[i])
  <2>2. /\ p(8) = l(8) * p(9) /\ p(7) = l(7) * p(8) /\ p(6) = l(6) * p(7)
        /\ p(5) = l(5) * p(6) /\ p(4) = l(4) * p(5) /\ p(3) = l(3) * p(4)
        /\ p(2) = l(2) * p(3) /\ p(1) = l(1) * p(2)
    <3> HIDE DEF P, Fits, Within
    <3>1. \A i \in 1 .. 8 : p(i) = l(i) * p(i + 1)
      BY <1>1
    <3> HIDE DEF p, l
    <3> QED BY <3>1
  <2>3. /\ l(1) \in Nat \ {0} /\ l(2) \in Nat \ {0} /\ l(3) \in Nat \ {0}
        /\ l(4) \in Nat \ {0} /\ l(5) \in Nat \ {0} /\ l(6) \in Nat \ {0}
        /\ l(7) \in Nat \ {0} /\ l(8) \in Nat \ {0}
    <3> HIDE DEF P, Fits, Within
    <3> QED BY <1>2
  <2>4. p(9) \in Nat \ {0}
    BY <1>1
  <2> HIDE DEF p, l
  <2>8. p(8) \in Nat \ {0}
    BY <2>1, <2>2, <2>3, <2>4
  <2>9. p(7) \in Nat \ {0}
    BY <2>1, <2>2, <2>3, <2>8
  <2>10. p(6) \in Nat \ {0}
    BY <2>1, <2>2, <2>3, <2>9
  <2>11. p(5) \in Nat \ {0}
    BY <2>1, <2>2, <2>3, <2>10
  <2>12. p(4) \in Nat \ {0}
    BY <2>1, <2>2, <2>3, <2>11
  <2>13. p(3) \in Nat \ {0}
    BY <2>1, <2>2, <2>3, <2>12
  <2>14. p(2) \in Nat \ {0}
    BY <2>1, <2>2, <2>3, <2>13
  <2>15. p(1) \in Nat \ {0}
    BY <2>1, <2>2, <2>3, <2>14
  <2>6. p(1) > 0
    BY <2>15
  <2> QED BY <2>6 DEF p
<1>4. \A i \in 1 .. 9 : ProductFrom(axes, i) \in Nat \ {0}
  BY <1>3, NoEmptyAxis
<1>5. 1 \in P
  <2>1. all \in Nat
    BY <1>1
  <2>2. ASSUME NEW x \in Within(1, 0) PROVE Fits(1, x)
    <3>1. x \in Nat /\ x < (0 + 1) * all
      BY DEF Within
    <3>2. x < all
      BY <2>1, <3>1
    <3> QED BY <3>2
  <2> HIDE DEF Within, Fits
  <2>3. \E q \in Nat : \A x \in Within(1, q) : Fits(1, x)
    BY <2>2
  <2> QED BY <2>3
<1>6. ASSUME NEW i \in 1 + 1 .. 9, i - 1 \in P PROVE i \in P
  <2> DEFINE l == Len(axes[i - 1])
             p == ProductFrom(axes, i)
             b == d[i - 1]
  <2>1. i - 1 \in 1 .. 8 /\ (i - 1) + 1 = i /\ i \in 1 .. 9
    OBVIOUS
  <2>2. l \in Nat \ {0} /\ p \in Nat \ {0} /\ b \in 0 .. l - 1
        /\ ProductFrom(axes, i - 1) = l * p
    BY <1>1, <1>2, <1>4, <2>1
  <2>3. PICK q \in Nat : \A x \in Within(i - 1, q) : Fits(i - 1, x)
    BY <1>6
  <2> DEFINE r == q * l + b
  <2>4. r \in Nat
    <3> HIDE DEF l, b, P, Within, Fits
    <3>1. b \in Nat /\ l \in Nat /\ q \in Nat
      BY <2>2
    <3> QED BY <3>1, Composed
  <2>5. ASSUME NEW x \in Within(i, r) PROVE Fits(i, x)
    <3>1. x \in Nat /\ r * p <= x /\ x < (r + 1) * p
      OBVIOUS
    <3>2. r = q * l + b
      OBVIOUS
    <3>3. /\ q * (l * p) <= x /\ x < (q + 1) * (l * p) /\ (x \div p) % l = b
      <4>1. /\ q \in Nat /\ l \in Nat \ {0} /\ p \in Nat \ {0} /\ b \in 0 .. l - 1
        BY <2>2
      <4> HIDE DEF l, p, b, P, Within, Fits, r
      <4>2. Zooms(q, l, p, b, r, x)
        BY <3>1, <3>2, <4>1 DEF Zooms
      <4> QED BY <4>2, Zoom
    <3>4. x \in Within(i - 1, q)
      BY <2>2, <3>1, <3>3
    <3>5. Fits(i - 1, x)
      BY <2>3, <3>4
    <3>6. Digit(axes, i - 1, x + 1) = d[i - 1]
      <4>1. (x + 1) - 1 = x
        BY <3>1
      <4> QED BY <2>1, <3>3, <4>1 DEF Digit
    <3>7. ASSUME NEW a \in 1 .. 8, a < i PROVE a < i - 1 \/ a = i - 1
      BY <2>1, <3>7
    <3> QED BY <3>5, <3>6, <3>7
  <2> HIDE DEF Within, Fits, r
  <2> QED BY <2>1, <2>4, <2>5
<1> HIDE DEF P
<1>7. \A i \in 1 .. 9 : i \in P
  <2>1. 1 \in Int /\ 9 \in Int
    OBVIOUS
  <2> QED BY <1>5, <1>6, <2>1, IntervalInduction
<1>8. PICK q \in Nat : \A x \in Within(9, q) : Fits(9, x)
  BY <1>7 DEF P
<1>9. q \in Within(9, q)
  <2>1. q * 1 <= q /\ q < (q + 1) * 1
    OBVIOUS
  <2> QED BY <1>1, <2>1
<1>10. Fits(9, q)
  <2> HIDE DEF Within, Fits
  <2> QED BY <1>8, <1>9
<1>11. q + 1 \in 1 .. all
  <2>1. all \in Nat /\ q < all
    BY <1>1, <1>10
  <2> HIDE DEF all
  <2> QED BY <2>1
<1>12. \A i \in 1 .. 8 : Digit(axes, i, q + 1) = d[i]
  <2>1. \A i \in 1 .. 8 : i < 9
    OBVIOUS
  <2>2. \A i \in 1 .. 8 : i < 9 => Digit(axes, i, q + 1) = d[i]
    BY <1>10
  <2> QED BY <2>1, <2>2
<1> QED BY <1>11, <1>12

LEMMA RunChoices ==
    ASSUME NEW e, NEW k
    PROVE  /\ RunConfig(e, k).scheduler_name = Pick(Axes(e), 1, k)
           /\ RunConfig(e, k).workload_name = Pick(Axes(e), 2, k)
           /\ RunConfig(e, k).seed = Pick(Axes(e), 3, k)
           /\ RunConfig(e, k).arrival_rate = Pick(Axes(e), 4, k)
           /\ RunConfig(e, k).arrival_rate_asymmetric = Pick(Axes(e), 5, k)
           /\ RunConfig(e, k).alpha = Pick(Axes(e), 6, k)
           /\ RunConfig(e, k).epsilon_total = Pick(Axes(e), 7, k)
           /\ RunConfig(e, k).lambda_noise_stddev = Pick(Axes(e), 8, k)
<1> DEFINE pick(i) == Pick(Axes(e), i, k)
           fixed == [f \in DOMAIN Config |-> IF f \in Inherited THEN e[f] ELSE Config[f]]
           warm == Warmup(e.ticks, e.warmup_ticks)
           c == [fixed EXCEPT !.scheduler_name = pick(1), !.workload_name = pick(2),
                              !.seed = pick(3), !.arrival_rate = pick(4),
                              !.arrival_rate_asymmetric = pick(5), !.alpha = pick(6),
                              !.epsilon_total = pick(7), !.lambda_noise_stddev = pick(8),
                              !.warmup_ticks = warm]
           d == RunDir(e, c)
<1>1. {"scheduler_name", "workload_name", "seed", "arrival_rate", "arrival_rate_asymmetric",
       "alpha", "epsilon_total", "lambda_noise_stddev", "warmup_ticks"} \subseteq DOMAIN fixed
  BY DEF Config
<1>2. RunConfig(e, k) = [c EXCEPT !.output_dir = d]
  BY DEF RunConfig
<1> HIDE DEF fixed, pick, warm, d
<1>3. /\ c.scheduler_name = pick(1) /\ c.workload_name = pick(2) /\ c.seed = pick(3)
      /\ c.arrival_rate = pick(4) /\ c.arrival_rate_asymmetric = pick(5)
      /\ c.alpha = pick(6) /\ c.epsilon_total = pick(7) /\ c.lambda_noise_stddev = pick(8)
  BY <1>1
<1>4. DOMAIN c = DOMAIN fixed
  BY Zenon
<1> HIDE DEF c
<1>5. /\ RunConfig(e, k).scheduler_name = c.scheduler_name
      /\ RunConfig(e, k).workload_name = c.workload_name
      /\ RunConfig(e, k).seed = c.seed /\ RunConfig(e, k).arrival_rate = c.arrival_rate
      /\ RunConfig(e, k).arrival_rate_asymmetric = c.arrival_rate_asymmetric
      /\ RunConfig(e, k).alpha = c.alpha /\ RunConfig(e, k).epsilon_total = c.epsilon_total
      /\ RunConfig(e, k).lambda_noise_stddev = c.lambda_noise_stddev
  BY <1>1, <1>2, <1>4
<1> QED BY <1>3, <1>5 DEF pick

\* What is picked is on the axis, at the run's digit.
LEMMA PickAt ==
    ASSUME NEW e, ExpOK(e), NEW k \in 1 .. TotalRuns(e), NEW i \in 1 .. 8
    PROVE  /\ Digit(Axes(e), i, k) \in 0 .. Len(Axes(e)[i]) - 1
           /\ DOMAIN Axes(e)[i] = 1 .. Len(Axes(e)[i])
           /\ Pick(Axes(e), i, k) = Axes(e)[i][Digit(Axes(e), i, k) + 1]
<1> DEFINE axes == Axes(e)
           all == ProductFrom(axes, 1)
<1>1. Lengths(axes) /\ IsSequence(axes[i])
  BY AxesType DEF Lengths
<1>2. all \in Nat /\ k \in 1 .. all
  BY ExpandType DEF TotalRuns
<1>3. all > 0
  <2> HIDE DEF all
  <2> QED BY <1>2
<1>4. ProductFrom(axes, i + 1) \in Nat \ {0} /\ Len(axes[i]) \in Nat \ {0}
  <2>1. i + 1 \in 1 .. 9
    OBVIOUS
  <2> HIDE DEF axes
  <2> QED BY <1>1, <1>3, <2>1, NoEmptyAxis DEF all
<1> DEFINE p == ProductFrom(axes, i + 1)
           l == Len(axes[i])
<1>5. Digit(axes, i, k) = ((k - 1) \div p) % l
  BY DEF Digit
<1>6. k - 1 \in Nat
  <2> HIDE DEF all
  <2> QED BY <1>2
<1>7. ((k - 1) \div p) % l \in 0 .. l - 1
  <2> DEFINE x == k - 1
             y == x \div p
  <2>1. x \in Nat /\ p \in Nat \ {0} /\ l \in Nat \ {0}
    BY <1>4, <1>6
  <2> HIDE DEF p, l, x
  <2>2. y \in Nat
    BY <2>1, Divided
  <2> HIDE DEF y
  <2>3. y % l \in 0 .. l - 1
    BY <2>1, <2>2, Divided
  <2> QED BY <2>3 DEF y, x
<1>8. DOMAIN axes[i] = 1 .. l
  BY <1>1 DEF IsSequence
<1>9. Pick(axes, i, k) = axes[i][Digit(axes, i, k) + 1]
  BY DEF Pick, Digit
<1> QED BY <1>5, <1>7, <1>8, <1>9

-----------------------------------------------------------------------------
(* One run for each choice, and one directory for each run.                *)

LEMMA SameChoiceSameDigit ==
    ASSUME NEW e, ExpOK(e), NEW j \in 1 .. TotalRuns(e), NEW k \in 1 .. TotalRuns(e),
           NEW i \in 1 .. 8,
           IsInjective([n \in DOMAIN Axes(e)[i] |-> Printed(i, Axes(e)[i][n])]),
           Printed(i, Pick(Axes(e), i, j)) = Printed(i, Pick(Axes(e), i, k))
    PROVE  Digit(Axes(e), i, j) = Digit(Axes(e), i, k)
<1> DEFINE axis == Axes(e)[i]
           printed == [n \in DOMAIN axis |-> Printed(i, axis[n])]
           l == Len(axis)
           a == Digit(Axes(e), i, j)
           b == Digit(Axes(e), i, k)
<1>1. l \in Nat
  BY AxesType
<1>2. /\ a \in 0 .. l - 1 /\ b \in 0 .. l - 1 /\ DOMAIN axis = 1 .. l
      /\ Pick(Axes(e), i, j) = axis[a + 1] /\ Pick(Axes(e), i, k) = axis[b + 1]
  BY PickAt
<1>4. IsInjective(printed)
  OBVIOUS
<1> HIDE DEF axis, l, a, b
<1>3. a + 1 \in 1 .. l /\ b + 1 \in 1 .. l /\ printed[a + 1] = printed[b + 1]
  <2>1. Printed(i, axis[a + 1]) = Printed(i, axis[b + 1])
    BY <1>2, Zenon
  <2>2. a \in 0 .. l - 1 /\ b \in 0 .. l - 1
    BY <1>2
  <2>3. a + 1 \in 1 .. l /\ b + 1 \in 1 .. l
    BY <1>1, <2>2
  <2>4. printed[a + 1] = Printed(i, axis[a + 1]) /\ printed[b + 1] = Printed(i, axis[b + 1])
    BY <1>2, <2>3
  <2> QED BY <2>1, <2>3, <2>4
<1> HIDE DEF printed
<1>5. a + 1 = b + 1
  <2>1. DOMAIN printed = 1 .. l
    BY <1>2 DEF printed
  <2> QED BY <1>3, <1>4, <2>1 DEF IsInjective
<1>6. a = b
  BY <1>1, <1>2, <1>5
<1> QED BY <1>6 DEF a, b

\* On an axis of one value there is one digit.
LEMMA OneValueOneDigit ==
    ASSUME NEW e, ExpOK(e), NEW j \in 1 .. TotalRuns(e), NEW k \in 1 .. TotalRuns(e),
           NEW i \in 1 .. 8, Len(Axes(e)[i]) <= 1
    PROVE  Digit(Axes(e), i, j) = Digit(Axes(e), i, k)
<1> DEFINE l == Len(Axes(e)[i])
           a == Digit(Axes(e), i, j)
           b == Digit(Axes(e), i, k)
<1>1. l \in Nat /\ l <= 1
  BY AxesType
<1>2. a \in 0 .. l - 1 /\ b \in 0 .. l - 1
  BY PickAt
<1> HIDE DEF l, a, b
<1>3. a = b
  BY <1>1, <1>2
<1> QED BY <1>3 DEF a, b

LEMMA DirectoriesDiffer ==
    ASSUME NEW e, ExpOK(e), NoRepeats(e),
           NEW j \in 1 .. TotalRuns(e), NEW k \in 1 .. TotalRuns(e),
           RunConfig(e, j).output_dir = RunConfig(e, k).output_dir
    PROVE  j = k
<1> DEFINE c == RunConfig(e, j)
           d == RunConfig(e, k)
           name(r) == <<r.seed, ToText(r.arrival_rate), AsymSuffix(r.arrival_rate_asymmetric),
                        IF e.alphas = <<>> THEN <<>> ELSE <<ToText(r.alpha)>>,
                        IF e.epsilon_totals = <<>> THEN <<>> ELSE <<ToText(r.epsilon_total)>> >>
           tail(r) == <<r.scheduler_name, r.workload_name, name(r)>>
           axes == Axes(e)
           same(i) == Digit(axes, i, j) = Digit(axes, i, k)
<1>1. IsSequence(e.output_dir)
  BY DEF ExpOK, SequenceFields
<1>2. RunDir(e, c) = e.output_dir \o tail(c) /\ RunDir(e, d) = e.output_dir \o tail(d)
  BY DEF RunDir
<1>3. RunDir(e, c) = RunDir(e, d)
  BY DirectoryOfRun
<1>4. c.scheduler_name = d.scheduler_name /\ c.workload_name = d.workload_name
      /\ name(c) = name(d)
  <2> DEFINE s == e.output_dir
             c3 == name(c)
             d3 == name(d)
  <2>1. s \o <<c.scheduler_name, c.workload_name, c3>>
          = s \o <<d.scheduler_name, d.workload_name, d3>>
    BY <1>2, <1>3
  <2> HIDE DEF s, c, d, c3, d3
  <2> DEFINE t == <<c.scheduler_name, c.workload_name, c3>>
             u == <<d.scheduler_name, d.workload_name, d3>>
  <2>2. /\ \A m \in 1 .. 3 : (s \o t)[Len(s) + m] = t[m]
        /\ \A m \in 1 .. 3 : (s \o u)[Len(s) + m] = u[m]
    BY <1>1, Below DEF s
  <2>3. \A m \in 1 .. 3 : t[m] = u[m]
    <3> HIDE DEF t, u
    <3> QED BY <2>1, <2>2 DEF t, u
  <2>4. t[1] = u[1] /\ t[2] = u[2] /\ t[3] = u[3]
    BY <2>3
  <2> QED BY <2>4 DEF c3, d3
<1>5. /\ c.seed = d.seed /\ ToText(c.arrival_rate) = ToText(d.arrival_rate)
      /\ AsymSuffix(c.arrival_rate_asymmetric) = AsymSuffix(d.arrival_rate_asymmetric)
      /\ e.alphas # <<>> => ToText(c.alpha) = ToText(d.alpha)
      /\ e.epsilon_totals # <<>> => ToText(c.epsilon_total) = ToText(d.epsilon_total)
  <2>1. /\ name(c)[1] = c.seed /\ name(c)[2] = ToText(c.arrival_rate)
        /\ name(c)[3] = AsymSuffix(c.arrival_rate_asymmetric)
        /\ e.alphas # <<>> => name(c)[4] = <<ToText(c.alpha)>>
        /\ e.epsilon_totals # <<>> => name(c)[5] = <<ToText(c.epsilon_total)>>
        /\ name(d)[1] = d.seed /\ name(d)[2] = ToText(d.arrival_rate)
        /\ name(d)[3] = AsymSuffix(d.arrival_rate_asymmetric)
        /\ e.alphas # <<>> => name(d)[4] = <<ToText(d.alpha)>>
        /\ e.epsilon_totals # <<>> => name(d)[5] = <<ToText(d.epsilon_total)>>
    <3> HIDE DEF c, d
    <3> QED OBVIOUS
  <2> HIDE DEF name, c, d
  <2>2. /\ e.alphas # <<>> => <<ToText(c.alpha)>> = <<ToText(d.alpha)>>
        /\ e.epsilon_totals # <<>> => <<ToText(c.epsilon_total)>> = <<ToText(d.epsilon_total)>>
    BY <1>4, <2>1
  <2>3. ASSUME NEW x, NEW y, <<x>> = <<y>> PROVE x = y
    BY <2>3
  <2> QED BY <1>4, <2>1, <2>2, <2>3
<1>6. \A i \in 1 .. 8 : IsInjective([n \in DOMAIN axes[i] |-> Printed(i, axes[i][n])])
  <2>1. DOMAIN axes = 1 .. 8
    BY DEF Axes
  <2> QED BY <2>1 DEF NoRepeats
<1>7. /\ axes[6] = Swept(e.alphas, e.alpha) /\ axes[7] = Swept(e.epsilon_totals, 0)
      /\ axes[8] = Swept(e.lambda_noise_stddevs, 0)
  BY DEF Axes
<1> HIDE DEF axes
<1>8. /\ c.scheduler_name = Pick(axes, 1, j) /\ d.scheduler_name = Pick(axes, 1, k)
      /\ c.workload_name = Pick(axes, 2, j) /\ d.workload_name = Pick(axes, 2, k)
      /\ c.seed = Pick(axes, 3, j) /\ d.seed = Pick(axes, 3, k)
      /\ c.arrival_rate = Pick(axes, 4, j) /\ d.arrival_rate = Pick(axes, 4, k)
      /\ c.arrival_rate_asymmetric = Pick(axes, 5, j)
      /\ d.arrival_rate_asymmetric = Pick(axes, 5, k)
      /\ c.alpha = Pick(axes, 6, j) /\ d.alpha = Pick(axes, 6, k)
      /\ c.epsilon_total = Pick(axes, 7, j) /\ d.epsilon_total = Pick(axes, 7, k)
  BY RunChoices DEF axes
<1> HIDE DEF c, d
<1>9. ASSUME NEW i \in 1 .. 8, Printed(i, Pick(axes, i, j)) = Printed(i, Pick(axes, i, k))
      PROVE  same(i)
  BY <1>6, <1>9, SameChoiceSameDigit DEF axes
<1>10. ASSUME NEW i \in 1 .. 8, Len(axes[i]) <= 1 PROVE same(i)
  BY <1>10, OneValueOneDigit DEF axes
<1>11. ASSUME NEW single PROVE Len(Swept(<<>>, single)) <= 1
  BY DEF Swept
<1> HIDE DEF same
<1>19. ASSUME NEW x
       PROVE  /\ Printed(1, x) = x /\ Printed(2, x) = x /\ Printed(3, x) = x
              /\ Printed(4, x) = ToText(x) /\ Printed(6, x) = ToText(x)
              /\ Printed(5, x) = AsymSuffix(x) /\ Printed(7, x) = ToText(x)
  BY DEF Printed
<1>12. same(1) /\ same(2) /\ same(3) /\ same(4) /\ same(5)
  <2>1. /\ Pick(axes, 1, j) = Pick(axes, 1, k) /\ Pick(axes, 2, j) = Pick(axes, 2, k)
        /\ Pick(axes, 3, j) = Pick(axes, 3, k)
        /\ ToText(Pick(axes, 4, j)) = ToText(Pick(axes, 4, k))
        /\ AsymSuffix(Pick(axes, 5, j)) = AsymSuffix(Pick(axes, 5, k))
    BY <1>4, <1>5, <1>8, Zenon
  <2>2. \A i \in 1 .. 5 : Printed(i, Pick(axes, i, j)) = Printed(i, Pick(axes, i, k))
    <3>1. /\ Printed(1, Pick(axes, 1, j)) = Printed(1, Pick(axes, 1, k))
          /\ Printed(2, Pick(axes, 2, j)) = Printed(2, Pick(axes, 2, k))
          /\ Printed(3, Pick(axes, 3, j)) = Printed(3, Pick(axes, 3, k))
      BY <1>19, <2>1
    <3>2. Printed(4, Pick(axes, 4, j)) = Printed(4, Pick(axes, 4, k))
      BY <1>19, <2>1
    <3>3. Printed(5, Pick(axes, 5, j)) = Printed(5, Pick(axes, 5, k))
      BY <1>19, <2>1
    <3>4. \A i \in 1 .. 5 : i = 1 \/ i = 2 \/ i = 3 \/ i = 4 \/ i = 5
      OBVIOUS
    <3> QED BY <3>1, <3>2, <3>3, <3>4, Zenon
  <2> QED BY <1>9, <2>2
<1>13. same(6)
  <2>1. CASE e.alphas = <<>>
    BY <1>7, <1>10, <1>11, <2>1
  <2>2. CASE e.alphas # <<>>
    <3>1. Printed(6, Pick(axes, 6, j)) = Printed(6, Pick(axes, 6, k))
      BY <1>5, <1>8, <1>19, <2>2
    <3> QED BY <1>9, <3>1
  <2> QED BY <2>1, <2>2
<1>14. same(7)
  <2>1. CASE e.epsilon_totals = <<>>
    BY <1>7, <1>10, <1>11, <2>1
  <2>2. CASE e.epsilon_totals # <<>>
    <3>1. Printed(7, Pick(axes, 7, j)) = Printed(7, Pick(axes, 7, k))
      BY <1>5, <1>8, <1>19, <2>2
    <3> QED BY <1>9, <3>1
  <2> QED BY <2>1, <2>2
<1>15. same(8)
  <2>1. Len(axes[8]) <= 1
    <3>1. CASE e.lambda_noise_stddevs = <<>>
      BY <1>7, <1>11, <3>1
    <3>2. CASE e.lambda_noise_stddevs # <<>>
      BY <1>7, <3>2 DEF Swept, NoRepeats
    <3> QED BY <3>1, <3>2
  <2> QED BY <1>10, <2>1
<1>16. \A i \in 1 .. 8 : same(i)
  <2>1. ASSUME NEW i \in 1 .. 8
        PROVE  i = 1 \/ i = 2 \/ i = 3 \/ i = 4 \/ i = 5 \/ i = 6 \/ i = 7 \/ i = 8
    OBVIOUS
  <2> QED BY <1>12, <1>13, <1>14, <1>15, <2>1, Zenon
<1>17. Lengths(axes)
  BY AxesType DEF Lengths, axes
<1>18. j \in 1 .. ProductFrom(axes, 1) /\ k \in 1 .. ProductFrom(axes, 1)
  BY DEF TotalRuns, axes
<1> QED BY <1>16, <1>17, <1>18, SameDigits DEF same

\* In a sweep without values that are printed alike and with at most one noise,
\* the log and the summaries of a run that is over stay as they are, whatever
\* becomes of the runs after it: no other run writes to its directory
\* (Experiment::run, ExperimentConfig::expand).
THEOREM FinishedRunsStay == Spec => []EarlierRunsKept
<1>1. IInv => EarlierRunsKept
  <2> SUFFICES ASSUME IInv, cli.experiment_mode, NoRepeats(cli.exp_config),
                      NEW k \in DOMAIN results
               PROVE  HasOutputs(k)
    BY DEF EarlierRunsKept
  <2> DEFINE e == cli.exp_config
  <2>1. k \in DOMAIN configs /\ DOMAIN configs = 1 .. Len(configs)
    BY ConfigsType DEF IInv, ProgressInv
  <2>2. configs # <<>>
    BY <2>1
  <2>3. configs = Expand(e) /\ ExpOK(e)
    BY <2>2 DEF IInv, ProgressInv, CommandInv, ResultOK, Planned
  <2>4. DOMAIN configs = 1 .. TotalRuns(e)
        /\ \A j \in DOMAIN configs : configs[j] = RunConfig(e, j)
    BY <2>3, ExpandType
  <2>5. \A j \in DOMAIN configs : configs[j].output_dir = configs[k].output_dir => j = k
    <3>1. NoRepeats(e)
      OBVIOUS
    <3> HIDE DEF e
    <3> QED BY <2>1, <2>3, <2>4, <3>1, DirectoriesDiffer
  <2>6. k \in Nat
    BY <2>1
  <2>7. Undisturbed(k)
    BY <2>5, <2>6 DEF Undisturbed
  <2> QED BY <2>7 DEF IInv, KeptInv, Kept
<1> QED BY <1>1, InvHolds, PTL

LEMMA ChosenOnAxes ==
    ASSUME NEW e, ExpOK(e), NEW k \in 1 .. TotalRuns(e)
    PROVE  Chosen(RunConfig(e, k)) \in AxisProduct(e)
<1>1. ASSUME NEW i \in 1 .. 8 PROVE Pick(Axes(e), i, k) \in Range(Axes(e)[i])
  <2> DEFINE axis == Axes(e)[i]
             a == Digit(Axes(e), i, k)
             l == Len(axis)
  <2>1. a \in 0 .. l - 1 /\ DOMAIN axis = 1 .. l /\ Pick(Axes(e), i, k) = axis[a + 1] /\ l \in Nat
    BY PickAt, AxesType
  <2> HIDE DEF axis, a, l
  <2>2. a + 1 \in DOMAIN axis
    BY <2>1
  <2>3. axis[a + 1] \in Range(axis)
    BY <2>2 DEF Range
  <2> QED BY <2>1, <2>3 DEF axis
<1>2. /\ Pick(Axes(e), 1, k) \in Range(Axes(e)[1]) /\ Pick(Axes(e), 2, k) \in Range(Axes(e)[2])
      /\ Pick(Axes(e), 3, k) \in Range(Axes(e)[3]) /\ Pick(Axes(e), 4, k) \in Range(Axes(e)[4])
      /\ Pick(Axes(e), 5, k) \in Range(Axes(e)[5]) /\ Pick(Axes(e), 6, k) \in Range(Axes(e)[6])
      /\ Pick(Axes(e), 7, k) \in Range(Axes(e)[7]) /\ Pick(Axes(e), 8, k) \in Range(Axes(e)[8])
  BY <1>1
<1>3. Chosen(RunConfig(e, k))
        = <<Pick(Axes(e), 1, k), Pick(Axes(e), 2, k), Pick(Axes(e), 3, k), Pick(Axes(e), 4, k),
            Pick(Axes(e), 5, k), Pick(Axes(e), 6, k), Pick(Axes(e), 7, k), Pick(Axes(e), 8, k)>>
  BY RunChoices DEF Chosen
<1> QED BY <1>2, <1>3 DEF AxisProduct

LEMMA ChoicesAreMade ==
    ASSUME NEW e, ExpOK(e), NEW t \in AxisProduct(e)
    PROVE  \E k \in 1 .. TotalRuns(e) : Chosen(RunConfig(e, k)) = t
<1> DEFINE axes == Axes(e)
           at(i) == CHOOSE m \in DOMAIN axes[i] : axes[i][m] = t[i]
           d == [i \in 1 .. 8 |-> at(i) - 1]
<1>1. t = <<t[1], t[2], t[3], t[4], t[5], t[6], t[7], t[8]>>
      /\ t[1] \in Range(axes[1]) /\ t[2] \in Range(axes[2]) /\ t[3] \in Range(axes[3])
      /\ t[4] \in Range(axes[4]) /\ t[5] \in Range(axes[5]) /\ t[6] \in Range(axes[6])
      /\ t[7] \in Range(axes[7]) /\ t[8] \in Range(axes[8])
  BY DEF AxisProduct
<1>2. \A i \in 1 .. 8 : IsSequence(axes[i]) /\ Len(axes[i]) \in Nat
  BY AxesType
<1> HIDE DEF axes
<1>3. ASSUME NEW i \in 1 .. 8 PROVE t[i] \in Range(axes[i])
  <2>1. i = 1 \/ i = 2 \/ i = 3 \/ i = 4 \/ i = 5 \/ i = 6 \/ i = 7 \/ i = 8
    OBVIOUS
  <2> QED BY <1>1, <2>1, Zenon
<1>4. ASSUME NEW i \in 1 .. 8
      PROVE  /\ d[i] \in 0 .. Len(axes[i]) - 1
             /\ axes[i][d[i] + 1] = t[i]
  <2> DEFINE m == at(i)
             l == Len(axes[i])
  <2>1. m \in DOMAIN axes[i] /\ axes[i][m] = t[i]
    BY <1>3 DEF Range
  <2>2. l \in Nat /\ DOMAIN axes[i] = 1 .. l
    BY <1>2 DEF IsSequence
  <2>3. d[i] = m - 1
    OBVIOUS
  <2> HIDE DEF d, m, l
  <2>4. d[i] \in 0 .. l - 1 /\ d[i] + 1 = m
    BY <2>1, <2>2, <2>3
  <2> QED BY <2>1, <2>4 DEF l
<1> HIDE DEF d
<1>5. PICK k \in 1 .. ProductFrom(axes, 1) : \A i \in 1 .. 8 : Digit(axes, i, k) = d[i]
  <2>1. Lengths(axes)
    BY <1>2 DEF Lengths
  <2>2. \A i \in 1 .. 8 : d[i] \in 0 .. Len(axes[i]) - 1
    BY <1>4
  <2> QED BY <2>1, <2>2, DigitsReach
<1>6. k \in 1 .. TotalRuns(e)
  BY <1>5 DEF TotalRuns, axes
<1>7. ASSUME NEW i \in 1 .. 8 PROVE Pick(axes, i, k) = t[i]
  <2>1. Pick(axes, i, k) = axes[i][Digit(axes, i, k) + 1]
    BY <1>6, PickAt DEF axes
  <2>2. Digit(axes, i, k) = d[i] /\ axes[i][d[i] + 1] = t[i]
    BY <1>4, <1>5
  <2> QED BY <2>1, <2>2
<1>8. Chosen(RunConfig(e, k))
        = <<Pick(axes, 1, k), Pick(axes, 2, k), Pick(axes, 3, k), Pick(axes, 4, k),
            Pick(axes, 5, k), Pick(axes, 6, k), Pick(axes, 7, k), Pick(axes, 8, k)>>
  BY RunChoices DEF Chosen, axes
<1>9. Chosen(RunConfig(e, k)) = t
  <2>1. /\ Pick(axes, 1, k) = t[1] /\ Pick(axes, 2, k) = t[2] /\ Pick(axes, 3, k) = t[3]
        /\ Pick(axes, 4, k) = t[4] /\ Pick(axes, 5, k) = t[5] /\ Pick(axes, 6, k) = t[6]
        /\ Pick(axes, 7, k) = t[7] /\ Pick(axes, 8, k) = t[8]
    BY <1>7
  <2> QED BY <1>1, <1>8, <2>1, Zenon
<1> QED BY <1>6, <1>9

\* For axes of any lengths, the runs of a sweep make every choice of one value
\* on each of the eight axes, and no choice that is not one; without repeated
\* values, no two runs share a directory (ExperimentConfig::expand).
THEOREM SweepsAreComplete == Spec => []SweepCoversAxes
<1>1. IInv => SweepCoversAxes
  <2> SUFFICES ASSUME IInv, cli.experiment_mode, pc = "build"
               PROVE  /\ {Chosen(configs[k]) : k \in DOMAIN configs} = AxisProduct(cli.exp_config)
                      /\ NoRepeats(cli.exp_config) =>
                            IsInjective([k \in DOMAIN configs |-> configs[k].output_dir])
    BY DEF SweepCoversAxes
  <2> DEFINE e == cli.exp_config
  <2>1. configs = Expand(e) /\ ExpOK(e)
    BY DEF IInv, ProgressInv, CommandInv, ResultOK, Planned, Running
  <2>2. DOMAIN configs = 1 .. TotalRuns(e)
        /\ \A j \in DOMAIN configs : configs[j] = RunConfig(e, j)
    BY <2>1, ExpandType
  <2> HIDE DEF e
  <2>3. {Chosen(configs[k]) : k \in DOMAIN configs} = AxisProduct(e)
    <3>1. \A k \in DOMAIN configs : Chosen(configs[k]) \in AxisProduct(e)
      BY <2>1, <2>2, ChosenOnAxes
    <3>2. \A t \in AxisProduct(e) : \E k \in DOMAIN configs : Chosen(configs[k]) = t
      BY <2>1, <2>2, ChoicesAreMade
    <3> QED BY <3>1, <3>2
  <2>4. ASSUME NoRepeats(e), NEW j \in DOMAIN configs, NEW k \in DOMAIN configs,
               configs[j].output_dir = configs[k].output_dir
        PROVE  j = k
    BY <2>1, <2>2, <2>4, DirectoriesDiffer
  <2>5. NoRepeats(e) => IsInjective([k \in DOMAIN configs |-> configs[k].output_dir])
    BY <2>4 DEF IsInjective
  <2> QED BY <2>3, <2>5 DEF e
<1> QED BY <1>1, InvHolds, PTL

-----------------------------------------------------------------------------
(* The last flag wins.                                                     *)

LEMMA MaxExists ==
    ASSUME NEW n \in Nat, NEW S \in SUBSET (0 .. n), S # {}
    PROVE  Max(S) \in S /\ \A x \in S : x <= Max(S)
<1>1. IsFiniteSet(S)
  <2>1. 0 \in Int /\ n \in Int
    OBVIOUS
  <2>2. IsFiniteSet(0 .. n)
    BY <2>1, FS_Interval
  <2> QED BY <2>2, FS_Subset
<1> DEFINE P == {T \in SUBSET S : T # {} => \E x \in T : \A y \in T : x >= y}
<1>2. {} \in P
  OBVIOUS
<1>3. ASSUME NEW T \in SUBSET S, NEW x \in S, T \in P, x \notin T PROVE T \cup {x} \in P
  <2>1. \A y \in S : y \in Nat
    OBVIOUS
  <2>2. CASE T = {}
    BY <2>1, <2>2
  <2>3. CASE T # {}
    <3>1. PICK z \in T : \A y \in T : z >= y
      BY <1>3, <2>3
    <3>2. z \in Nat /\ x \in Nat /\ \A y \in T : y \in Nat
      BY <2>1
    <3>3. CASE z >= x
      BY <3>1, <3>3
    <3>4. CASE ~(z >= x)
      BY <3>1, <3>2, <3>4
    <3> QED BY <3>3, <3>4
  <2> QED BY <2>2, <2>3
<1> HIDE DEF P
<1>4. S \in P
  BY <1>1, <1>2, <1>3, FiniteSetInduction
<1>5. PICK m \in S : \A x \in S : m >= x
  BY <1>4 DEF P
<1>6. Max(S) \in S /\ \A x \in S : Max(S) >= x
  BY <1>5 DEF Max
<1>7. \A x \in S : x \in Int
  OBVIOUS
<1> QED BY <1>6, <1>7

\* LastConfigFile, LastWriter and Asked for the first k settings of w.
FileAt(w, k) == Max({j \in 1 .. k : w[j][1] = "--config"} \cup {0})

WriterAt(w, k, f) ==
    Max({j \in 1 .. k : j > FileAt(w, k) /\ f \in FieldsWritten(w[j])} \cup {0})

AskedAt(w, k, f) ==
    IF WriterAt(w, k, f) # 0
    THEN Converted(f, TextsOf(w[WriterAt(w, k, f)])[f])
    ELSE IF FileAt(w, k) # 0 THEN Load(w[FileAt(w, k)][2])[f] ELSE Config[f]

LEMMA FileRange ==
    ASSUME NEW w, NEW k \in Nat
    PROVE  /\ FileAt(w, k) \in 0 .. k
           /\ \A j \in 1 .. k : w[j][1] = "--config" => j <= FileAt(w, k)
<1> DEFINE S == {j \in 1 .. k : w[j][1] = "--config"} \cup {0}
<1>1. S \in SUBSET (0 .. k) /\ S # {}
  OBVIOUS
<1>2. FileAt(w, k) = Max(S)
  BY DEF FileAt
<1> HIDE DEF S
<1>3. Max(S) \in S /\ \A x \in S : x <= Max(S)
  BY <1>1, MaxExists
<1> QED BY <1>1, <1>2, <1>3 DEF S

\* Nothing has been read.
LEMMA NothingAsked == ASSUME NEW w, NEW f PROVE AskedAt(w, 0, f) = Config[f]
<1>1. {j \in 1 .. 0 : w[j][1] = "--config"} \cup {0} = {0}
  OBVIOUS
<1>2. {j \in 1 .. 0 : j > FileAt(w, 0) /\ f \in FieldsWritten(w[j])} \cup {0} = {0}
  OBVIOUS
<1>3. Max({0}) = 0
  <2>1. {0} \in SUBSET (0 .. 0) /\ {0} # {} /\ 0 \in Nat
    OBVIOUS
  <2>2. Max({0}) \in {0}
    BY <2>1, MaxExists
  <2> QED BY <2>2
<1> QED BY <1>1, <1>2, <1>3 DEF AskedAt, FileAt, WriterAt

\* A configuration file is read.
LEMMA FileAsked ==
    ASSUME NEW w, NEW k \in Nat \ {0}, w[k][1] = "--config", NEW f
    PROVE  AskedAt(w, k, f) = Load(w[k][2])[f]
<1>1. FileAt(w, k) = k
  <2>1. k \in 1 .. k /\ FileAt(w, k) \in 0 .. k /\ k <= FileAt(w, k)
    BY FileRange
  <2> QED BY <2>1
<1>2. {j \in 1 .. k : j > FileAt(w, k) /\ f \in FieldsWritten(w[j])} \cup {0} = {0}
  BY <1>1
<1>3. Max({0}) = 0
  <2>1. {0} \in SUBSET (0 .. 0) /\ {0} # {} /\ 0 \in Nat
    OBVIOUS
  <2>2. Max({0}) \in {0}
    BY <2>1, MaxExists
  <2> QED BY <2>2
<1>4. WriterAt(w, k, f) = 0
  BY <1>2, <1>3 DEF WriterAt
<1> QED BY <1>1, <1>4 DEF AskedAt

LEMMA FileStays ==
    ASSUME NEW w, NEW k \in Nat \ {0}, w[k][1] # "--config"
    PROVE  FileAt(w, k) = FileAt(w, k - 1)
<1>1. {j \in 1 .. k : w[j][1] = "--config"} = {j \in 1 .. k - 1 : w[j][1] = "--config"}
  <2>1. \A j \in 1 .. k : j = k \/ j \in 1 .. k - 1
    OBVIOUS
  <2>2. \A j \in 1 .. k - 1 : j \in 1 .. k
    OBVIOUS
  <2> QED BY <2>1, <2>2
<1> QED BY <1>1 DEF FileAt

\* A flag that writes f is read.
LEMMA FlagAsked ==
    ASSUME NEW w, NEW k \in Nat \ {0}, w[k][1] # "--config", NEW f, f \in FieldsWritten(w[k])
    PROVE  AskedAt(w, k, f) = Converted(f, TextsOf(w[k])[f])
<1> DEFINE S == {j \in 1 .. k : j > FileAt(w, k) /\ f \in FieldsWritten(w[j])} \cup {0}
<1>1. FileAt(w, k) \in 0 .. k - 1
  <2>1. k - 1 \in Nat
    OBVIOUS
  <2> QED BY <2>1, FileStays, FileRange
<1>2. k > FileAt(w, k) /\ k \in 1 .. k
  BY <1>1
<1>3. k \in S /\ S \in SUBSET (0 .. k)
  BY <1>2
<1>4. WriterAt(w, k, f) = Max(S)
  BY DEF WriterAt
<1> HIDE DEF S
<1>5. Max(S) \in S /\ \A x \in S : x <= Max(S)
  BY <1>3, MaxExists
<1>6. Max(S) \in 0 .. k /\ k <= Max(S)
  BY <1>3, <1>5
<1>7. Max(S) = k
  BY <1>6
<1> QED BY <1>4, <1>7 DEF AskedAt

\* Another argument is read.
LEMMA AskedStays ==
    ASSUME NEW w, NEW k \in Nat \ {0}, w[k][1] # "--config",
           NEW f, f \notin FieldsWritten(w[k])
    PROVE  AskedAt(w, k, f) = AskedAt(w, k - 1, f)
<1>1. FileAt(w, k) = FileAt(w, k - 1)
  BY FileStays
<1>2. {j \in 1 .. k : j > FileAt(w, k) /\ f \in FieldsWritten(w[j])}
        = {j \in 1 .. k - 1 : j > FileAt(w, k) /\ f \in FieldsWritten(w[j])}
  <2>1. \A j \in 1 .. k : j = k \/ j \in 1 .. k - 1
    OBVIOUS
  <2>2. \A j \in 1 .. k - 1 : j \in 1 .. k
    OBVIOUS
  <2> QED BY <2>1, <2>2
<1>3. WriterAt(w, k, f) = WriterAt(w, k - 1, f)
  BY <1>1, <1>2 DEF WriterAt
<1> QED BY <1>1, <1>3 DEF AskedAt

LEMMA OtherFlags ==
    /\ "--experiment" \notin DOMAIN Switches \cup DOMAIN FieldOf
    /\ "--alpha-sweep" \notin DOMAIN Switches \cup DOMAIN FieldOf
    /\ "--config" \notin DOMAIN Switches
<1> DEFINE pairs == SchedulerFlags \cup WorkloadFlags \cup SimulationFlags \cup RateFlags
                      \cup WorkloadParameterFlags \cup OutputFlags \cup LockFlags
<1>1. DOMAIN FieldOf = {p[1] : p \in pairs}
  BY DEF FieldOf
<1>2. ASSUME NEW p \in pairs PROVE p[1] # "--experiment" /\ p[1] # "--alpha-sweep"
  BY DEF SchedulerFlags, WorkloadFlags, SimulationFlags, RateFlags, WorkloadParameterFlags,
         OutputFlags, LockFlags
<1> HIDE DEF pairs
<1>3. "--experiment" \notin DOMAIN FieldOf /\ "--alpha-sweep" \notin DOMAIN FieldOf
  BY <1>1, <1>2
<1>4. DOMAIN Switches = {"--no-clip", "--binary-log", "--null-log", "--human-trace"}
  BY DEF Switches
<1> QED BY <1>3, <1>4

\* What a turn of the loop makes of the configuration.
LEMMA TurnOfLoop ==
    ASSUME NEW r, ResultOK(r), r.status = "parsing", NEW s, NEW f \in DOMAIN Config,
           ParseSetting(r, s).status = "parsing"
    PROVE  ParseSetting(r, s).config[f]
              = IF s[1] = "--config" THEN Load(s[2])[f]
                ELSE IF f \in FieldsWritten(s) THEN Converted(f, TextsOf(s)[f])
                ELSE r.config[f]
<1> DEFINE t == ParseSetting(r, s)
           flag == s[1]
           stopped == [r EXCEPT !.status = "error"]
           helped == [r EXCEPT !.status = "help"]
<1>1. {"status", "config", "exp_config", "experiment_mode"} = DOMAIN r
      /\ DOMAIN r.config = DOMAIN Config
  BY DEF ResultOK, ConfigOK
<1>2. stopped.status = "error" /\ helped.status = "help"
  BY <1>1
<1> HIDE DEF stopped, helped
<1>3. ASSUME t = OnField(r, s)
      PROVE  t.config[f] = IF f \in DOMAIN TextsOf(s) THEN Converted(f, TextsOf(s)[f])
                                                      ELSE r.config[f]
  <2>1. AllConvertible(TextsOf(s))
    BY <1>2, <1>3 DEF OnField, stopped
  <2> DEFINE c == Assign(r.config, TextsOf(s))
  <2>2. t = [r EXCEPT !.config = c]
    BY <1>3, <2>1 DEF OnField
  <2> HIDE DEF c, t
  <2>3. t.config = c
    BY <1>1, <2>2
  <2>4. c[f] = IF f \in DOMAIN TextsOf(s) THEN Converted(f, TextsOf(s)[f]) ELSE r.config[f]
    BY <1>1 DEF Assign, c
  <2> QED BY <2>3, <2>4
<1>4. CASE flag \in DOMAIN Switches
  <2>1. flag \notin {"--help", "-h"} /\ flag # "--config"
    BY <1>4 DEF Switches
  <2>2. t = OnField(r, s)
    BY <1>4, <2>1 DEF ParseSetting
  <2>3. FieldsWritten(s) = DOMAIN TextsOf(s)
    BY <1>4 DEF FieldsWritten
  <2> QED BY <1>3, <2>1, <2>2, <2>3
<1>5. CASE flag \notin DOMAIN Switches
  <2>1. t = IF flag \in {"--help", "-h"} THEN helped
            ELSE IF Len(s) = 1 THEN stopped
            ELSE IF flag = "--config" THEN OnConfigFile(r, s[2])
            ELSE IF flag = "--experiment" THEN OnExperimentFile(r, s[2])
            ELSE IF flag = "--alpha-sweep" THEN OnAlphaSweep(r, s[2])
            ELSE IF flag \in DOMAIN FieldOf THEN OnField(r, s)
            ELSE stopped
    BY <1>5, Zenon DEF ParseSetting, helped, stopped
  <2>2. t # helped /\ t # stopped
    BY <1>2
  <2>3. CASE flag = "--config"
    <3>1. t = OnConfigFile(r, s[2])
      BY <2>1, <2>2, <2>3
    <3>2. t = [r EXCEPT !.config = Load(s[2])]
      BY <2>2, <3>1 DEF OnConfigFile, stopped
    <3> HIDE DEF t
    <3>3. t.config = Load(s[2])
      BY <1>1, <3>2
    <3> QED BY <2>3, <3>3 DEF t
  <2>4. CASE flag \in {"--experiment", "--alpha-sweep"}
    <3>1. t = OnExperimentFile(r, s[2]) \/ t = OnAlphaSweep(r, s[2])
      BY <2>1, <2>2, <2>4
    <3>2. t.config = r.config
      <4> HIDE DEF t
      <4> QED BY <1>1, <2>2, <3>1 DEF OnExperimentFile, OnAlphaSweep, stopped
    <3>3. FieldsWritten(s) = {}
      BY <2>4, OtherFlags DEF FieldsWritten
    <3> QED BY <2>4, <3>2, <3>3
  <2>5. CASE flag \notin {"--config", "--experiment", "--alpha-sweep"}
    <3>1. flag \in DOMAIN FieldOf /\ t = OnField(r, s)
      BY <2>1, <2>2, <2>5
    <3>2. FieldsWritten(s) = DOMAIN TextsOf(s)
      BY <3>1 DEF FieldsWritten
    <3> QED BY <1>3, <2>5, <3>1, <3>2
  <2> QED BY <2>3, <2>4, <2>5
<1> QED BY <1>4, <1>5

\* Nothing is read after an error or --help.
LEMMA StoppedStays ==
    ASSUME NEW r, NEW s, ParseSetting(r, s).status = "parsing"
    PROVE  r.status = "parsing"
<1>1. CASE r.status # "parsing"
  <2>1. ParseSetting(r, s) = r
    BY <1>1 DEF ParseSetting
  <2> QED BY <1>1, <2>1
<1> QED BY <1>1

\* What the loop over the arguments has made of the configuration.
LEMMA ArgumentsRead ==
    ASSUME NEW l \in Lines, NEW w, w = TextOf(l)
    PROVE  \E g : /\ ResultOK(g)
                  /\ Parse(w) = Finished(g)
                  /\ g.status = "parsing" =>
                        \A f \in DOMAIN Config : g.config[f] = AskedAt(w, Len(w), f)
<1>1. Len(w) \in Nat /\ \A k \in 1 .. Len(w) : l[k] \in DOMAIN Menu /\ w[k] = Menu[l[k]]
  BY TextType
<1>2. PICK g : /\ g[0] = Parsing
               /\ \A k \in 1 .. Len(w) : g[k] = ParseSetting(g[k - 1], w[k])
               /\ Parse(w) = Finished(g[Len(w)])
  BY <1>1, ParseUnfolds
<1> DEFINE Read(k) == g[k].status = "parsing" =>
                         \A f \in DOMAIN Config : g[k].config[f] = AskedAt(w, k, f)
           P == {k \in 0 .. Len(w) : ResultOK(g[k]) /\ Read(k)}
<1>3. 0 \in P
  <2>1. ResultOK(g[0])
    BY <1>2, NoResultOK DEF NoResult
  <2>2. \A f \in DOMAIN Config : g[0].config[f] = AskedAt(w, 0, f)
    BY <1>2, NothingAsked DEF Parsing
  <2> QED BY <1>1, <2>1, <2>2
<1>4. ASSUME NEW k \in 0 + 1 .. Len(w), k - 1 \in P PROVE k \in P
  <2>1. k \in 1 .. Len(w) /\ k \in 0 .. Len(w) /\ k \in Nat \ {0}
    BY <1>1
  <2>2. ResultOK(g[k - 1]) /\ Read(k - 1) /\ l[k] \in DOMAIN Menu
    BY <1>1, <1>4, <2>1
  <2>3. g[k] = ParseSetting(g[k - 1], w[k]) /\ w[k] = Menu[l[k]]
    BY <1>1, <1>2, <2>1
  <2>4. ResultOK(g[k])
    BY <2>2, <2>3, ParseSettingOK
  <2>5. ASSUME g[k].status = "parsing", NEW f \in DOMAIN Config
        PROVE  g[k].config[f] = AskedAt(w, k, f)
    <3>1. g[k - 1].status = "parsing"
      BY <2>3, <2>5, StoppedStays
    <3>2. g[k - 1].config[f] = AskedAt(w, k - 1, f)
      BY <2>2, <3>1
    <3>3. g[k].config[f]
             = IF w[k][1] = "--config" THEN Load(w[k][2])[f]
               ELSE IF f \in FieldsWritten(w[k]) THEN Converted(f, TextsOf(w[k])[f])
               ELSE g[k - 1].config[f]
      BY <2>2, <2>3, <2>5, <3>1, TurnOfLoop
    <3>4. CASE w[k][1] = "--config"
      BY <2>1, <3>3, <3>4, FileAsked
    <3>5. CASE w[k][1] # "--config" /\ f \in FieldsWritten(w[k])
      BY <2>1, <3>3, <3>5, FlagAsked
    <3>6. CASE w[k][1] # "--config" /\ f \notin FieldsWritten(w[k])
      BY <2>1, <3>2, <3>3, <3>6, AskedStays
    <3> QED BY <3>4, <3>5, <3>6
  <2>6. Read(k)
    BY <2>5
  <2> HIDE DEF Read
  <2> QED BY <2>1, <2>4, <2>6
<1> HIDE DEF P
<1>5. \A k \in 0 .. Len(w) : k \in P
  <2>1. 0 \in Int /\ Len(w) \in Int
    BY <1>1
  <2> QED BY <1>3, <1>4, <2>1, IntervalInduction
<1>6. Len(w) \in P
  BY <1>1, <1>5
<1> QED BY <1>2, <1>6 DEF P

\* What the end of parse() makes of it.
LEMMA ConfigFinished ==
    ASSUME NEW r, ResultOK(r), Finished(r).status = "ok"
    PROVE  /\ r.status = "parsing"
           /\ Finished(r).experiment_mode = r.experiment_mode
           /\ \A f \in DOMAIN Config :
                 Finished(r).config[f]
                    = IF f = "warmup_ticks" /\ ~r.experiment_mode
                      THEN Warmup(r.config.ticks, r.config[f]) ELSE r.config[f]
<1> DEFINE config == [r.config EXCEPT !.warmup_ticks = Warmup(r.config.ticks, @)]
           ends(status, final) == [status |-> status, config |-> final,
                                   exp_config |-> r.exp_config,
                                   experiment_mode |-> r.experiment_mode]
           helped  == r.status = "help"
           sweeps  == r.status = "parsing" /\ r.experiment_mode
           runs    == r.status = "parsing" /\ ~r.experiment_mode /\ Valid(config)
<1>1. Finished(r) =
        CASE helped -> ends("help", r.config)
          [] sweeps -> ends("ok", r.config)
          [] runs   -> ends("ok", config)
          [] OTHER  -> ends("error", config)
  BY DEF Finished
<1>2. ASSUME NEW f \in DOMAIN Config
      PROVE  config[f] = IF f = "warmup_ticks" THEN Warmup(r.config.ticks, r.config[f])
                                               ELSE r.config[f]
  BY DEF ResultOK, ConfigOK
<1> HIDE DEF config
<1>3. CASE helped
  BY <1>1, <1>3
<1>4. CASE sweeps
  <2>1. Finished(r) = ends("ok", r.config)
    BY <1>1, <1>4
  <2> QED BY <1>4, <2>1
<1>5. CASE runs
  <2>1. Finished(r) = ends("ok", config)
    BY <1>1, <1>5
  <2> QED BY <1>2, <1>5, <2>1
<1>6. CASE ~helped /\ ~sweeps /\ ~runs
  BY <1>1, <1>6
<1> QED BY <1>3, <1>4, <1>5, <1>6

\* While the program acts on its command line, cli is what that line says.
FlagsInv == pc \in Running \cup {"expand"} =>
               line \in Lines /\ cli = Parse(TextOf(line)) /\ cli.status = "ok"

LEMMA FlagsInvStep == IInv /\ FlagsInv /\ [Next]_vars => FlagsInv'
<1> SUFFICES ASSUME IInv, FlagsInv, [Next]_vars PROVE FlagsInv'
  OBVIOUS
<1> USE DEF FlagsInv, Running
<1>1. CASE Start
  BY <1>1 DEF Start
<1>2. CASE ParseCommandLine
  <2>1. Settings = TextOf(line) /\ line \in Lines
    BY DEF Settings, TextOf, IInv, CommandInv
  <2> QED BY <1>2, <2>1 DEF ParseCommandLine, Exit, TextOf
<1>3. CASE ExpandSweep
  BY <1>3 DEF ExpandSweep, Exit, TextOf
<1>4. CASE BuildRun \/ SimulateTick \/ EndLoop \/ WriteOutput \/ SkipOutput
  BY <1>4 DEF BuildRun, SimulateTick, EndLoop, WriteOutput, SkipOutput, TextOf
<1>5. CASE FinishRun
  BY <1>5 DEF FinishRun, StepAfter, Exit, TextOf
<1>6. CASE WriteComparison
  BY <1>6 DEF WriteComparison, Exit, TextOf
<1>7. CASE \/ BuildThrows \/ LoopThrows \/ DirectoryThrows \/ OutputThrows
           \/ NothingToCompare \/ ComparisonThrows
  BY <1>7 DEF BuildThrows, LoopThrows, DirectoryThrows, OutputThrows, NothingToCompare,
              ComparisonThrows, Exit
<1>8. CASE Kill
  BY <1>8 DEF Kill
<1>9. CASE UNCHANGED vars
  BY <1>9 DEF vars, TextOf
<1> QED BY <1>1, <1>2, <1>3, <1>4, <1>5, <1>6, <1>7, <1>8, <1>9 DEF Next

\* What the whole command line asks for.
LEMMA AskedAll ==
    ASSUME line \in Lines
    PROVE  /\ Settings = TextOf(line)
           /\ \A f : Asked(f) = AskedAt(Settings, Len(Settings), f)
<1>1. Settings = TextOf(line)
  BY DEF Settings, TextOf
<1>2. Len(Settings) = Len(line) /\ DOMAIN line = 1 .. Len(Settings)
  BY <1>1, TextType
<1>3. LastConfigFile = FileAt(Settings, Len(Settings))
  BY <1>2 DEF LastConfigFile, FileAt
<1>4. ASSUME NEW f PROVE LastWriter(f) = WriterAt(Settings, Len(Settings), f)
  BY <1>2, <1>3 DEF LastWriter, WriterAt
<1>5. ASSUME NEW f PROVE Asked(f) = AskedAt(Settings, Len(Settings), f)
  BY <1>3, <1>4 DEF Asked, AskedAt
<1> QED BY <1>1, <1>5

\* Whatever order flags, switches and files come in on a command line, each
\* field has the value of the last flag that writes it after the last --config,
\* or else the value of that file, or else its default (CLI::parse).
THEOREM FlagsAreRead == Spec => []LastFlagWins
<1>1. Init => FlagsInv
  BY DEF Init, FlagsInv, Running
<1>2. FlagsInv => LastFlagWins
  <2> SUFFICES ASSUME FlagsInv, pc \in {"build", "expand"}, NEW f \in DOMAIN Config
               PROVE  cli.config[f] = Meant(f)
    BY DEF LastFlagWins
  <2>1. line \in Lines /\ cli = Parse(TextOf(line)) /\ cli.status = "ok"
    BY DEF FlagsInv, Running
  <2>2. /\ Settings = TextOf(line)
        /\ \A h : Asked(h) = AskedAt(Settings, Len(Settings), h)
    BY <2>1, AskedAll
  <2>3. PICK g : /\ ResultOK(g) /\ Parse(Settings) = Finished(g)
                 /\ g.status = "parsing" =>
                       \A h \in DOMAIN Config :
                          g.config[h] = AskedAt(Settings, Len(Settings), h)
    BY <2>1, <2>2, ArgumentsRead
  <2>4. cli = Finished(g)
    BY <2>1, <2>2, <2>3
  <2>5. /\ g.status = "parsing" /\ cli.experiment_mode = g.experiment_mode
        /\ \A h \in DOMAIN Config :
              cli.config[h] = IF h = "warmup_ticks" /\ ~g.experiment_mode
                              THEN Warmup(g.config.ticks, g.config[h]) ELSE g.config[h]
    BY <2>1, <2>3, <2>4, ConfigFinished
  <2>6. \A h \in DOMAIN Config : g.config[h] = Asked(h)
    BY <2>2, <2>3, <2>5
  <2>7. "ticks" \in DOMAIN Config
    BY DEF Config
  <2>8. g.config.ticks = Asked("ticks")
    BY <2>6, <2>7
  <2> QED BY <2>5, <2>6, <2>8 DEF Meant
<1> QED BY <1>1, <1>2, FlagsInvStep, InvHolds, PTL DEF Spec
=============================================================================
