------------------------------- MODULE Oracle -------------------------------
(***************************************************************************)
(* OracleEvaluator: what it would cost to serve a process first, found by  *)
(* running the scheduler ahead on copies of the processes until their      *)
(* queues are empty.  The processes are copied, the scheduler is not: what *)
(* RR and CFS keep between calls goes from one evaluation to the next.     *)
(*                                                                         *)
(* Modelled for the policies that read no rate estimate, outside lock      *)
(* mode.  The evaluations happen in any state of the loop and leave it as  *)
(* it is.  Some processes may be blocked at the start; of the policies     *)
(* only FCFS looks at that (FCFSScheduler::choose).                        *)
(***************************************************************************)
EXTENDS PolicyLoop

CONSTANTS
    Topologies,    \* service graphs: sets of pairs <<service, dependent>>
    Safety         \* 100000, the bound on the look-ahead

ASSUME OracleAssumption == Safety \in Nat

Invalid == 10^9    \* J of a first move that cannot be made

\* What choose() returns, without a previous decision, and the scheduler after it.
OracleChoice(ps, blocked, sched) ==
    CASE policy = "rr"   -> RoundRobin(ps, sched.index)
      [] policy = "fcfs" -> FCFS(ps, DOMAIN ps \ blocked)
      [] policy = "cfs"  -> CFS(ps, DOMAIN ps, sched.vruntimes, Idle)
      [] policy = "gsq"  -> GSQ(ps)

SchedulerAfter(ps, sched) ==
    CASE policy = "rr"  -> [sched EXCEPT !.index = NextIndex(ps, @)]
      [] policy = "cfs" -> [sched EXCEPT !.vruntimes = NextVruntimes(ps, DOMAIN ps, @, Idle)]
      [] OTHER          -> sched

CanRun(ps, blocked, i) == ps[i].queue_length > 0 /\ i \notin blocked

\* When i has done all its jobs each dependent is unblocked, or else gets a job.
Released(ps, topology, i) ==
    IF ps[i].queue_length > 0 THEN {} ELSE {j \in DOMAIN ps : <<i, j>> \in topology}

WithArrivals(ps, targets, t) ==
    [j \in DOMAIN ps |-> IF j \in targets THEN Arrival(ps[j], t) ELSE ps[j]]

\* Serving i at the tick of the look-ahead l.
Serve(l, topology, i) ==
    LET lighter  == [l.procs EXCEPT ![i] = Service(@, l.tick)]
        released == IF l.procs[i].queue_length > 0 THEN Released(lighter, topology, i) ELSE {}
        procs    == WithArrivals(lighter, released \ l.blocked, l.tick)
    IN  [l EXCEPT !.procs   = procs,
                  !.blocked = @ \ released,
                  !.total   = @ + SumOver(procs, "queue_length"),
                  !.tick    = @ + 1]

\* Fault: the forced move is made at every tick.
ForcesAlways(l, forced) == forced # Idle

\* Is the move of this tick the forced one?
Forces(l, forced) == l.tick = 0 /\ forced # Idle

\* One turn of the loop of evaluate_J.
LookAhead(l, topology, forced) ==
    LET forces == Forces(l, forced)
        i      == IF forces THEN forced ELSE OracleChoice(l.procs, l.blocked, l.sched)
        after  == IF forces THEN l.sched ELSE SchedulerAfter(l.procs, l.sched)
    IN  IF l.ended THEN l
        ELSE IF forces /\ ~CanRun(l.procs, l.blocked, i)
             THEN [l EXCEPT !.ended = TRUE, !.total = Invalid]
        ELSE IF i = Idle THEN [l EXCEPT !.ended = TRUE, !.sched = after]
        ELSE Serve([l EXCEPT !.sched = after], topology, i)

\* The copies that evaluate_J starts from.
Copied(ps, blocked, sched) ==
    [procs |-> ps, blocked |-> blocked, sched |-> sched, tick |-> 0, total |-> 0, ended |-> FALSE]

\* The look-ahead after each of its turns.
Turns(ps, blocked, topology, sched, forced) ==
    LET after[n \in 0 .. Safety] ==
            IF n = 0 THEN Copied(ps, blocked, sched)
            ELSE LookAhead(after[n - 1], topology, forced)
    IN  after

\* evaluate_J: the sum of all queue lengths over all ticks of the look-ahead.
EvaluateJ(ps, blocked, topology, sched, forced) ==
    Turns(ps, blocked, topology, sched, forced)[Safety]

\* The oracle score of process i is appended; the evaluation moves the scheduler.
Scored(s, ps, blocked, topology, base, i) ==
    LET forced == EvaluateJ(ps, blocked, topology, s.sched, i)
    IN  IF CanRun(ps, blocked, i)
        THEN [scores |-> Append(s.scores, base.total - forced.total), sched |-> forced.sched]
        ELSE [s EXCEPT !.scores = Append(@, 0)]

\* compute_oracle_embi: the scores of the first k processes, and the scheduler
\* afterwards, for each k.
ScoresUpTo(ps, blocked, topology, sched) ==
    LET base == EvaluateJ(ps, blocked, topology, sched, Idle)
        upto[k \in 0 .. Len(ps)] ==
            IF k = 0 THEN [scores |-> <<>>, sched |-> base.sched]
            ELSE Scored(upto[k - 1], ps, blocked, topology, base, k)
    IN  upto

OracleScores(blocked, topology) ==
    ScoresUpTo(processes, blocked, topology,
               [index |-> index, vruntimes |-> vruntimes])[Len(processes)].scores

(***************************************************************************)
(* Without dependencies it does not matter who is served first: every      *)
(* oracle score is 0, under any policy and whatever the scheduler carries  *)
(* from one evaluation to the next.  With dependencies, and whoever is     *)
(* blocked, the process that a policy without state serves anyway has the  *)
(* score 0 (compute_oracle_embi, tests/test_oracle.cpp).                   *)
(***************************************************************************)
OracleScoresSwaps ==
    Due /\ policy \in {"rr", "fcfs", "cfs", "gsq"} =>
        /\ \A i \in DOMAIN processes : OracleScores({}, {})[i] = 0
        /\ policy \in {"fcfs", "gsq"} =>
              \A topology \in Topologies, blocked \in SUBSET DOMAIN processes :
                 LET own == OracleChoice(processes, blocked, [index |-> index])
                 IN  own # Idle => OracleScores(blocked, topology)[own] = 0

=============================================================================
