----------------------------- MODULE PolicyLoop -----------------------------
(***************************************************************************)
(* The event loop run with one of the program's own policies instead of    *)
(* any scheduler that honours the contract: EventLoop composed with        *)
(* Schedulers.  The policy is chosen at the start of the run               *)
(* (Simulator::buildScheduler).                                            *)
(*                                                                         *)
(* The EWMA estimates of a process, noise included, are any values of      *)
(* MuHats and LambdaHats, chosen anew for each decision.                   *)
(***************************************************************************)
EXTENDS EventLoop, Schedulers

CONSTANTS
    Policies,      \* names of the policies to run
    MuHats,        \* bound: values of mu_hat
    LambdaHats     \* bound: values of lambda_hat

PolicyNames == {"rr", "fcfs", "cfs", "sjf", "gsq", "maxweight", "cmu", "embi",
                "embi_ablated", "embi_no_prediction", "embi_no_penalty", "hybrid_embi"}

ASSUME PolicyLoopAssumption ==
    /\ Policies \subseteq PolicyNames
    /\ MuHats \subseteq Nat \ {0} /\ LambdaHats \subseteq Nat
    /\ Services = InitialServices     \* no dynamic registration

VARIABLES
    policy,        \* scheduler_
    index,         \* RoundRobinScheduler::current_index_
    vruntimes,     \* CFSScheduler::vruntimes_
    passed,        \* history: decisions for others since i has had to wait
    turn           \* history: arrival tick of the job last chosen

policyVars == <<policy, index, vruntimes, passed, turn>>
policyLoopVars == <<vars, policyVars>>

PolicyInit ==
    /\ Init
    /\ policy \in Policies
    /\ index = 1
    /\ vruntimes = [i \in 1 .. NumProcs |-> 0]
    /\ passed = [i \in 1 .. NumProcs |-> 0]
    /\ turn = 0

\* In lock mode FCFS, SJF and CFS consider lock holders only.
Runnable == {i \in DOMAIN processes : LockMode => lockState[i].holds_lock}

Waiting(i) == processes[i].queue_length > 0

\* A Schedule event is next.
Due == Pop(ScheduleEvent, "Schedule")

\* The pending Schedule event is answered with i; the histories note it.
Decide(i) ==
    /\ Schedule(ScheduleEvent, i)
    /\ passed' = [j \in DOMAIN passed |->
                     IF i = j \/ ~Waiting(j) THEN 0
                     ELSE IF i = Idle THEN passed[j] ELSE passed[j] + 1]
    /\ turn' = IF i = Idle THEN turn ELSE Head(processes[i].jobs)

ScheduleRoundRobin ==
    LET i == RoundRobin(processes, index)
    IN  /\ policy = "rr"
        /\ Decide(i)
        /\ index' = NextIndex(processes, index)
        /\ UNCHANGED <<policy, vruntimes>>

ScheduleFCFS ==
    LET i == FCFS(processes, Runnable)
    IN  /\ policy = "fcfs"
        /\ Decide(i)
        /\ UNCHANGED <<policy, index, vruntimes>>

ScheduleCFS ==
    LET i == CFS(processes, Runnable, vruntimes, prev)
    IN  /\ policy = "cfs"
        /\ Decide(i)
        /\ vruntimes' = NextVruntimes(processes, Runnable, vruntimes, prev)
        /\ UNCHANGED <<policy, index>>

\* What a policy without state returns.
ScoreChoice(mu, lambda) ==
    CASE policy = "sjf"       -> SJF(processes, Runnable, mu)
      [] policy = "gsq"       -> GSQ(processes)
      [] policy = "maxweight" -> MaxWeight(processes, syncDebt, mu)
      [] policy = "cmu"       -> Cmu(processes, mu)
      [] policy = "embi"      -> EMBI(processes, mu, lambda)
      [] policy = "embi_ablated" ->
             EMBIAblated(processes, syncDebt, mu, lambda, TRUE, TRUE)
      [] policy = "embi_no_prediction" ->
             EMBIAblated(processes, syncDebt, mu, lambda, TRUE, FALSE)
      [] policy = "embi_no_penalty" ->
             EMBIAblated(processes, syncDebt, mu, lambda, FALSE, TRUE)
      [] policy = "hybrid_embi" ->
             HybridEMBI(processes, syncDebt, mu, lambda)

ScheduleByScore ==
    /\ Due /\ policy \notin {"rr", "fcfs", "cfs"}
    /\ \E i \in {ScoreChoice(mu, lambda) : mu \in [DOMAIN processes -> MuHats],
                                           lambda \in [DOMAIN processes -> LambdaHats]} :
          Decide(i)
    /\ UNCHANGED <<policy, index, vruntimes>>

\* Every action of the loop but HandleSchedule.
OtherStep ==
    \/ BeginTick
    \/ \E e \in Event : HandleArrival(e)
    \/ \E e \in Event : HandleLockAcquire(e)
    \/ \E e \in Event : IgnoreLockEvent(e)
    \/ \E e \in Event : HandleService(e)
    \/ \E e \in Event : IgnoreService(e)
    \/ \E e \in Event : HandleMetrics(e)
    \/ EndTick
    \/ Terminated

PolicyNext ==
    \/ ScheduleRoundRobin
    \/ ScheduleFCFS
    \/ ScheduleCFS
    \/ ScheduleByScore
    \/ OtherStep /\ UNCHANGED policyVars

PolicySpec == PolicyInit /\ [][PolicyNext]_policyLoopVars

-----------------------------------------------------------------------------
(* Properties.                                                             *)

(***************************************************************************)
(* Every policy honours the contract EventLoop assumes of its scheduler,   *)
(* so the loop with that policy is one of the loops EventLoop allows, and  *)
(* all that holds of EventLoop holds of it.                                *)
(***************************************************************************)
HonoursContract == Spec

(***************************************************************************)
(* Round robin: a process with a job is passed over at most once by each   *)
(* of the others, however jobs arrive meanwhile.                           *)
(***************************************************************************)
BoundedBypass ==
    policy = "rr" => \A i \in DOMAIN passed : passed[i] < NumProcs

(***************************************************************************)
(* First come first served over all queues: jobs are chosen in the order   *)
(* of arrival, so no queued job is older than the one last chosen.         *)
(***************************************************************************)
GlobalFIFO ==
    policy = "fcfs" /\ ~LockMode =>
        \A i \in DOMAIN processes :
            \A k \in DOMAIN processes[i].jobs : processes[i].jobs[k] >= turn

(***************************************************************************)
(* CFS: while a process waits, each other process is chosen at most once   *)
(* for every tick of run time by which it may still be behind.             *)
(***************************************************************************)
NoStarvationByCFS ==
    policy = "cfs" /\ ~LockMode =>
        \A i \in DOMAIN passed : passed[i] <= (NumProcs - 1) * (vruntimes[i] + 1)

-----------------------------------------------------------------------------
(* Statements of the documentation that the code does not keep.            *)

(***************************************************************************)
(* "A small threshold to prevent jobs that sleep for a long time from      *)
(* having an infinitely low vruntime": when CFS has chosen, no process     *)
(* with a job is further behind all the others than the bonus cap.         *)
(***************************************************************************)
WakeupBonusCapped ==
    [][policy = "cfs" /\ Due =>
          LET active == NonEmpty(processes) \cap Runnable
          IN  \A i \in active : active # {i} =>
                  \E j \in active \ {i} : vruntimes'[i] >= vruntimes'[j] - BonusCap]_policyLoopVars

\* Every process with a job has a score of 0 or less, whatever is estimated.
AllClipped ==
    LET q == [i \in DOMAIN processes |-> processes[i].queue_length]
    IN  \A mu \in [DOMAIN processes -> MuHats], lambda \in [DOMAIN processes -> LambdaHats] :
            \A i \in NonEmpty(processes) : RawScores(q, mu, lambda, Penalty)[i] <= 0

(***************************************************************************)
(* "If no process has queue_length > 0, or all scores are <= 0 (EMBI       *)
(* clipped), the field valid is set to false": EMBI idles when every score *)
(* is clipped.                                                             *)
(***************************************************************************)
ClippedMeansIdle ==
    [][policy = "embi" /\ Due /\ AllClipped => last' = NoPid]_policyLoopVars

=============================================================================
