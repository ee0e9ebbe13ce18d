----------------------------- MODULE Schedulers -----------------------------
(***************************************************************************)
(* The scheduling policies (schedulers/): what choose() returns, as an     *)
(* operator of the processes and of whatever else the policy reads, and,   *)
(* for RR and CFS, of the state the policy keeps between calls.            *)
(*                                                                         *)
(* Scores are integers here; only their order and differences matter.      *)
(* The rate estimates mu and lambda are functions from process indices to  *)
(* integers.  The fields of a Decision that only describe the scores for   *)
(* the log are left out.                                                   *)
(***************************************************************************)
EXTENDS Integers, Sequences, FiniteSetsExt

CONSTANTS
    BonusCap,        \* vruntime_bonus_cap of CFS
    Penalty,         \* config.M
    EpsilonTotal,    \* config.epsilon_total
    TauBound         \* config.tau_constant_bound

ASSUME SchedulersAssumption == /\ BonusCap \in Nat
                               /\ Penalty \in Int
                               /\ EpsilonTotal \in Nat
                               /\ TauBound \in Nat

Idle == 0     \* Decision::idle(): no process is chosen

NonEmpty(ps) == {i \in DOMAIN ps : ps[i].queue_length > 0}

\* argmaxWithQueues: the first of the best-scored processes that have a job.
ArgmaxWithQueues(scores, ps) ==
    LET C == NonEmpty(ps)
    IN  IF C = {} THEN Idle
        ELSE Min({i \in C : \A j \in C : scores[j] <= scores[i]})

-----------------------------------------------------------------------------
(* Round robin: the first process with a job, from current_index_ on.      *)

\* The process looked at in attempt k.
Attempt(ps, index, k) == ((index - 1 + k) % Len(ps)) + 1

\* Fault: one attempt too few.
AttemptsTooFew(ps) == 0 .. Len(ps) - 2

Attempts(ps) == 0 .. Len(ps) - 1

RoundRobin(ps, index) ==
    LET hits == {k \in Attempts(ps) : ps[Attempt(ps, index, k)].queue_length > 0}
    IN  IF hits = {} THEN Idle ELSE Attempt(ps, index, Min(hits))

\* Fault: the search starts again at the process that was chosen.
IndexStays(ps, index) ==
    LET i == RoundRobin(ps, index) IN IF i = Idle THEN index ELSE i

\* current_index_ after the call: one past the choice, or one on when idle.
NextIndex(ps, index) ==
    LET i == RoundRobin(ps, index)
    IN  ((IF i = Idle THEN index ELSE i) % Len(ps)) + 1

-----------------------------------------------------------------------------
(* First come first served: the oldest head of line, among the processes   *)
(* that may run (in lock mode, the lock holders).                          *)

\* Fault: the newest head of line.
NewestHead(ps, E) == Max({Head(ps[i].jobs) : i \in E})

OldestHead(ps, E) == Min({Head(ps[i].jobs) : i \in E})

FCFS(ps, runnable) ==
    LET E == {i \in NonEmpty(ps) \cap runnable : ps[i].jobs # <<>>}
    IN  IF E = {} THEN Idle
        ELSE Min({i \in E : Head(ps[i].jobs) = OldestHead(ps, E)})

-----------------------------------------------------------------------------
(* CFS: the smallest virtual run time.  "prev" is previous_decision.       *)

\* Fault: nobody is charged.
NotCharged(vruntimes, prev) == vruntimes

\* The previously chosen process is charged one tick when choose() is called.
Charged(vruntimes, prev) ==
    IF prev \in DOMAIN vruntimes THEN [vruntimes EXCEPT ![prev] = @ + 1] ELSE vruntimes

\* vruntimes_ after the call.
NextVruntimes(ps, runnable, vruntimes, prev) ==
    LET v      == Charged(vruntimes, prev)
        active == NonEmpty(ps) \cap runnable
        floor  == Min({v[i] : i \in active}) - BonusCap
    IN  IF active = {} THEN v
        ELSE [i \in DOMAIN v |-> IF i \in active /\ v[i] < floor THEN floor ELSE v[i]]

\* A process with a job that may not run keeps the score 0.
CFS(ps, runnable, vruntimes, prev) ==
    LET v      == NextVruntimes(ps, runnable, vruntimes, prev)
        active == NonEmpty(ps) \cap runnable
    IN  IF active = {} THEN Idle
        ELSE ArgmaxWithQueues([i \in DOMAIN ps |-> IF i \in active THEN -v[i] ELSE 0], ps)

-----------------------------------------------------------------------------
(* Policies that only compare scores.                                      *)

\* Highest service rate first; in lock mode only lock holders have a score.
SJF(ps, runnable, mu) ==
    IF NonEmpty(ps) \cap runnable = {} THEN Idle
    ELSE ArgmaxWithQueues([i \in DOMAIN ps |-> IF i \in NonEmpty(ps) \cap runnable
                                               THEN mu[i] ELSE 0], ps)

GSQ(ps) == ArgmaxWithQueues([i \in DOMAIN ps |-> -ps[i].queue_length], ps)

Cmu(ps, mu) == ArgmaxWithQueues(mu, ps)

\* Queue length plus synchronization debt.
Fluid(ps, debt) == [i \in DOMAIN ps |-> ps[i].queue_length + debt[i]]

MaxWeight(ps, debt, mu) ==
    ArgmaxWithQueues([i \in DOMAIN ps |-> mu[i] * Fluid(ps, debt)[i]], ps)

Clipped(scores) == [i \in DOMAIN scores |-> IF scores[i] > 0 THEN scores[i] ELSE 0]

\* The EMBI score of the queue lengths q, with the prediction and penalty terms.
RawScores(q, mu, prediction, penalty) ==
    [i \in DOMAIN q |-> mu[i] * (2 * q[i] + 2 * prediction[i] - penalty)]

\* BaselineEMBIEstimator: the debt is not part of the score.
EMBI(ps, mu, lambda) ==
    LET q == [i \in DOMAIN ps |-> ps[i].queue_length]
    IN  ArgmaxWithQueues(Clipped(RawScores(q, mu, lambda, Penalty)), ps)

EMBIAblated(ps, debt, mu, lambda, no_pred, no_pen) ==
    LET prediction == [i \in DOMAIN ps |-> IF no_pred THEN 0 ELSE lambda[i]]
        penalty    == IF no_pen THEN 0 ELSE Penalty
    IN  ArgmaxWithQueues(Clipped(RawScores(Fluid(ps, debt), mu, prediction, penalty)), ps)

\* score_delta: the lead of process i over every other process, jobs or not.
Leads(scores, i, tau) == \A j \in DOMAIN scores \ {i} : scores[i] - scores[j] > tau

\* S(X): the fluid queues of all processes together.
TotalFluid(ps, debt) == MapThenSumSet(LAMBDA i : Fluid(ps, debt)[i], DOMAIN ps)

\* EMBI when the raw gap exceeds tau, else the longest queue.
HybridEMBI(ps, debt, mu, lambda) ==
    LET raw == RawScores(Fluid(ps, debt), mu, lambda, Penalty)
        top == ArgmaxWithQueues(raw, ps)
        tau == 2 * (EpsilonTotal * TotalFluid(ps, debt) + TauBound)
    IN  IF top = Idle THEN Idle
        ELSE IF Leads(raw, top, tau) THEN ArgmaxWithQueues(Clipped(raw), ps)
        ELSE ArgmaxWithQueues(Fluid(ps, debt), ps)

=============================================================================
