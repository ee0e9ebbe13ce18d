-------------------------- MODULE PolicyLoop_proofs --------------------------
(***************************************************************************)
(* Proofs about the scheduling policies: without dynamic registration each *)
(* of them honours the contract that EventLoop assumes of its scheduler,   *)
(* with locks and without, for any number of processes, any scores and any *)
(* values of the policy parameters.  So what is proved of EventLoop holds  *)
(* of the loop with every policy of the program.  Then what each policy    *)
(* promises on its own, and what the oracle that looks ahead with it finds.*)
(***************************************************************************)
EXTENDS Oracle, EventLoop_proofs, WellFoundedInduction

-----------------------------------------------------------------------------
(* Finite sets: the maximum of a function on a finite set exists, since a  *)
(* smallest subset without one (smallest by inclusion) would have one      *)
(* after all.                                                              *)

LEMMA MaximumExists ==
    ASSUME NEW S, IsFiniteSet(S), S # {}, NEW f \in [S -> Int]
    PROVE  \E x \in S : \A y \in S : f[y] <= f[x]
<1> DEFINE Highest(D) == \E x \in D : \A y \in D : f[y] <= f[x]
           Without    == {D \in SUBSET S : D # {} /\ ~Highest(D)}
<1>1. ASSUME Without # {} PROVE FALSE
  <2>1. IsWellFoundedOn(StrictSubsetOrdering(S), SUBSET S)
    BY FS_StrictSubsetOrderingWellFounded, FS_FiniteSubsetsOfFinite
  <2>2. PICK D \in Without : \A E \in Without : <<E, D>> \notin StrictSubsetOrdering(S)
    <3>1. Without \subseteq SUBSET S
      OBVIOUS
    <3> HIDE DEF Without
    <3> QED BY <1>1, <2>1, <3>1, WFMin
  <2>3. PICK x \in D : TRUE
    BY <2>2
  <2>4. Highest(D \ {x})
    <3>1. D \ {x} # {}
      <4> SUFFICES ASSUME D = {x} PROVE Highest(D)
        BY <2>2, <2>3
      <4> QED BY <2>2, <2>3
    <3>2. <<D \ {x}, D>> \in StrictSubsetOrdering(S)
      BY <2>2, <2>3 DEF StrictSubsetOrdering
    <3> QED BY <2>2, <3>1, <3>2
  <2>5. PICK y \in D \ {x} : \A z \in D \ {x} : f[z] <= f[y]
    BY <2>4
  <2>6. \A z \in D : f[z] \in Int
    BY <2>2
  <2>7. Highest(D)
    <3>1. CASE f[x] <= f[y]
      BY <2>5, <3>1
    <3>2. CASE f[y] < f[x]
      BY <2>3, <2>5, <2>6, <3>2
    <3> QED BY <2>3, <2>5, <2>6, <3>1, <3>2
  <2> QED BY <2>2, <2>7
<1>2. S \notin Without
  BY <1>1
<1> QED BY <1>2

LEMMA MinimumIn ==
    ASSUME NEW S \in SUBSET Int, IsFiniteSet(S), S # {}
    PROVE  Min(S) \in S /\ \A y \in S : Min(S) <= y
<1> DEFINE f == [x \in S |-> -x]
<1>1. f \in [S -> Int]
  OBVIOUS
<1>2. PICK x \in S : \A y \in S : f[y] <= f[x]
  <2> HIDE DEF f
  <2> QED BY <1>1, MaximumExists
<1>3. \A y \in S : x <= y
  BY <1>2
<1> QED BY <1>3 DEF Min

LEMMA IndicesFinite ==
    ASSUME NEW S, NEW v \in Seq(S), NEW I \in SUBSET DOMAIN v
    PROVE  IsFiniteSet(I) /\ I \in SUBSET Int
<1>1. DOMAIN v = 1 .. Len(v) /\ Len(v) \in Nat
  OBVIOUS
<1>2. IsFiniteSet(DOMAIN v)
  BY <1>1, FS_Interval
<1>3. I \in SUBSET (1 .. Len(v))
  BY <1>1
<1> QED BY <1>2, <1>3, FS_Subset

-----------------------------------------------------------------------------
(* The policies, each on its own.                                          *)

\* i is a choice that honours the contract when everybody may run.
Honours(i, ps) == i \in IF NonEmpty(ps) = {} THEN {Idle} ELSE NonEmpty(ps)

\* Otherwise i may also be idle when nobody who may run has a job.
HonoursAmong(i, ps, runnable) ==
    \/ i \in NonEmpty(ps)
    \/ i = Idle /\ NonEmpty(ps) \cap runnable = {}

LEMMA HonoursAmongAny ==
    ASSUME NEW ps, NEW i, Honours(i, ps), NEW runnable PROVE HonoursAmong(i, ps, runnable)
  BY DEF Honours, HonoursAmong

LEMMA ArgmaxHonours ==
    ASSUME NEW ps \in Seq(ProcessRecord), NEW scores \in [DOMAIN ps -> Int]
    PROVE  /\ Honours(ArgmaxWithQueues(scores, ps), ps)
           /\ \A j \in NonEmpty(ps) : scores[j] <= scores[ArgmaxWithQueues(scores, ps)]
<1> DEFINE C == NonEmpty(ps)
           best == {i \in C : \A j \in C : scores[j] <= scores[i]}
<1>1. CASE C = {}
  BY <1>1 DEF ArgmaxWithQueues, Honours
<1>2. CASE C # {}
  <2>1. C \in SUBSET DOMAIN ps /\ IsFiniteSet(C) /\ C \in SUBSET Int
    <3>1. C \in SUBSET DOMAIN ps
      BY DEF NonEmpty
    <3> HIDE DEF C
    <3> QED BY <3>1, IndicesFinite
  <2>2. best # {}
    <3> DEFINE f == [i \in C |-> scores[i]]
    <3>1. f \in [C -> Int]
      BY <2>1
    <3>2. PICK i \in C : \A j \in C : f[j] <= f[i]
      <4> HIDE DEF f, C
      <4> QED BY <1>2, <2>1, <3>1, MaximumExists
    <3> QED BY <3>2
  <2>3. best \in SUBSET Int /\ IsFiniteSet(best)
    BY <2>1, FS_Subset
  <2>4. Min(best) \in best
    <3> HIDE DEF best
    <3> QED BY <2>2, <2>3, MinimumIn
  <2> QED BY <1>2, <2>4 DEF ArgmaxWithQueues, Honours
<1> QED BY <1>1, <1>2

LEMMA Modulo ==
    ASSUME NEW n \in Nat \ {0}
    PROVE  /\ \A a \in Nat : a % n \in 0 .. n - 1
           /\ \A a \in 0 .. n - 1 : a % n = a /\ (a + n) % n = a
  BY Z3

\* Every index is looked at: i is found in attempt i - start, or i - start + N.
LEMMA RoundRobinHonours ==
    ASSUME NEW ps \in Seq(ProcessRecord), Len(ps) # 0, NEW start \in 1 .. Len(ps)
    PROVE  /\ Honours(RoundRobin(ps, start), ps)
           /\ NextIndex(ps, start) \in 1 .. Len(ps)
<1> DEFINE N    == Len(ps)
           hits == {k \in Attempts(ps) : ps[Attempt(ps, start, k)].queue_length > 0}
<1>1. N \in Nat \ {0} /\ DOMAIN ps = 1 .. N
  OBVIOUS
<1>2. \A a \in Nat : (a % N) + 1 \in 1 .. N
  <2>1. \A a \in Nat : a % N \in 0 .. N - 1
    <3> HIDE DEF N
    <3> QED BY <1>1, Modulo
  <2> SUFFICES ASSUME NEW a \in Nat PROVE (a % N) + 1 \in 1 .. N
    OBVIOUS
  <2> DEFINE r == a % N
  <2>2. r \in 0 .. N - 1
    BY <2>1
  <2> HIDE DEF r, N
  <2>3. r + 1 \in 1 .. N
    BY <1>1, <2>2
  <2> QED BY <2>3 DEF r
<1>3. Attempts(ps) = 0 .. N - 1
  BY DEF Attempts
<1>4. \A k \in 0 .. N - 1 : Attempt(ps, start, k) \in 1 .. N
  <2> SUFFICES ASSUME NEW k \in 0 .. N - 1 PROVE Attempt(ps, start, k) \in 1 .. N
    OBVIOUS
  <2>1. start - 1 + k \in Nat
    BY <1>1
  <2>2. ((start - 1 + k) % N) + 1 \in 1 .. N
    <3> HIDE DEF N
    <3> QED BY <1>2, <2>1
  <2> QED BY <2>2 DEF Attempt
<1>5. CASE hits = {}
  <2>1. NonEmpty(ps) = {}
    <3> SUFFICES ASSUME NEW i \in NonEmpty(ps) PROVE FALSE
      OBVIOUS
    <3>1. i \in 1 .. N /\ ps[i].queue_length > 0
      BY <1>1 DEF NonEmpty
    <3>2. PICK k \in 0 .. N - 1 : start - 1 + k = i - 1 \/ start - 1 + k = i - 1 + N
      <4>1. CASE start <= i
        <5>1. i - start \in 0 .. N - 1 /\ start - 1 + (i - start) = i - 1
          BY <1>1, <3>1, <4>1
        <5> QED BY <5>1
      <4>2. CASE i < start
        <5>1. i - start + N \in 0 .. N - 1 /\ start - 1 + (i - start + N) = i - 1 + N
          BY <1>1, <3>1, <4>2
        <5> QED BY <5>1
      <4> QED BY <1>1, <3>1, <4>1, <4>2
    <3>3. (start - 1 + k) % N = i - 1
      <4>1. i - 1 \in 0 .. N - 1
        BY <1>1, <3>1
      <4>2. (i - 1) % N = i - 1 /\ (i - 1 + N) % N = i - 1
        <5> HIDE DEF N
        <5> QED BY <1>1, <4>1, Modulo
      <4> QED BY <3>2, <4>2
    <3>4. Attempt(ps, start, k) = i
      BY <3>1, <3>3 DEF Attempt
    <3> QED BY <1>3, <1>5, <3>1, <3>4
  <2>2. RoundRobin(ps, start) = Idle
    BY <1>5 DEF RoundRobin
  <2>3. NextIndex(ps, start) = (start % N) + 1
    BY <2>2 DEF NextIndex
  <2>4. (start % N) + 1 \in 1 .. N
    <3>1. start \in Nat
      BY <1>1
    <3> HIDE DEF N
    <3> QED BY <1>2, <3>1
  <2> QED BY <2>1, <2>2, <2>3, <2>4 DEF Honours
<1>6. CASE hits # {}
  <2>1. hits \in SUBSET Int /\ IsFiniteSet(hits)
    <3>1. IsFiniteSet(0 .. N - 1) /\ hits \in SUBSET (0 .. N - 1)
      BY <1>1, <1>3, FS_Interval
    <3>2. IsFiniteSet(hits)
      <4> HIDE DEF hits
      <4> QED BY <3>1, FS_Subset
    <3> QED BY <1>1, <3>1, <3>2
  <2>2. Min(hits) \in hits
    <3> HIDE DEF hits
    <3> QED BY <1>6, <2>1, MinimumIn
  <2>3. RoundRobin(ps, start) = Attempt(ps, start, Min(hits))
    BY <1>6 DEF RoundRobin
  <2>4. RoundRobin(ps, start) \in NonEmpty(ps)
    BY <1>1, <1>3, <1>4, <2>2, <2>3 DEF NonEmpty
  <2>5. RoundRobin(ps, start) \in 1 .. N /\ RoundRobin(ps, start) # Idle
    BY <1>1, <2>4 DEF NonEmpty, Idle
  <2> DEFINE i == RoundRobin(ps, start)
  <2>6. NextIndex(ps, start) = (i % N) + 1
    BY <2>5 DEF NextIndex
  <2>7. (i % N) + 1 \in 1 .. N
    <3>1. i \in Nat
      BY <1>1, <2>5
    <3> HIDE DEF N, i
    <3> QED BY <1>2, <3>1
  <2> QED BY <2>4, <2>6, <2>7 DEF Honours
<1> QED BY <1>5, <1>6

LEMMA RecordsTyped ==
    ASSUME NEW ps \in Seq(ProcessRecord), NEW i \in DOMAIN ps
    PROVE  ps[i].jobs \in Seq(Nat) /\ ps[i].queue_length \in Int
<1>1. ps[i] \in ProcessRecord
  OBVIOUS
<1> QED BY <1>1 DEF ProcessRecord

\* A process with a job has a head of line, so none is passed over.
LEMMA FCFSHonours ==
    ASSUME NEW ps \in Seq(ProcessRecord), NEW runnable,
           \A i \in DOMAIN ps : ps[i].queue_length = Len(ps[i].jobs)
    PROVE  LET E == NonEmpty(ps) \cap runnable
               i == FCFS(ps, runnable)
           IN  /\ HonoursAmong(i, ps, runnable)
               /\ E # {} => /\ i \in E
                            /\ \A j \in E : Head(ps[i].jobs) <= Head(ps[j].jobs)
<1> DEFINE E      == {i \in NonEmpty(ps) \cap runnable : ps[i].jobs # <<>>}
           heads  == {Head(ps[i].jobs) : i \in E}
           oldest == {i \in E : Head(ps[i].jobs) = OldestHead(ps, E)}
<1>1. \A i \in DOMAIN ps : ps[i].jobs \in Seq(Nat)
  BY RecordsTyped
<1>2. E = NonEmpty(ps) \cap runnable
  <2>1. ASSUME NEW i \in NonEmpty(ps) PROVE ps[i].jobs # <<>>
    BY DEF NonEmpty
  <2> QED BY <2>1
<1>3. CASE E = {}
  BY <1>2, <1>3 DEF FCFS, HonoursAmong
<1>4. CASE E # {}
  <2>1. E \in SUBSET DOMAIN ps /\ IsFiniteSet(E) /\ E \in SUBSET Int
    <3>1. E \in SUBSET DOMAIN ps
      BY DEF NonEmpty
    <3> HIDE DEF E
    <3> QED BY <3>1, IndicesFinite
  <2> DEFINE f == [i \in E |-> -Head(ps[i].jobs)]
  <2>2. \A i \in E : Head(ps[i].jobs) \in Int
    BY <1>1 DEF NonEmpty
  <2>3. f \in [E -> Int]
    <3> HIDE DEF E
    <3> QED BY <2>2
  <2>4. PICK i \in E : \A j \in E : f[j] <= f[i]
    <3> HIDE DEF f, E
    <3> QED BY <1>4, <2>1, <2>3, MaximumExists
  <2>5. \A j \in E : Head(ps[i].jobs) <= Head(ps[j].jobs)
    <3> HIDE DEF E
    <3> QED BY <2>2, <2>4
  <2>6. OldestHead(ps, E) \in heads
    <3>1. Head(ps[i].jobs) \in heads /\ \A h \in heads : Head(ps[i].jobs) <= h
      <4> HIDE DEF E
      <4> QED BY <2>5
    <3> HIDE DEF E
    <3> QED BY <3>1 DEF OldestHead, Min
  <2>7. oldest # {}
    <3> HIDE DEF E
    <3> QED BY <2>6
  <2>8. oldest \in SUBSET Int /\ IsFiniteSet(oldest)
    <3> HIDE DEF E
    <3> QED BY <2>1, FS_Subset
  <2>9. Min(oldest) \in oldest
    <3> HIDE DEF oldest
    <3> QED BY <2>7, <2>8, MinimumIn
  <2>10. FCFS(ps, runnable) = Min(oldest)
    BY <1>4 DEF FCFS
  <2> DEFINE c == FCFS(ps, runnable)
  <2>11. c \in E /\ Head(ps[c].jobs) = OldestHead(ps, E)
    <3> HIDE DEF E
    <3> QED BY <2>9, <2>10
  <2>12. \A h \in heads : OldestHead(ps, E) <= h
    <3>1. Head(ps[i].jobs) \in heads /\ \A h \in heads : Head(ps[i].jobs) <= h
      <4> HIDE DEF E
      <4> QED BY <2>5
    <3> HIDE DEF E
    <3> QED BY <3>1 DEF OldestHead, Min
  <2>13. \A j \in E : Head(ps[c].jobs) <= Head(ps[j].jobs)
    <3> HIDE DEF E, c
    <3> QED BY <2>11, <2>12
  <2> HIDE DEF c, E
  <2> QED BY <1>2, <2>11, <2>13 DEF HonoursAmong, c
<1> QED BY <1>3, <1>4

\* The run times stay integers, one for each process.
LEMMA VruntimesTyped ==
    ASSUME NEW ps \in Seq(ProcessRecord), NEW runnable, NEW prior,
           NEW v \in [DOMAIN ps -> Int]
    PROVE  NextVruntimes(ps, runnable, v, prior) \in [DOMAIN ps -> Int]
<1> DEFINE w      == Charged(v, prior)
           active == NonEmpty(ps) \cap runnable
           lowest == Min({w[i] : i \in active})
<1>1. w \in [DOMAIN ps -> Int]
  <2>1. CASE prior \in DOMAIN ps
    BY <2>1 DEF Charged
  <2>2. CASE prior \notin DOMAIN ps
    BY <2>2 DEF Charged
  <2> QED BY <2>1, <2>2
<1>2. CASE active = {}
  BY <1>1, <1>2 DEF NextVruntimes
<1>3. CASE active # {}
  <2>1. active \in SUBSET DOMAIN ps /\ IsFiniteSet(active)
    <3>1. active \in SUBSET DOMAIN ps
      BY DEF NonEmpty
    <3> HIDE DEF active
    <3> QED BY <3>1, IndicesFinite
  <2> DEFINE f == [i \in active |-> -w[i]]
  <2> HIDE DEF w, active
  <2>2. f \in [active -> Int]
    BY <1>1, <2>1
  <2>3. PICK least \in active : \A j \in active : f[j] <= f[least]
    <3> HIDE DEF f
    <3> QED BY <1>3, <2>1, <2>2, MaximumExists
  <2>4. w[least] \in Int /\ \A j \in active : w[least] <= w[j]
    BY <1>1, <2>1, <2>3
  <2>5. lowest \in Int
    <3>1. /\ w[least] \in {w[j] : j \in active}
          /\ \A x \in {w[j] : j \in active} : w[least] <= x
      BY <2>4
    <3>2. lowest \in {w[j] : j \in active}
      BY <3>1 DEF Min
    <3> QED BY <1>1, <2>1, <3>2
  <2>6. NextVruntimes(ps, runnable, v, prior)
          = [i \in DOMAIN w |-> IF i \in active /\ w[i] < lowest - BonusCap
                                THEN lowest - BonusCap ELSE w[i]]
    BY <1>3 DEF NextVruntimes, w, active
  <2>7. lowest - BonusCap \in Int
    BY <2>5, SchedulersAssumption
  <2> HIDE DEF lowest
  <2> QED BY <1>1, <2>6, <2>7
<1> QED BY <1>2, <1>3

LEMMA CFSHonours ==
    ASSUME NEW ps \in Seq(ProcessRecord), NEW runnable,
           NEW prior, NEW v \in [DOMAIN ps -> Int]
    PROVE  HonoursAmong(CFS(ps, runnable, v, prior), ps, runnable)
<1> DEFINE w      == NextVruntimes(ps, runnable, v, prior)
           active == NonEmpty(ps) \cap runnable
           scores == [i \in DOMAIN ps |-> IF i \in active THEN -w[i] ELSE 0]
<1>2. scores \in [DOMAIN ps -> Int]
  <2>1. w \in [DOMAIN ps -> Int]
    BY VruntimesTyped
  <2> HIDE DEF w, active
  <2> QED BY <2>1
<1>3. CASE active = {}
  BY <1>3 DEF CFS, HonoursAmong
<1>4. CASE active # {}
  <2>1. CFS(ps, runnable, v, prior) = ArgmaxWithQueues(scores, ps)
    BY <1>4 DEF CFS
  <2> HIDE DEF scores
  <2>2. Honours(CFS(ps, runnable, v, prior), ps)
    BY <1>2, <2>1, ArgmaxHonours
  <2> QED BY <2>2, HonoursAmongAny
<1> QED BY <1>3, <1>4

\* The policies that only compare scores.
LEMMA ScoresHonour ==
    ASSUME NEW ps \in Seq(ProcessRecord), NEW debt \in [DOMAIN ps -> Nat],
           NEW runnable,
           NEW mu \in [DOMAIN ps -> Nat], NEW lambda \in [DOMAIN ps -> Nat],
           NEW no_pred \in BOOLEAN, NEW no_pen \in BOOLEAN
    PROVE  /\ HonoursAmong(SJF(ps, runnable, mu), ps, runnable)
           /\ Honours(GSQ(ps), ps)
           /\ Honours(Cmu(ps, mu), ps)
           /\ Honours(MaxWeight(ps, debt, mu), ps)
           /\ Honours(EMBI(ps, mu, lambda), ps)
           /\ Honours(EMBIAblated(ps, debt, mu, lambda, no_pred, no_pen), ps)
           /\ Honours(HybridEMBI(ps, debt, mu, lambda), ps)
<1> DEFINE S == [DOMAIN ps -> Int]
<1>1. \A i \in DOMAIN ps : ps[i].queue_length \in Int
  BY RecordsTyped
<1>2. Fluid(ps, debt) \in S
  BY <1>1 DEF Fluid
<1>3. \A s \in S : Clipped(s) \in S
  BY DEF Clipped
<1>4. ASSUME NEW q \in S, NEW prediction \in S, NEW penalty \in Int
      PROVE  RawScores(q, mu, prediction, penalty) \in S
  <2>1. \A a, b, c \in Int, m \in Nat : m * (2 * a + 2 * b - c) \in Int
    OBVIOUS
  <2>2. \A i \in DOMAIN ps : /\ mu[i] \in Nat /\ q[i] \in Int /\ prediction[i] \in Int
    OBVIOUS
  <2>3. \A i \in DOMAIN ps : mu[i] * (2 * q[i] + 2 * prediction[i] - penalty) \in Int
    BY <2>1, <2>2
  <2>4. DOMAIN q = DOMAIN ps
    OBVIOUS
  <2> QED BY <2>3, <2>4, Zenon DEF RawScores
<1>5. lambda \in S /\ mu \in S /\ Penalty \in Int
  BY SchedulersAssumption
<1> HIDE DEF S
<1>6. \A s \in S : Honours(ArgmaxWithQueues(s, ps), ps)
  BY ArgmaxHonours DEF S
<1>7. HonoursAmong(SJF(ps, runnable, mu), ps, runnable)
  <2> DEFINE active == NonEmpty(ps) \cap runnable
             s == [i \in DOMAIN ps |-> IF i \in active THEN mu[i] ELSE 0]
  <2>2. CASE active = {}
    BY <2>2 DEF SJF, HonoursAmong
  <2>3. CASE active # {}
    <3>1. SJF(ps, runnable, mu) = ArgmaxWithQueues(s, ps)
      BY <2>3 DEF SJF
    <3>2. s \in S
      <4> HIDE DEF active
      <4> QED BY DEF S
    <3>3. Honours(SJF(ps, runnable, mu), ps)
      <4> HIDE DEF s
      <4> QED BY <1>6, <3>1, <3>2
    <3> QED BY <3>3, HonoursAmongAny
  <2> QED BY <2>2, <2>3
<1>8. Honours(GSQ(ps), ps)
  <2>1. [i \in DOMAIN ps |-> -ps[i].queue_length] \in S
    BY <1>1 DEF S
  <2> QED BY <1>6, <2>1 DEF GSQ
<1>9. Honours(Cmu(ps, mu), ps)
  BY <1>5, <1>6 DEF Cmu
<1>10. Honours(MaxWeight(ps, debt, mu), ps)
  <2>1. \A i \in DOMAIN ps : mu[i] \in Int /\ Fluid(ps, debt)[i] \in Int
    BY <1>2, <1>5 DEF S
  <2>2. \A a, b \in Int : a * b \in Int
    OBVIOUS
  <2>3. [i \in DOMAIN ps |-> mu[i] * Fluid(ps, debt)[i]] \in S
    BY <2>1, <2>2, Zenon DEF S
  <2> QED BY <1>6, <2>3 DEF MaxWeight
<1>11. Honours(EMBI(ps, mu, lambda), ps)
  <2>1. [i \in DOMAIN ps |-> ps[i].queue_length] \in S
    BY <1>1 DEF S
  <2> QED BY <1>3, <1>4, <1>5, <1>6, <2>1 DEF EMBI
<1>12. Honours(EMBIAblated(ps, debt, mu, lambda, no_pred, no_pen), ps)
  <2> DEFINE prediction == [i \in DOMAIN ps |-> IF no_pred THEN 0 ELSE lambda[i]]
             penalty    == IF no_pen THEN 0 ELSE Penalty
  <2>1. prediction \in S /\ penalty \in Int
    BY <1>5 DEF S
  <2>2. EMBIAblated(ps, debt, mu, lambda, no_pred, no_pen)
          = ArgmaxWithQueues(Clipped(RawScores(Fluid(ps, debt), mu, prediction, penalty)), ps)
    BY DEF EMBIAblated
  <2> HIDE DEF prediction, penalty
  <2> QED BY <1>2, <1>3, <1>4, <1>6, <2>1, <2>2
<1>13. Honours(HybridEMBI(ps, debt, mu, lambda), ps)
  <2> DEFINE raw == RawScores(Fluid(ps, debt), mu, lambda, Penalty)
             top == ArgmaxWithQueues(raw, ps)
             choice == HybridEMBI(ps, debt, mu, lambda)
  <2>1. raw \in S
    BY <1>2, <1>4, <1>5
  <2>2. \/ choice = Idle /\ top = Idle
        \/ choice = ArgmaxWithQueues(Clipped(raw), ps)
        \/ choice = ArgmaxWithQueues(Fluid(ps, debt), ps)
    BY DEF HybridEMBI
  <2>3. top = Idle => NonEmpty(ps) = {}
    <3>1. Idle \notin NonEmpty(ps)
      BY DEF NonEmpty, Idle
    <3> HIDE DEF raw
    <3> QED BY <1>6, <2>1, <3>1 DEF Honours
  <2> HIDE DEF raw, top, choice
  <2>4. choice = Idle /\ NonEmpty(ps) = {} => Honours(choice, ps)
    BY DEF Honours
  <2>5. Honours(choice, ps)
    BY <1>2, <1>3, <1>6, <2>1, <2>2, <2>3, <2>4
  <2> QED BY <2>5 DEF choice
<1> QED BY <1>7, <1>8, <1>9, <1>10, <1>11, <1>12, <1>13

-----------------------------------------------------------------------------
(* The loop with a policy.                                                 *)

(***************************************************************************)
(* What a policy needs to honour the contract: the invariants of the loop, *)
(* and a state of the policy that fits the processes, whose number never   *)
(* changes because every service is known from the start.                  *)
(***************************************************************************)
PolicyInv ==
    /\ LockInv
    /\ RegistryInv
    /\ AllSound
    /\ \A s \in Services : Known(s)
    /\ Len(processes) = NumProcs
    /\ policy \in Policies
    /\ index \in 1 .. Len(processes)
    /\ vruntimes \in [DOMAIN processes -> Int]

LEMMA InitPolicy == PolicyInit => PolicyInv
<1> SUFFICES ASSUME PolicyInit PROVE PolicyInv
  OBVIOUS
<1>1. Init
  BY DEF PolicyInit
<1>2. LockInv /\ RegistryInv /\ AllSound
  <2>1. 0 < Ticks
    BY EventLoopAssumption
  <2> QED BY <1>1, <2>1, InitLocks, InitTypes, InitRegistry, InitSound DEF RegistryInv, Init
<1>3. NumProcs \in Nat \ {0}
  BY OnlineMetricsAssumption
<1>4. Len(processes) = NumProcs /\ DOMAIN processes = 1 .. NumProcs
  BY <1>1, <1>3 DEF Init
<1>5. \A s \in Services : Known(s)
  BY <1>1, <1>3, PolicyLoopAssumption DEF Init, Known, NoPid, InitialServices
<1>6. /\ policy \in Policies /\ index \in 1 .. Len(processes)
      /\ vruntimes \in [DOMAIN processes -> Int]
  BY <1>3, <1>4 DEF PolicyInit
<1> QED BY <1>2, <1>4, <1>5, <1>6 DEF PolicyInv

\* An honourable choice is one the contract allows.
LEMMA HonourableStep ==
    ASSUME NEW i, HonoursAmong(i, processes, Runnable), Schedule(ScheduleEvent, i)
    PROVE  Next
<1>1. i \in Decisions
  BY DEF HonoursAmong, Decisions, Candidates, NonEmpty, NoPid, Idle, Runnable
<1>2. ScheduleEvent \in Event
  BY EventTyped
<1>3. HandleSchedule(ScheduleEvent)
  BY <1>1 DEF HandleSchedule
<1> QED BY <1>2, <1>3 DEF Next

LEMMA ScoreStep ==
    ASSUME PolicyInv, ScheduleByScore PROVE Next
<1>1. PICK mu \in [DOMAIN processes -> MuHats], lambda \in [DOMAIN processes -> LambdaHats] :
             Decide(ScoreChoice(mu, lambda))
  BY DEF ScheduleByScore
<1>2. /\ processes \in Seq(ProcessRecord)
      /\ mu \in [DOMAIN processes -> Nat] /\ lambda \in [DOMAIN processes -> Nat]
      /\ syncDebt \in [DOMAIN processes -> Nat]
  <2>1. /\ processes \in Seq(ProcessRecord)
        /\ syncDebt \in Seq(Nat) /\ Len(syncDebt) = Len(processes)
    BY DEF PolicyInv, RegistryInv, TypeOK
  <2>2. DOMAIN processes = DOMAIN syncDebt
    BY <2>1
  <2>3. syncDebt \in [DOMAIN syncDebt -> Nat]
    BY <2>1
  <2>4. MuHats \subseteq Nat /\ LambdaHats \subseteq Nat
    BY PolicyLoopAssumption
  <2> QED BY <2>1, <2>2, <2>3, <2>4
<1>4. ASSUME NEW no_pred \in BOOLEAN, NEW no_pen \in BOOLEAN
      PROVE  /\ HonoursAmong(SJF(processes, Runnable, mu), processes, Runnable)
             /\ Honours(GSQ(processes), processes)
             /\ Honours(Cmu(processes, mu), processes)
             /\ Honours(MaxWeight(processes, syncDebt, mu), processes)
             /\ Honours(EMBI(processes, mu, lambda), processes)
             /\ Honours(EMBIAblated(processes, syncDebt, mu, lambda, no_pred, no_pen),
                        processes)
             /\ Honours(HybridEMBI(processes, syncDebt, mu, lambda), processes)
  BY <1>2, ScoresHonour
<1>5. policy \in PolicyNames \ {"rr", "fcfs", "cfs"}
  BY PolicyLoopAssumption DEF PolicyInv, ScheduleByScore
<1>6. HonoursAmong(ScoreChoice(mu, lambda), processes, Runnable)
  <2>1. policy \in {"sjf", "gsq", "maxweight", "cmu", "embi", "embi_ablated",
                   "embi_no_prediction", "embi_no_penalty", "hybrid_embi"}
    BY <1>5 DEF PolicyNames
  <2>2. CASE policy = "sjf"
    BY <1>4, <2>2 DEF ScoreChoice
  <2>3. CASE policy # "sjf"
    <3>1. Honours(ScoreChoice(mu, lambda), processes)
      BY <1>4, <2>1, <2>3 DEF ScoreChoice
    <3> QED BY <3>1, HonoursAmongAny
  <2> QED BY <2>2, <2>3
<1> QED BY <1>1, <1>6, HonourableStep DEF Decide

\* Every step of the loop with a policy is a step of the loop.
LEMMA PolicyStep ==
    ASSUME PolicyInv, [PolicyNext]_policyLoopVars PROVE [Next]_vars
<1>1. processes \in Seq(ProcessRecord) /\ Len(processes) # 0
  BY OnlineMetricsAssumption DEF PolicyInv, RegistryInv, TypeOK
<1>3. CASE ScheduleRoundRobin
  <2>1. HonoursAmong(RoundRobin(processes, index), processes, Runnable)
    BY <1>1, RoundRobinHonours, HonoursAmongAny DEF PolicyInv
  <2> QED BY <1>3, <2>1, HonourableStep DEF ScheduleRoundRobin, Decide
<1>4. CASE ScheduleFCFS
  <2>1. \A i \in DOMAIN processes : processes[i].queue_length = Len(processes[i].jobs)
    BY DEF PolicyInv, AllSound, Sound, JobsConsistent
  <2>2. HonoursAmong(FCFS(processes, Runnable), processes, Runnable)
    BY <1>1, <2>1, FCFSHonours
  <2> QED BY <1>4, <2>2, HonourableStep DEF ScheduleFCFS, Decide
<1>5. CASE ScheduleCFS
  <2>1. HonoursAmong(CFS(processes, Runnable, vruntimes, prev), processes, Runnable)
    BY <1>1, CFSHonours DEF PolicyInv
  <2> QED BY <1>5, <2>1, HonourableStep DEF ScheduleCFS, Decide
<1>6. CASE ScheduleByScore
  BY <1>6, ScoreStep
<1>7. CASE OtherStep
  BY <1>7 DEF OtherStep, Next
<1>8. CASE UNCHANGED policyLoopVars
  BY <1>8 DEF policyLoopVars
<1> QED BY <1>3, <1>4, <1>5, <1>6, <1>7, <1>8 DEF PolicyNext

\* Nobody registers when everybody is known.
LEMMA NobodyRegisters ==
    ASSUME TypeOK, \A s \in Services : Known(s), [Next]_vars
    PROVE  Len(processes') = Len(processes) /\ indexOf' = indexOf
<1>1. processes \in Seq(ProcessRecord)
  BY DEF TypeOK
<1>2. CASE BeginTick
  BY <1>1, <1>2 DEF BeginTick
<1>3. CASE \E e \in Event : HandleArrival(e)
  <2> PICK e \in Event : HandleArrival(e)
    BY <1>3
  <2>1. e.pid \in Services
    BY EventTyped DEF HandleArrival, Pop
  <2>2. /\ indexOf' = indexOf
        /\ processes' = [processes EXCEPT ![indexOf[e.pid]] = Arrival(@, tick)]
    BY <2>1 DEF HandleArrival, Register, Extended
  <2>3. Len([processes EXCEPT ![indexOf[e.pid]] = Arrival(@, tick)]) = Len(processes)
    BY <1>1
  <2> QED BY <2>2, <2>3
<1>4. CASE \E e \in Event : HandleSchedule(e)
  <2> PICK e \in Event : \E i : Schedule(e, i)
    BY <1>4 DEF HandleSchedule
  <2> PICK i : Schedule(e, i)
    OBVIOUS
  <2>1. CASE RunCriticalSection(i)
    <3> PICK p : processes' = [processes EXCEPT ![i] = p]
      BY <2>1 DEF RunCriticalSection
    <3>1. Len([processes EXCEPT ![i] = p]) = Len(processes)
      BY <1>1
    <3> QED BY <3>1 DEF Schedule
  <2>2. CASE UNCHANGED processes
    BY <2>2 DEF Schedule
  <2> QED BY <2>1, <2>2 DEF Schedule
<1>5. CASE \E e \in Event : HandleService(e)
  <2> PICK e \in Event : HandleService(e)
    BY <1>5
  <2> DEFINE i == indexOf[e.pid]
  <2> PICK at : processes' = [processes EXCEPT ![i] = Service(processes[i], at)]
    BY DEF HandleService
  <2> HIDE DEF i
  <2>1. Len([processes EXCEPT ![i] = Service(processes[i], at)]) = Len(processes)
    BY <1>1
  <2> QED BY <2>1 DEF HandleService
<1>6. CASE \E e \in Event : HandleMetrics(e)
  BY <1>1, <1>6 DEF HandleMetrics
<1>7. CASE \E e \in Event : HandleLockAcquire(e)
  <2> PICK e \in Event : HandleLockAcquire(e)
    BY <1>7
  <2>1. e.pid \in Services
    BY EventTyped DEF HandleLockAcquire, Pop
  <2> QED BY <2>1 DEF HandleLockAcquire, Register, Extended
<1>8. CASE \/ \E e \in Event : IgnoreLockEvent(e) \/ IgnoreService(e)
           \/ EndTick \/ Terminated \/ UNCHANGED vars
  BY <1>8 DEF IgnoreLockEvent, IgnoreService, EndTick, Terminated, vars, loopVars
<1> QED BY <1>2, <1>3, <1>4, <1>5, <1>6, <1>7, <1>8 DEF Next

LEMMA PolicyInvStep ==
    ASSUME PolicyInv, [PolicyNext]_policyLoopVars PROVE PolicyInv'
<1>1. [Next]_vars
  BY PolicyStep
<1>2. LockInv' /\ RegistryInv' /\ AllSound'
  <2>1. LockInv'
    BY <1>1, LockInvStep DEF PolicyInv
  <2>2. RegistryInv'
    BY <1>1, <2>1, RegistryStep DEF PolicyInv
  <2> QED BY <1>1, <2>1, <2>2, AllSoundStep DEF PolicyInv
<1>3. Len(processes') = Len(processes) /\ indexOf' = indexOf
  BY <1>1, NobodyRegisters DEF PolicyInv, RegistryInv
<1>4. /\ processes \in Seq(ProcessRecord) /\ Len(processes) # 0
      /\ DOMAIN processes' = DOMAIN processes
  BY <1>2, <1>3, OnlineMetricsAssumption DEF PolicyInv, RegistryInv, TypeOK
<1>5. policy' = policy
  BY DEF PolicyNext, ScheduleRoundRobin, ScheduleFCFS, ScheduleCFS, ScheduleByScore,
         policyVars, policyLoopVars
<1>6. index' \in 1 .. Len(processes)
  <2>1. CASE ScheduleRoundRobin
    BY <1>4, <2>1, RoundRobinHonours DEF PolicyInv, ScheduleRoundRobin
  <2>2. CASE ~ScheduleRoundRobin
    BY <2>2 DEF PolicyInv, PolicyNext, ScheduleFCFS, ScheduleCFS, ScheduleByScore,
                policyVars, policyLoopVars
  <2> QED BY <2>1, <2>2
<1>7. vruntimes' \in [DOMAIN processes -> Int]
  <2>1. CASE ScheduleCFS
    BY <1>4, <2>1, VruntimesTyped DEF PolicyInv, ScheduleCFS
  <2>2. CASE ~ScheduleCFS
    BY <2>2 DEF PolicyInv, PolicyNext, ScheduleRoundRobin, ScheduleFCFS, ScheduleByScore,
                policyVars, policyLoopVars
  <2> QED BY <2>1, <2>2
<1> QED BY <1>2, <1>3, <1>4, <1>5, <1>6, <1>7 DEF PolicyInv, Known

(***************************************************************************)
(* Every policy honours the contract, with locks and without: the loop     *)
(* with a policy of the program implements the loop with any scheduler.    *)
(***************************************************************************)
THEOREM PoliciesHonourContract == PolicySpec => HonoursContract
<1>1. PolicyInv /\ [PolicyNext]_policyLoopVars => PolicyInv'
  BY PolicyInvStep
<1>2. PolicyInv /\ [PolicyNext]_policyLoopVars => [Next]_vars
  BY PolicyStep
<1>3. PolicyInit => Init
  BY DEF PolicyInit
<1> QED BY <1>1, <1>2, <1>3, InitPolicy, PTL DEF PolicySpec, Spec, HonoursContract

(***************************************************************************)
(* So no policy loses a job, however it chooses.                           *)
(***************************************************************************)
THEOREM PoliciesLoseNoJob == PolicySpec => []Accounting
BY PoliciesHonourContract, JobsAccountedFor, PTL DEF HonoursContract

-----------------------------------------------------------------------------
(* Round robin passes over a process at most once by each of the others.   *)

\* How many attempts round robin makes from "start" before it reaches i.
Distance(start, i, n) == IF start <= i THEN i - start ELSE i - start + n

LEMMA DistanceReaches ==
    ASSUME NEW ps \in Seq(ProcessRecord), Len(ps) # 0,
           NEW start \in 1 .. Len(ps), NEW i \in 1 .. Len(ps)
    PROVE  /\ Distance(start, i, Len(ps)) \in 0 .. Len(ps) - 1
           /\ Attempt(ps, start, Distance(start, i, Len(ps))) = i
<1> DEFINE N == Len(ps)
           k == Distance(start, i, N)
<1>1. N \in Nat \ {0}
  OBVIOUS
<1>2. /\ k \in 0 .. N - 1
      /\ start - 1 + k = i - 1 \/ start - 1 + k = i - 1 + N
  BY <1>1 DEF Distance
<1>3. (i - 1) % N = i - 1 /\ (i - 1 + N) % N = i - 1
  <2>1. i - 1 \in 0 .. N - 1
    BY <1>1
  <2> HIDE DEF N
  <2> QED BY <1>1, <2>1, Modulo
<1>4. (start - 1 + k) % N = i - 1
  <2> HIDE DEF N, k
  <2> QED BY <1>2, <1>3
<1>5. Attempt(ps, start, k) = i
  <2>1. Attempt(ps, start, k) = ((start - 1 + k) % N) + 1
    BY DEF Attempt
  <2>2. i - 1 + 1 = i
    OBVIOUS
  <2> HIDE DEF N, k
  <2> QED BY <1>4, <2>1, <2>2
<1> QED BY <1>2, <1>5

LEMMA AttemptDistance ==
    ASSUME NEW ps \in Seq(ProcessRecord), Len(ps) # 0,
           NEW start \in 1 .. Len(ps), NEW k \in 0 .. Len(ps) - 1
    PROVE  Distance(start, Attempt(ps, start, k), Len(ps)) = k
<1> DEFINE N == Len(ps)
<1>1. N \in Nat \ {0}
  OBVIOUS
<1>2. Attempt(ps, start, k) = IF start + k <= N THEN start + k ELSE start + k - N
  <2>1. CASE start + k <= N
    <3>1. start - 1 + k \in 0 .. N - 1
      BY <1>1, <2>1
    <3>2. (start - 1 + k) % N = start - 1 + k
      <4> HIDE DEF N
      <4> QED BY <1>1, <3>1, Modulo
    <3> QED BY <1>1, <2>1, <3>2 DEF Attempt
  <2>2. CASE start + k > N
    <3> DEFINE a == start - 1 + k - N
    <3>1. a \in 0 .. N - 1 /\ a + N = start - 1 + k /\ a + 1 = start + k - N
      BY <1>1, <2>2
    <3>2. (a + N) % N = a
      <4> HIDE DEF N, a
      <4> QED BY <1>1, <3>1, Modulo
    <3>3. Attempt(ps, start, k) = ((a + N) % N) + 1
      <4>1. Attempt(ps, start, k) = ((start - 1 + k) % N) + 1
        BY DEF Attempt
      <4> HIDE DEF N, a
      <4> QED BY <3>1, <4>1
    <3>4. ~(start + k <= N)
      BY <1>1, <2>2
    <3> HIDE DEF a
    <3> QED BY <3>1, <3>2, <3>3, <3>4
  <2> QED BY <1>1, <2>1, <2>2
<1> QED BY <1>1, <1>2 DEF Distance

\* The process chosen is the nearest one with a job, and the next search
\* starts behind it.
LEMMA RoundRobinNearest ==
    ASSUME NEW ps \in Seq(ProcessRecord), Len(ps) # 0,
           NEW start \in 1 .. Len(ps), NonEmpty(ps) # {}
    PROVE  LET j == RoundRobin(ps, start)
           IN  /\ j \in NonEmpty(ps)
               /\ NextIndex(ps, start) = IF j = Len(ps) THEN 1 ELSE j + 1
               /\ \A i \in NonEmpty(ps) :
                      Distance(start, j, Len(ps)) <= Distance(start, i, Len(ps))
<1> DEFINE N    == Len(ps)
           j    == RoundRobin(ps, start)
           hits == {k \in Attempts(ps) : ps[Attempt(ps, start, k)].queue_length > 0}
<1>1. N \in Nat \ {0} /\ DOMAIN ps = 1 .. N
  OBVIOUS
<1>2. j \in NonEmpty(ps) /\ j \in 1 .. N /\ j # Idle
  <2>1. Honours(j, ps)
    BY RoundRobinHonours
  <2> QED BY <1>1, <2>1 DEF Honours, NonEmpty, Idle
<1>3. NextIndex(ps, start) = IF j = N THEN 1 ELSE j + 1
  <2>1. NextIndex(ps, start) = (j % N) + 1
    BY <1>2 DEF NextIndex
  <2>2. N % N = 0
    <3>1. 0 \in 0 .. N - 1 /\ 0 + N = N
      BY <1>1
    <3> HIDE DEF N
    <3> QED BY <1>1, <3>1, Modulo
  <2>3. j # N => j % N = j
    <3>1. j # N => j \in 0 .. N - 1
      BY <1>1, <1>2
    <3> HIDE DEF N, j
    <3> QED BY <1>1, <3>1, Modulo
  <2> HIDE DEF N, j
  <2> QED BY <1>1, <2>1, <2>2, <2>3
<1>4. \A i \in NonEmpty(ps) : Distance(start, i, N) \in hits
  <2> SUFFICES ASSUME NEW i \in NonEmpty(ps) PROVE Distance(start, i, N) \in hits
    OBVIOUS
  <2>1. i \in 1 .. N /\ ps[i].queue_length > 0
    BY <1>1 DEF NonEmpty
  <2>2. Distance(start, i, N) \in 0 .. N - 1 /\ Attempt(ps, start, Distance(start, i, N)) = i
    BY <2>1, DistanceReaches
  <2> QED BY <2>1, <2>2 DEF Attempts
<1>5. hits \in SUBSET (0 .. N - 1) /\ hits # {}
  BY <1>4 DEF Attempts
<1>6. Min(hits) \in hits /\ \A k \in hits : Min(hits) <= k
  <2>1. IsFiniteSet(0 .. N - 1) /\ 0 .. N - 1 \in SUBSET Int
    BY <1>1, FS_Interval
  <2> HIDE DEF hits
  <2>2. IsFiniteSet(hits) /\ hits \in SUBSET Int
    BY <1>5, <2>1, FS_Subset
  <2> QED BY <1>5, <2>2, MinimumIn
<1>7. Distance(start, j, N) = Min(hits)
  <2>1. j = Attempt(ps, start, Min(hits))
    BY <1>5 DEF RoundRobin
  <2>2. Min(hits) \in 0 .. N - 1
    BY <1>5, <1>6
  <2> QED BY <2>1, <2>2, AttemptDistance
<1> QED BY <1>2, <1>3, <1>4, <1>6, <1>7

LEMMA DistanceShrinks ==
    ASSUME NEW n \in Nat \ {0}, NEW start \in 1 .. n, NEW i \in 1 .. n, NEW j \in 1 .. n,
           i # j, Distance(start, j, n) <= Distance(start, i, n)
    PROVE  Distance(IF j = n THEN 1 ELSE j + 1, i, n) < Distance(start, i, n)
  BY DEF Distance

\* What is left of the way to a process bounds how often it was passed over.
Approaching ==
    policy = "rr" =>
        /\ passed \in [1 .. NumProcs -> Nat]
        /\ \A i \in 1 .. NumProcs : passed[i] + Distance(index, i, NumProcs) < NumProcs

LEMMA InitApproaching == PolicyInit => Approaching
<1>1. NumProcs \in Nat \ {0}
  BY OnlineMetricsAssumption
<1> QED BY <1>1 DEF PolicyInit, Approaching, Distance

LEMMA RoundRobinApproaching ==
    ASSUME PolicyInv, Approaching, ScheduleRoundRobin PROVE Approaching'
<1> DEFINE n == NumProcs
           j == RoundRobin(processes, index)
<1>1. n \in Nat \ {0}
  BY OnlineMetricsAssumption
<1>2. /\ processes \in Seq(ProcessRecord) /\ Len(processes) = n
      /\ DOMAIN processes = 1 .. n /\ index \in 1 .. n
  BY DEF PolicyInv, RegistryInv, TypeOK
<1>3. /\ passed \in [1 .. n -> Nat]
      /\ \A i \in 1 .. n : passed[i] + Distance(index, i, n) < n
  BY DEF Approaching, ScheduleRoundRobin
<1>4. index' = NextIndex(processes, index) /\ index' \in 1 .. n
  BY <1>1, <1>2, RoundRobinHonours DEF ScheduleRoundRobin
<1>5. passed' = [i \in 1 .. n |-> IF j = i \/ ~Waiting(i) THEN 0
                                 ELSE IF j = Idle THEN passed[i] ELSE passed[i] + 1]
  BY <1>3 DEF ScheduleRoundRobin, Decide
<1>6. passed' \in [1 .. n -> Nat]
  <2> HIDE DEF n, j
  <2> QED BY <1>3, <1>5
<1>7. ASSUME NEW i \in 1 .. n PROVE passed'[i] + Distance(index', i, n) < n
  <2>1. Distance(index, i, n) \in Int /\ Distance(index', i, n) \in 0 .. n - 1
    <3> HIDE DEF n
    <3> QED BY <1>1, <1>2, <1>4 DEF Distance
  <2>2. CASE j = i \/ ~Waiting(i)
    <3>1. passed'[i] = 0
      BY <1>5, <2>2
    <3> HIDE DEF n
    <3> QED BY <1>1, <2>1, <3>1
  <2>3. CASE j # i /\ Waiting(i)
    <3>1. i \in NonEmpty(processes)
      BY <1>2, <2>3 DEF NonEmpty, Waiting
    <3>2. /\ j \in NonEmpty(processes)
          /\ index' = IF j = n THEN 1 ELSE j + 1
          /\ Distance(index, j, n) <= Distance(index, i, n)
      BY <1>1, <1>2, <1>4, <3>1, RoundRobinNearest
    <3>3. j \in 1 .. n /\ j # Idle
      BY <1>1, <1>2, <3>2 DEF NonEmpty, Idle
    <3>4. Distance(index', i, n) < Distance(index, i, n)
      <4> HIDE DEF n, j
      <4> QED BY <1>1, <1>2, <2>3, <3>2, <3>3, DistanceShrinks
    <3>5. passed'[i] = passed[i] + 1
      BY <1>5, <2>3, <3>3
    <3>6. passed[i] \in Nat /\ passed[i] + Distance(index, i, n) < n
      BY <1>3
    <3> HIDE DEF n, j
    <3> QED BY <1>1, <2>1, <3>4, <3>5, <3>6
  <2> QED BY <2>2, <2>3
<1> QED BY <1>6, <1>7 DEF Approaching

LEMMA ApproachingStep ==
    ASSUME PolicyInv, Approaching, [PolicyNext]_policyLoopVars PROVE Approaching'
<1>1. CASE ScheduleRoundRobin
  BY <1>1, RoundRobinApproaching
<1>2. CASE ScheduleFCFS \/ ScheduleCFS \/ ScheduleByScore
  BY <1>2 DEF ScheduleFCFS, ScheduleCFS, ScheduleByScore, Approaching
<1>3. CASE UNCHANGED policyVars
  BY <1>3 DEF policyVars, Approaching
<1> QED BY <1>1, <1>2, <1>3 DEF PolicyNext, policyLoopVars

(***************************************************************************)
(* Under round robin a process with a job is passed over fewer than        *)
(* NumProcs times before it is chosen, however jobs arrive meanwhile.      *)
(***************************************************************************)
THEOREM RoundRobinBypassBounded == PolicySpec => []BoundedBypass
<1>1. PolicyInv /\ [PolicyNext]_policyLoopVars => PolicyInv'
  BY PolicyInvStep
<1>2. PolicyInv /\ Approaching /\ [PolicyNext]_policyLoopVars => Approaching'
  BY ApproachingStep
<1>3. PolicyInv /\ Approaching => BoundedBypass
  <2> SUFFICES ASSUME PolicyInv, Approaching, policy = "rr", NEW i \in DOMAIN passed
               PROVE  passed[i] < NumProcs
    BY DEF BoundedBypass
  <2>1. NumProcs \in Nat \ {0} /\ index \in 1 .. NumProcs
    BY OnlineMetricsAssumption DEF PolicyInv
  <2>2. /\ i \in 1 .. NumProcs /\ passed[i] \in Nat
        /\ passed[i] + Distance(index, i, NumProcs) < NumProcs
    BY DEF Approaching
  <2> QED BY <2>1, <2>2 DEF Distance
<1> QED BY <1>1, <1>2, <1>3, InitPolicy, InitApproaching, PTL DEF PolicySpec

-----------------------------------------------------------------------------
(* First come first served, over all queues.                               *)

\* The jobs of q are jobs of p, or arrived at t.
OnlyAdds(q, p, t) ==
    \A k \in DOMAIN q.jobs :
        q.jobs[k] = t \/ \E m \in DOMAIN p.jobs : q.jobs[k] = p.jobs[m]

LEMMA MethodsOnlyAdd ==
    ASSUME NEW p \in ProcessRecord, NEW t \in Nat
    PROVE  /\ OnlyAdds(p, p, t)
           /\ OnlyAdds(Arrival(p, t), p, t)
           /\ \A at : OnlyAdds(Service(p, at), p, t)
           /\ OnlyAdds(TickIdle(p), p, t)
           /\ OnlyAdds(WarmupReset(p), p, t)
<1>1. p.jobs \in Seq(Nat)
  BY DEF ProcessRecord
<1>2. OnlyAdds(p, p, t)
  BY DEF OnlyAdds
<1>3. TickIdle(p).jobs = p.jobs /\ WarmupReset(p).jobs = p.jobs
  BY DEF TickIdle, WarmupReset, ProcessRecord
<1>4. OnlyAdds(Arrival(p, t), p, t)
  <2>1. Arrival(p, t).jobs = Append(p.jobs, t)
    BY DEF Arrival, ProcessRecord
  <2> QED BY <1>1, <2>1 DEF OnlyAdds
<1>5. ASSUME NEW at PROVE OnlyAdds(Service(p, at), p, t)
  <2>1. CASE HasJob(p)
    <3>1. Service(p, at).jobs = Tail(p.jobs) /\ p.jobs # <<>>
      BY <2>1 DEF Service, HasJob, ProcessRecord
    <3>2. \A k \in DOMAIN Tail(p.jobs) : k + 1 \in DOMAIN p.jobs
                                         /\ Tail(p.jobs)[k] = p.jobs[k + 1]
      BY <1>1, <3>1
    <3> QED BY <3>1, <3>2 DEF OnlyAdds
  <2>2. CASE ~HasJob(p)
    BY <1>2, <2>2 DEF Service
  <2> QED BY <2>1, <2>2
<1> QED BY <1>2, <1>3, <1>4, <1>5 DEF OnlyAdds

\* Without locks and registration a job enters a queue by arriving.
LEMMA JobsOnlyArrive ==
    ASSUME ~LockMode, TypeOK, RegistryConsistent, \A s \in Services : Known(s), [Next]_vars
    PROVE  /\ DOMAIN processes' = DOMAIN processes
           /\ \A i \in DOMAIN processes : OnlyAdds(processes'[i], processes[i], tick)
<1>1. /\ processes \in Seq(ProcessRecord) /\ tick \in Nat
      /\ \A i \in DOMAIN processes : processes[i] \in ProcessRecord
  BY EventLoopAssumption DEF TypeOK
<1> DEFINE Goal == /\ DOMAIN processes' = DOMAIN processes
                   /\ \A i \in DOMAIN processes : OnlyAdds(processes'[i], processes[i], tick)
<1>2. UNCHANGED processes => Goal
  BY <1>1, MethodsOnlyAdd
<1>3. CASE BeginTick
  BY <1>1, <1>2, <1>3, MethodsOnlyAdd DEF BeginTick
<1>4. ASSUME NEW e \in Event, HandleArrival(e) PROVE Goal
  <2>1. e.pid \in Services
    BY <1>4, EventTyped DEF HandleArrival, Pop
  <2>2. processes' = [processes EXCEPT ![indexOf[e.pid]] = Arrival(@, tick)]
    BY <1>4, <2>1 DEF HandleArrival, Register, Extended
  <2> QED BY <1>1, <2>2, MethodsOnlyAdd
<1>5. ASSUME NEW e \in Event, HandleSchedule(e) PROVE Goal
  BY <1>2, <1>5 DEF HandleSchedule, Schedule
<1>6. ASSUME NEW e \in Event, HandleService(e) PROVE Goal
  <2>1. PICK at : processes' = [processes EXCEPT ![indexOf[e.pid]] = Service(@, at)]
    BY <1>6 DEF HandleService
  <2> QED BY <1>1, <2>1, MethodsOnlyAdd
<1>7. ASSUME NEW e \in Event, HandleMetrics(e) PROVE Goal
  <2>1. processes' = [i \in DOMAIN processes |->
                        IF i = last THEN processes[i] ELSE TickIdle(processes[i])]
    BY <1>7 DEF HandleMetrics
  <2> QED BY <1>1, <2>1, MethodsOnlyAdd
<1>8. ASSUME NEW e \in Event, HandleLockAcquire(e) \/ IgnoreLockEvent(e) \/ IgnoreService(e)
      PROVE  Goal
  BY <1>2, <1>8 DEF HandleLockAcquire, IgnoreLockEvent, IgnoreService
<1>9. CASE EndTick \/ Terminated \/ UNCHANGED vars
  BY <1>2, <1>9 DEF EndTick, Terminated, vars, loopVars
<1> QED BY <1>3, <1>4, <1>5, <1>6, <1>7, <1>8, <1>9 DEF Next

LEMMA TickAdvances ==
    ASSUME TypeOK, [Next]_vars PROVE tick \in Nat /\ tick' \in Nat /\ tick <= tick'
<1>1. tick \in Nat
  BY EventLoopAssumption DEF TypeOK
<1>2. tick' = tick \/ tick' = tick + 1
  BY DEF Next, BeginTick, HandleArrival, HandleLockAcquire, IgnoreLockEvent, HandleSchedule,
         Schedule, HandleService, IgnoreService, HandleMetrics, EndTick, Terminated, vars,
         loopVars
<1> QED BY <1>1, <1>2

\* The turn of the last choice is no later than now, and no queued job is older.
FIFOInv ==
    policy = "fcfs" /\ ~LockMode =>
        /\ turn \in Nat /\ turn <= tick
        /\ \A i \in DOMAIN processes :
              \A k \in DOMAIN processes[i].jobs : turn <= processes[i].jobs[k]

LEMMA InitFIFO == PolicyInit => FIFOInv
<1> SUFFICES ASSUME PolicyInit PROVE FIFOInv
  OBVIOUS
<1>1. turn = 0 /\ tick = 0
  BY DEF PolicyInit, Init
<1>2. \A i \in DOMAIN processes : processes[i].jobs = <<>>
  BY DEF PolicyInit, Init, NewProcess
<1> QED BY <1>1, <1>2 DEF FIFOInv

LEMMA FCFSTurn ==
    ASSUME ~LockMode, PolicyInv, FIFOInv, ScheduleFCFS PROVE FIFOInv'
<1> DEFINE i == FCFS(processes, Runnable)
<1>1. /\ processes' = processes /\ tick' = tick /\ policy = "fcfs" /\ policy' = policy
      /\ turn' = IF i = Idle THEN turn ELSE Head(processes[i].jobs)
  BY DEF ScheduleFCFS, Decide, Schedule
<1>2. /\ processes \in Seq(ProcessRecord) /\ tick \in Nat
  BY EventLoopAssumption DEF PolicyInv, RegistryInv, TypeOK
<1>3. ASSUME NEW j \in DOMAIN processes
      PROVE  /\ processes[j].jobs \in Seq(Nat)
             /\ processes[j].queue_length = Len(processes[j].jobs)
             /\ \A k \in DOMAIN processes[j].jobs : processes[j].jobs[k] <= tick
             /\ \A k, m \in DOMAIN processes[j].jobs :
                   k <= m => processes[j].jobs[k] <= processes[j].jobs[m]
  BY <1>2, RecordsTyped DEF PolicyInv, AllSound, Sound, JobsConsistent
<1>4. CASE i = Idle
  BY <1>1, <1>4 DEF FIFOInv
<1>5. CASE i # Idle
  <2> DEFINE E == NonEmpty(processes) \cap Runnable
  <2>1. E = NonEmpty(processes)
    BY DEF NonEmpty, Runnable
  <2>2. /\ HonoursAmong(i, processes, Runnable)
        /\ E # {} => i \in E /\ \A j \in E : Head(processes[i].jobs) <= Head(processes[j].jobs)
    BY <1>2, <1>3, FCFSHonours
  <2>3. /\ i \in NonEmpty(processes)
        /\ \A j \in NonEmpty(processes) : Head(processes[i].jobs) <= Head(processes[j].jobs)
    BY <1>5, <2>1, <2>2 DEF HonoursAmong
  <2> HIDE DEF i
  <2>4. ASSUME NEW j \in NonEmpty(processes)
        PROVE  /\ j \in DOMAIN processes /\ 1 \in DOMAIN processes[j].jobs
               /\ Head(processes[j].jobs) = processes[j].jobs[1]
               /\ Head(processes[j].jobs) \in Nat
    <3>1. j \in DOMAIN processes /\ processes[j].queue_length > 0
      BY DEF NonEmpty
    <3>2. processes[j].jobs \in Seq(Nat) /\ Len(processes[j].jobs) > 0
      BY <1>3, <3>1
    <3> QED BY <3>1, <3>2
  <2>5. turn' = Head(processes[i].jobs)
    BY <1>1, <1>5
  <2>6. turn' \in Nat /\ turn' <= tick
    BY <1>3, <2>3, <2>4, <2>5
  <2>7. ASSUME NEW j \in DOMAIN processes, NEW k \in DOMAIN processes[j].jobs
        PROVE  turn' <= processes[j].jobs[k]
    <3> DEFINE js == processes[j].jobs
    <3>1. js \in Seq(Nat) /\ processes[j].queue_length = Len(js)
      BY <1>3
    <3>2. k \in Nat \ {0} /\ 1 \in DOMAIN js /\ 1 <= k /\ Len(js) > 0
      BY <3>1
    <3>3. j \in NonEmpty(processes)
      BY <3>1, <3>2 DEF NonEmpty
    <3>4. js[1] <= js[k]
      BY <1>3, <3>2
    <3>5. turn' <= js[1] /\ js[1] \in Nat /\ js[k] \in Nat
      BY <2>3, <2>4, <2>5, <3>1, <3>2, <3>3
    <3> QED BY <2>6, <3>4, <3>5
  <2> QED BY <1>1, <2>6, <2>7 DEF FIFOInv
<1> QED BY <1>4, <1>5

LEMMA FIFOStep ==
    ASSUME PolicyInv, FIFOInv, [PolicyNext]_policyLoopVars PROVE FIFOInv'
<1> SUFFICES ASSUME ~LockMode PROVE FIFOInv'
  BY DEF FIFOInv
<1>1. CASE ScheduleFCFS
  BY <1>1, FCFSTurn
<1>2. CASE ScheduleRoundRobin \/ ScheduleCFS \/ ScheduleByScore
  BY <1>2 DEF ScheduleRoundRobin, ScheduleCFS, ScheduleByScore, FIFOInv
<1>3. CASE UNCHANGED policyVars
  <2>1. policy' = policy /\ turn' = turn
    BY <1>3 DEF policyVars
  <2> SUFFICES ASSUME policy = "fcfs" PROVE FIFOInv'
    BY <2>1 DEF FIFOInv
  <2>2. [Next]_vars
    BY PolicyStep
  <2>3. tick \in Nat /\ tick' \in Nat /\ tick <= tick'
    BY <2>2, TickAdvances DEF PolicyInv, RegistryInv
  <2>4. /\ turn \in Nat /\ turn <= tick
        /\ \A i \in DOMAIN processes :
              \A k \in DOMAIN processes[i].jobs : turn <= processes[i].jobs[k]
    BY DEF FIFOInv
  <2>5. turn' \in Nat /\ turn' <= tick'
    BY <2>1, <2>3, <2>4
  <2>6. /\ DOMAIN processes' = DOMAIN processes
        /\ \A i \in DOMAIN processes : OnlyAdds(processes'[i], processes[i], tick)
    BY <2>2, JobsOnlyArrive DEF PolicyInv, RegistryInv
  <2>7. ASSUME NEW i \in DOMAIN processes', NEW k \in DOMAIN processes'[i].jobs
        PROVE  turn <= processes'[i].jobs[k]
    <3>1. \/ processes'[i].jobs[k] = tick
          \/ \E m \in DOMAIN processes[i].jobs : processes'[i].jobs[k] = processes[i].jobs[m]
      BY <2>6 DEF OnlyAdds
    <3> QED BY <2>4, <2>6, <3>1
  <2> QED BY <2>1, <2>5, <2>7 DEF FIFOInv
<1> QED BY <1>1, <1>2, <1>3 DEF PolicyNext, policyLoopVars

(***************************************************************************)
(* FCFS is first come first served over all the queues together, although  *)
(* it only ever looks at the heads: no queued job is older than the job    *)
(* last chosen.                                                            *)
(***************************************************************************)
THEOREM FCFSIsGlobal == PolicySpec => []GlobalFIFO
<1>1. PolicyInv /\ [PolicyNext]_policyLoopVars => PolicyInv'
  BY PolicyInvStep
<1>2. PolicyInv /\ FIFOInv /\ [PolicyNext]_policyLoopVars => FIFOInv'
  BY FIFOStep
<1>3. PolicyInv /\ FIFOInv => GlobalFIFO
  <2> SUFFICES ASSUME PolicyInv, FIFOInv, policy = "fcfs", ~LockMode,
                      NEW i \in DOMAIN processes, NEW k \in DOMAIN processes[i].jobs
               PROVE  processes[i].jobs[k] >= turn
    BY DEF GlobalFIFO
  <2>1. processes \in Seq(ProcessRecord)
    BY DEF PolicyInv, RegistryInv, TypeOK
  <2>2. processes[i].jobs[k] \in Nat
    BY <2>1, RecordsTyped
  <2> QED BY <2>2 DEF FIFOInv
<1> QED BY <1>1, <1>2, <1>3, InitPolicy, InitFIFO, PTL DEF PolicySpec

-----------------------------------------------------------------------------
(* CFS does not starve a process.                                          *)

\* No run time falls, and the process chosen before is charged.
LEMMA VruntimesGrow ==
    ASSUME NEW ps \in Seq(ProcessRecord), NEW runnable, NEW prior,
           NEW v \in [DOMAIN ps -> Nat]
    PROVE  LET w == NextVruntimes(ps, runnable, v, prior)
           IN  /\ w \in [DOMAIN ps -> Nat]
               /\ \A j \in DOMAIN ps : v[j] + (IF prior = j THEN 1 ELSE 0) <= w[j]
<1> DEFINE w      == NextVruntimes(ps, runnable, v, prior)
           u      == Charged(v, prior)
           active == NonEmpty(ps) \cap runnable
           floor  == Min({u[i] : i \in active}) - BonusCap
<1>1. w \in [DOMAIN ps -> Int]
  <2>1. v \in [DOMAIN ps -> Int]
    OBVIOUS
  <2> QED BY <2>1, VruntimesTyped
<1>2. /\ u \in [DOMAIN ps -> Nat]
      /\ \A j \in DOMAIN ps : v[j] + (IF prior = j THEN 1 ELSE 0) <= u[j]
  <2>1. CASE prior \in DOMAIN ps
    BY <2>1 DEF Charged
  <2>2. CASE prior \notin DOMAIN ps
    BY <2>2 DEF Charged
  <2> QED BY <2>1, <2>2
<1>3. \A j \in DOMAIN ps : u[j] <= w[j]
  <2>1. w = IF active = {} THEN u
            ELSE [j \in DOMAIN u |-> IF j \in active /\ u[j] < floor THEN floor ELSE u[j]]
    BY DEF NextVruntimes
  <2> SUFFICES ASSUME NEW j \in DOMAIN ps PROVE u[j] <= w[j]
    OBVIOUS
  <2> HIDE DEF w, u, floor, active
  <2>2. w[j] = u[j] \/ (w[j] = floor /\ u[j] < floor)
    BY <1>2, <2>1
  <2>3. w[j] \in Int /\ u[j] \in Nat
    BY <1>1, <1>2
  <2> QED BY <2>2, <2>3
<1>4. ASSUME NEW j \in DOMAIN ps
      PROVE  w[j] \in Nat /\ v[j] + (IF prior = j THEN 1 ELSE 0) <= w[j]
  <2> HIDE DEF w, u
  <2>1. /\ v[j] \in Nat /\ u[j] \in Nat /\ w[j] \in Int /\ u[j] <= w[j]
        /\ v[j] + (IF prior = j THEN 1 ELSE 0) <= u[j]
    BY <1>1, <1>2, <1>3
  <2> QED BY <2>1
<1>5. w \in [DOMAIN ps -> Nat]
  <2> HIDE DEF w
  <2> QED BY <1>1, <1>4
<1> QED BY <1>4, <1>5

\* CFS chooses one of the processes with the least run time, if any may run.
LEMMA CFSChoosesLeast ==
    ASSUME NEW ps \in Seq(ProcessRecord), NEW runnable, NonEmpty(ps) \subseteq runnable,
           NEW prior, NEW v \in [DOMAIN ps -> Int]
    PROVE  LET w == NextVruntimes(ps, runnable, v, prior)
               c == CFS(ps, runnable, v, prior)
           IN  NonEmpty(ps) # {} => /\ c \in NonEmpty(ps)
                                    /\ \A j \in NonEmpty(ps) : w[c] <= w[j]
<1> DEFINE w      == NextVruntimes(ps, runnable, v, prior)
           c      == CFS(ps, runnable, v, prior)
           active == NonEmpty(ps) \cap runnable
           scores == [j \in DOMAIN ps |-> IF j \in active THEN -w[j] ELSE 0]
<1> SUFFICES ASSUME NonEmpty(ps) # {}
             PROVE  c \in NonEmpty(ps) /\ \A j \in NonEmpty(ps) : w[c] <= w[j]
  OBVIOUS
<1>1. active = NonEmpty(ps) /\ NonEmpty(ps) \subseteq DOMAIN ps
  BY DEF NonEmpty
<1>2. w \in [DOMAIN ps -> Int]
  BY VruntimesTyped
<1>3. c = ArgmaxWithQueues(scores, ps)
  BY <1>1 DEF CFS
<1> HIDE DEF w, c, active
<1>4. scores \in [DOMAIN ps -> Int]
  BY <1>2
<1>5. \A j \in NonEmpty(ps) : scores[j] = -w[j] /\ w[j] \in Int
  BY <1>1, <1>2
<1> HIDE DEF scores
<1>6. /\ Honours(c, ps)
      /\ \A j \in NonEmpty(ps) : scores[j] <= scores[c]
  BY <1>3, <1>4, ArgmaxHonours
<1>7. c \in NonEmpty(ps)
  BY <1>6 DEF Honours
<1> QED BY <1>5, <1>6, <1>7

Lesser(a, b) == IF a <= b THEN a ELSE b

\* The run time that each process has, with the tick still owed by the last
\* one chosen, as far as it is not beyond that of i by more than one.
Behind(v, prior, i) ==
    [j \in DOMAIN v |-> Lesser(v[j] + (IF prior = j THEN 1 ELSE 0), v[i] + 1)]

\* As the run times grow those sums do not fall, and they rise by one with
\* every choice of a process that is not ahead of i.
LEMMA BehindGrows ==
    ASSUME NEW n \in Nat, NEW v \in [1 .. n -> Nat], NEW w \in [1 .. n -> Nat],
           NEW p, NEW c, NEW i \in 1 .. n,
           \A j \in 1 .. n : v[j] + (IF p = j THEN 1 ELSE 0) <= w[j]
    PROVE  LET others == (1 .. n) \ {i}
               before == SumFunctionOnSet(Behind(v, p, i), others)
               after  == SumFunctionOnSet(Behind(w, c, i), others)
           IN  /\ before \in Nat /\ after \in Nat
               /\ before <= after
               /\ c \in others /\ w[c] <= w[i] => before + 1 <= after
<1> DEFINE others == (1 .. n) \ {i}
           f == Behind(v, p, i)
           g == Behind(w, c, i)
<1>1. IsFiniteSet(others)
  <2>1. IsFiniteSet(1 .. n) /\ others \in SUBSET (1 .. n)
    BY FS_Interval
  <2> QED BY <2>1, FS_Subset
<1>2. ASSUME NEW j \in 1 .. n
      PROVE  /\ f[j] = Lesser(v[j] + (IF p = j THEN 1 ELSE 0), v[i] + 1)
             /\ g[j] = Lesser(w[j] + (IF c = j THEN 1 ELSE 0), w[i] + 1)
             /\ v[j] \in Nat /\ w[j] \in Nat
             /\ v[j] + (IF p = j THEN 1 ELSE 0) <= w[j] /\ v[j] <= w[j]
  BY DEF Behind
<1> HIDE DEF f, g
<1>3. v[i] \in Nat /\ w[i] \in Nat /\ v[i] <= w[i]
  BY <1>2
<1>4. ASSUME NEW j \in 1 .. n PROVE f[j] \in Nat /\ g[j] \in Nat /\ f[j] <= g[j]
  <2> DEFINE a == v[j] + (IF p = j THEN 1 ELSE 0)
             b == w[j] + (IF c = j THEN 1 ELSE 0)
  <2>1. /\ f[j] = Lesser(a, v[i] + 1) /\ g[j] = Lesser(b, w[i] + 1)
        /\ a \in Nat /\ b \in Nat /\ a <= b
    BY <1>2
  <2> HIDE DEF a, b
  <2> QED BY <1>3, <2>1 DEF Lesser
<1>5. ASSUME c \in others, w[c] <= w[i] PROVE f[c] + 1 <= g[c]
  <2> DEFINE a == v[c] + (IF p = c THEN 1 ELSE 0)
  <2>1. /\ f[c] = Lesser(a, v[i] + 1) /\ g[c] = Lesser(w[c] + 1, w[i] + 1)
        /\ a \in Nat /\ w[c] \in Nat /\ a <= w[c]
    BY <1>2, <1>5
  <2> HIDE DEF a
  <2> QED BY <1>3, <1>5, <2>1 DEF Lesser
<1>6. /\ Summable(f, others) /\ Summable(g, others)
      /\ \A j \in others : f[j] \in Nat /\ g[j] \in Nat /\ f[j] <= g[j]
  BY <1>1, <1>4 DEF Summable
<1> HIDE DEF others
<1>7. SumFunctionOnSet(f, others) \in Nat /\ SumFunctionOnSet(g, others) \in Nat
  BY <1>1, <1>6, SumNatural
<1>8. SumFunctionOnSet(f, others) <= SumFunctionOnSet(g, others)
  BY <1>6, SumMonotone
<1>9. c \in others /\ w[c] <= w[i]
         => SumFunctionOnSet(f, others) + 1 <= SumFunctionOnSet(g, others)
  BY <1>5, <1>6, SumGrows
<1> QED BY <1>7, <1>8, <1>9 DEF others, f, g

\* While i waits, each choice of another process uses up some of its lag.
CFSInv ==
    policy = "cfs" /\ ~LockMode =>
        /\ vruntimes \in [1 .. NumProcs -> Nat]
        /\ passed \in [1 .. NumProcs -> Nat]
        /\ \A i \in 1 .. NumProcs :
              passed[i] <= SumFunctionOnSet(Behind(vruntimes, prev, i), (1 .. NumProcs) \ {i})

LEMMA InitCFS == PolicyInit => CFSInv
<1> SUFFICES ASSUME PolicyInit PROVE CFSInv
  OBVIOUS
<1>1. NumProcs \in Nat
  BY OnlineMetricsAssumption
<1>2. vruntimes \in [1 .. NumProcs -> Nat] /\ passed = [i \in 1 .. NumProcs |-> 0]
  BY DEF PolicyInit
<1>3. ASSUME NEW i \in 1 .. NumProcs
      PROVE  SumFunctionOnSet(Behind(vruntimes, prev, i), (1 .. NumProcs) \ {i}) \in Nat
  <2> DEFINE f == Behind(vruntimes, prev, i)
  <2>1. \A j \in 1 .. NumProcs : vruntimes[j] \in Nat
    BY <1>2
  <2>2. \A j \in (1 .. NumProcs) \ {i} : f[j] \in Nat
    BY <1>2, <2>1 DEF Behind, Lesser
  <2>3. IsFiniteSet((1 .. NumProcs) \ {i})
    <3>1. IsFiniteSet(1 .. NumProcs) /\ (1 .. NumProcs) \ {i} \in SUBSET (1 .. NumProcs)
      BY <1>1, FS_Interval
    <3> QED BY <3>1, FS_Subset
  <2> HIDE DEF f
  <2>4. SumFunctionOnSet(f, (1 .. NumProcs) \ {i}) \in Nat
    BY <2>2, <2>3, SumNatural
  <2> QED BY <2>4 DEF f
<1> QED BY <1>2, <1>3 DEF CFSInv

LEMMA CFSPasses ==
    ASSUME ~LockMode, PolicyInv, CFSInv, ScheduleCFS PROVE CFSInv'
<1> DEFINE n == NumProcs
           c == CFS(processes, Runnable, vruntimes, prev)
           w == NextVruntimes(processes, Runnable, vruntimes, prev)
           Sum(v, p, i) == SumFunctionOnSet(Behind(v, p, i), (1 .. n) \ {i})
<1>1. n \in Nat
  BY OnlineMetricsAssumption
<1>2. /\ processes \in Seq(ProcessRecord) /\ DOMAIN processes = 1 .. n
  BY <1>1 DEF PolicyInv, RegistryInv, TypeOK
<1>3. /\ vruntimes \in [1 .. n -> Nat] /\ passed \in [1 .. n -> Nat]
      /\ \A i \in 1 .. n : passed[i] <= Sum(vruntimes, prev, i)
  BY DEF CFSInv, ScheduleCFS
<1>4. /\ policy' = policy /\ vruntimes' = w
      /\ passed' = [i \in 1 .. n |-> IF c = i \/ ~Waiting(i) THEN 0
                                     ELSE IF c = Idle THEN passed[i] ELSE passed[i] + 1]
      /\ prev' = IF c = NoPid THEN prev ELSE c
  <2>1. DOMAIN passed = 1 .. n
    BY <1>3
  <2> QED BY <2>1 DEF ScheduleCFS, Decide, Schedule
<1>5. /\ w \in [1 .. n -> Nat]
      /\ \A j \in 1 .. n : vruntimes[j] + (IF prev = j THEN 1 ELSE 0) <= w[j]
  BY <1>2, <1>3, VruntimesGrow
<1>6. NonEmpty(processes) # {} =>
          /\ c \in NonEmpty(processes)
          /\ \A j \in NonEmpty(processes) : w[c] <= w[j]
  <2>1. NonEmpty(processes) \subseteq Runnable
    BY DEF NonEmpty, Runnable
  <2>2. vruntimes \in [DOMAIN processes -> Int]
    BY <1>2, <1>3
  <2> QED BY <1>2, <2>1, <2>2, CFSChoosesLeast
<1>7. ASSUME NEW i \in 1 .. n
      PROVE  /\ Sum(vruntimes, prev, i) \in Nat /\ Sum(w, prev', i) \in Nat
             /\ Sum(vruntimes, prev, i) <= Sum(w, prev', i)
             /\ prev' \in (1 .. n) \ {i} /\ w[prev'] <= w[i]
                   => Sum(vruntimes, prev, i) + 1 <= Sum(w, prev', i)
  <2> HIDE DEF n, w
  <2> QED BY <1>1, <1>3, <1>5, BehindGrows
<1> HIDE DEF n, c, w, Sum
<1>8. passed' \in [1 .. n -> Nat]
  BY <1>3, <1>4
<1>9. ASSUME NEW i \in 1 .. n PROVE passed'[i] <= Sum(w, prev', i)
  <2>1. CASE c = i \/ ~Waiting(i)
    BY <1>4, <1>7, <2>1
  <2>2. CASE c # i /\ Waiting(i)
    <3>1. i \in NonEmpty(processes)
      BY <1>2, <2>2 DEF NonEmpty, Waiting
    <3>2. c \in NonEmpty(processes) /\ w[c] <= w[i]
      BY <1>6, <3>1
    <3>3. c \in 1 .. n /\ c # Idle
      BY <1>2, <3>2, <1>1 DEF NonEmpty, Idle
    <3>4. passed'[i] = passed[i] + 1 /\ prev' = c
      BY <1>4, <2>2, <3>3 DEF NoPid, Idle
    <3>5. Sum(vruntimes, prev, i) + 1 <= Sum(w, prev', i)
      BY <1>7, <2>2, <3>2, <3>3, <3>4
    <3>6. /\ passed[i] \in Nat /\ passed[i] <= Sum(vruntimes, prev, i)
          /\ Sum(vruntimes, prev, i) \in Nat /\ Sum(w, prev', i) \in Nat
      BY <1>3, <1>7
    <3> QED BY <3>4, <3>5, <3>6
  <2> QED BY <2>1, <2>2
<1> QED BY <1>4, <1>5, <1>8, <1>9 DEF CFSInv, n, Sum

LEMMA CFSStep ==
    ASSUME PolicyInv, CFSInv, [PolicyNext]_policyLoopVars PROVE CFSInv'
<1> SUFFICES ASSUME ~LockMode PROVE CFSInv'
  BY DEF CFSInv
<1>1. CASE ScheduleCFS
  BY <1>1, CFSPasses
<1>2. CASE ScheduleRoundRobin \/ ScheduleFCFS \/ ScheduleByScore
  BY <1>2 DEF ScheduleRoundRobin, ScheduleFCFS, ScheduleByScore, CFSInv
<1>3. CASE OtherStep /\ UNCHANGED policyVars
  <2>1. UNCHANGED <<policy, vruntimes, passed, prev>>
    BY <1>3 DEF policyVars, OtherStep, BeginTick, HandleArrival, HandleLockAcquire,
                IgnoreLockEvent, HandleService, IgnoreService, HandleMetrics, EndTick,
                Terminated, vars, loopVars
  <2> QED BY <2>1 DEF CFSInv
<1>4. CASE UNCHANGED policyLoopVars
  BY <1>4 DEF policyLoopVars, policyVars, vars, loopVars, CFSInv
<1> QED BY <1>1, <1>2, <1>3, <1>4 DEF PolicyNext

(***************************************************************************)
(* CFS starves nobody: while a process waits, each other process is chosen *)
(* at most once for every tick of run time it may still be behind.         *)
(***************************************************************************)
THEOREM CFSStarvesNobody == PolicySpec => []NoStarvationByCFS
<1>1. PolicyInv /\ [PolicyNext]_policyLoopVars => PolicyInv'
  BY PolicyInvStep
<1>2. PolicyInv /\ CFSInv /\ [PolicyNext]_policyLoopVars => CFSInv'
  BY CFSStep
<1>3. CFSInv => NoStarvationByCFS
  <2> SUFFICES ASSUME CFSInv, policy = "cfs", ~LockMode, NEW i \in DOMAIN passed
               PROVE  passed[i] <= (NumProcs - 1) * (vruntimes[i] + 1)
    BY DEF NoStarvationByCFS
  <2> DEFINE f      == Behind(vruntimes, prev, i)
             others == (1 .. NumProcs) \ {i}
             b      == vruntimes[i] + 1
  <2>1. NumProcs \in Nat /\ i \in 1 .. NumProcs /\ passed[i] \in Nat
    BY OnlineMetricsAssumption DEF CFSInv
  <2>2. vruntimes \in [1 .. NumProcs -> Nat] /\ passed[i] <= SumFunctionOnSet(f, others)
    BY <2>1 DEF CFSInv
  <2>3. /\ IsFiniteSet(others) /\ Cardinality(others) = NumProcs - 1
    <3>1. IsFiniteSet(1 .. NumProcs) /\ Cardinality(1 .. NumProcs) = NumProcs
      BY <2>1, FS_Interval
    <3> QED BY <2>1, <3>1, FS_RemoveElement
  <2>4. \A j \in 1 .. NumProcs : vruntimes[j] \in Nat
    BY <2>2
  <2>5. b \in Int /\ \A j \in others : f[j] \in Int /\ f[j] <= b
    BY <2>1, <2>2, <2>4 DEF Behind, Lesser
  <2> HIDE DEF f, others, b
  <2>6. Summable(f, others)
    BY <2>3, <2>5 DEF Summable
  <2>7. SumFunctionOnSet(f, others) <= Cardinality(others) * b
    BY <2>5, <2>6, SumBounded
  <2>8. SumFunctionOnSet(f, others) \in Int /\ (NumProcs - 1) * b \in Int
    BY <2>1, <2>5, <2>6, SumType
  <2>9. passed[i] <= (NumProcs - 1) * b
    BY <2>1, <2>2, <2>3, <2>7, <2>8
  <2> QED BY <2>9 DEF b
<1> QED BY <1>1, <1>2, <1>3, InitPolicy, InitCFS, PTL DEF PolicySpec

-----------------------------------------------------------------------------
(* The oracle looks ahead with the policy itself, so its turns serve one   *)
(* job each for as long as there is one, whatever the policy prefers.      *)

OraclePolicies == {"rr", "fcfs", "cfs", "gsq"}

\* What a policy keeps between two calls.
SchedulerStates == [index : 1 .. NumProcs, vruntimes : [1 .. NumProcs -> Int]]

\* The processes of a look-ahead.
Copies == {ps \in Seq(ProcessRecord) : /\ Len(ps) = NumProcs
                                       /\ \A i \in 1 .. NumProcs :
                                             ps[i].queue_length = Len(ps[i].jobs)}

\* The look-aheads without dependencies.
LookAheads == [procs : Copies, blocked : {{}}, sched : SchedulerStates,
               tick : Nat, total : Int, ended : BOOLEAN]

\* Those in which some processes may be blocked.
BlockedLookAheads == [procs : Copies, blocked : SUBSET (1 .. NumProcs), sched : SchedulerStates,
                      tick : Nat, total : Int, ended : BOOLEAN]

\* How many jobs are queued.
Backlog(ps) == SumOver(ps, "queue_length")

LEMMA CopiesTyped ==
    ASSUME NEW ps \in Copies
    PROVE  /\ ps \in Seq(ProcessRecord) /\ Len(ps) = NumProcs /\ Len(ps) # 0
           /\ DOMAIN ps = 1 .. NumProcs
           /\ \A i \in 1 .. NumProcs : /\ ps[i] \in ProcessRecord
                                       /\ ps[i].queue_length = Len(ps[i].jobs)
                                       /\ ps[i].queue_length \in Nat
<1>1. NumProcs \in Nat \ {0}
  BY OnlineMetricsAssumption
<1>2. ps \in Seq(ProcessRecord) /\ Len(ps) = NumProcs
  BY DEF Copies
<1>3. DOMAIN ps = 1 .. NumProcs
  BY <1>2
<1>4. ASSUME NEW i \in 1 .. NumProcs
      PROVE  /\ ps[i] \in ProcessRecord
             /\ ps[i].queue_length = Len(ps[i].jobs) /\ ps[i].queue_length \in Nat
  <2>1. ps[i] \in ProcessRecord /\ ps[i].queue_length = Len(ps[i].jobs)
    BY <1>2, <1>3 DEF Copies
  <2>2. ps[i].jobs \in Seq(Nat)
    BY <1>2, <1>3, RecordsTyped
  <2> QED BY <2>1, <2>2
<1> QED BY <1>1, <1>2, <1>3, <1>4

LEMMA OracleChoiceHonours ==
    ASSUME NEW ps \in Copies, NEW blocked, NEW sched \in SchedulerStates,
           policy \in OraclePolicies
    PROVE  LET i == OracleChoice(ps, blocked, sched)
           IN  /\ SchedulerAfter(ps, sched) \in SchedulerStates
               /\ i = Idle \/ i \in NonEmpty(ps)
               /\ blocked = {} \/ policy # "fcfs" => Honours(i, ps)
<1>1. /\ ps \in Seq(ProcessRecord) /\ Len(ps) = NumProcs /\ Len(ps) # 0
      /\ DOMAIN ps = 1 .. NumProcs
      /\ \A i \in DOMAIN ps : ps[i].queue_length = Len(ps[i].jobs)
      /\ \A i \in DOMAIN ps : ps[i].queue_length \in Int
  BY CopiesTyped
<1>2. sched.index \in 1 .. Len(ps) /\ sched.vruntimes \in [DOMAIN ps -> Int]
  BY <1>1 DEF SchedulerStates
<1>3. ASSUME NEW i, HonoursAmong(i, ps, DOMAIN ps) PROVE Honours(i, ps)
  BY <1>3 DEF HonoursAmong, Honours, NonEmpty
<1>4. ASSUME NEW i, Honours(i, ps) PROVE i = Idle \/ i \in NonEmpty(ps)
  BY <1>4 DEF Honours
<1>5. CASE policy = "rr"
  <2>1. NextIndex(ps, sched.index) \in 1 .. NumProcs /\ Honours(RoundRobin(ps, sched.index), ps)
    BY <1>1, <1>2, RoundRobinHonours
  <2>2. SchedulerAfter(ps, sched) = [sched EXCEPT !.index = NextIndex(ps, sched.index)]
    BY <1>5 DEF SchedulerAfter
  <2>3. OracleChoice(ps, blocked, sched) = RoundRobin(ps, sched.index)
    BY <1>5 DEF OracleChoice
  <2>4. SchedulerAfter(ps, sched) \in SchedulerStates
    BY <2>1, <2>2 DEF SchedulerStates
  <2> QED BY <1>4, <1>5, <2>1, <2>3, <2>4
<1>6. CASE policy = "cfs"
  <2>1. HonoursAmong(CFS(ps, DOMAIN ps, sched.vruntimes, Idle), ps, DOMAIN ps)
    BY <1>1, <1>2, CFSHonours
  <2>2. NextVruntimes(ps, DOMAIN ps, sched.vruntimes, Idle) \in [1 .. NumProcs -> Int]
    BY <1>1, <1>2, VruntimesTyped
  <2>3. SchedulerAfter(ps, sched)
          = [sched EXCEPT !.vruntimes = NextVruntimes(ps, DOMAIN ps, sched.vruntimes, Idle)]
    BY <1>6 DEF SchedulerAfter
  <2>4. OracleChoice(ps, blocked, sched) = CFS(ps, DOMAIN ps, sched.vruntimes, Idle)
    BY <1>6 DEF OracleChoice
  <2>5. SchedulerAfter(ps, sched) \in SchedulerStates
    BY <2>2, <2>3 DEF SchedulerStates
  <2> QED BY <1>3, <1>4, <1>6, <2>1, <2>4, <2>5
<1>7. CASE policy = "fcfs"
  <2> DEFINE ready == DOMAIN ps \ blocked
             i     == FCFS(ps, ready)
  <2>1. HonoursAmong(i, ps, ready)
    BY <1>1, FCFSHonours
  <2>2. OracleChoice(ps, blocked, sched) = i /\ SchedulerAfter(ps, sched) = sched
    BY <1>7 DEF OracleChoice, SchedulerAfter
  <2> HIDE DEF i
  <2>3. i = Idle \/ i \in NonEmpty(ps)
    BY <2>1 DEF HonoursAmong
  <2>4. ASSUME blocked = {} PROVE Honours(i, ps)
    <3>1. ready = DOMAIN ps
      BY <2>4
    <3> QED BY <1>3, <2>1, <3>1
  <2> QED BY <1>7, <2>2, <2>3, <2>4
<1>8. CASE policy = "gsq"
  <2>1. [i \in DOMAIN ps |-> -ps[i].queue_length] \in [DOMAIN ps -> Int]
    BY <1>1
  <2>2. Honours(GSQ(ps), ps)
    BY <1>1, <2>1, ArgmaxHonours DEF GSQ
  <2>3. OracleChoice(ps, blocked, sched) = GSQ(ps) /\ SchedulerAfter(ps, sched) = sched
    BY <1>8 DEF OracleChoice, SchedulerAfter
  <2> QED BY <1>4, <1>8, <2>2, <2>3
<1> QED BY <1>5, <1>6, <1>7, <1>8 DEF OraclePolicies

LEMMA BacklogType ==
    ASSUME NEW ps \in Copies
    PROVE  /\ Backlog(ps) \in Nat
           /\ Backlog(ps) = 0 <=> NonEmpty(ps) = {}
<1> DEFINE f == [i \in DOMAIN ps |-> ps[i].queue_length]
<1>1. /\ DOMAIN f = 1 .. NumProcs /\ IsFiniteSet(1 .. NumProcs)
      /\ \A i \in 1 .. NumProcs : f[i] \in Nat /\ f[i] = ps[i].queue_length
      /\ DOMAIN ps = 1 .. NumProcs
  <2>1. IsFiniteSet(1 .. NumProcs)
    BY FS_Interval, OnlineMetricsAssumption
  <2>2. /\ DOMAIN ps = 1 .. NumProcs
        /\ \A i \in 1 .. NumProcs : ps[i].queue_length \in Nat
    BY CopiesTyped
  <2> QED BY <2>1, <2>2
<1>2. Backlog(ps) = SumFunctionOnSet(f, 1 .. NumProcs)
  <2>1. Backlog(ps) = SumFunction(f)
    BY DEF Backlog, SumOver
  <2> HIDE DEF f
  <2> QED BY <1>1, <2>1 DEF SumFunction
<1> HIDE DEF f
<1>3. SumFunctionOnSet(f, 1 .. NumProcs) \in Nat
  BY <1>1, SumNatural
<1>4. ASSUME NonEmpty(ps) = {} PROVE SumFunctionOnSet(f, 1 .. NumProcs) = 0
  <2>1. \A i \in 1 .. NumProcs : f[i] = 0
    BY <1>1, <1>4 DEF NonEmpty
  <2> QED BY <1>1, <2>1, SumZero
<1>5. ASSUME NEW i \in NonEmpty(ps) PROVE SumFunctionOnSet(f, 1 .. NumProcs) > 0
  <2>1. i \in 1 .. NumProcs /\ f[i] > 0
    BY <1>1 DEF NonEmpty
  <2>2. f[i] <= SumFunctionOnSet(f, 1 .. NumProcs)
    BY <1>1, <2>1, SumAtLeastTerm
  <2> QED BY <1>1, <1>3, <2>1, <2>2
<1> QED BY <1>2, <1>3, <1>4, <1>5

\* A job is served: there is one fewer.
LEMMA ServeTakesOne ==
    ASSUME NEW ps \in Copies, NEW i \in NonEmpty(ps), NEW t \in Nat
    PROVE  LET qs == [ps EXCEPT ![i] = Service(ps[i], t)]
           IN  qs \in Copies /\ Backlog(qs) = Backlog(ps) - 1
<1> DEFINE p  == Service(ps[i], t)
           qs == [ps EXCEPT ![i] = p]
           f  == [k \in DOMAIN ps |-> ps[k].queue_length]
           g  == [k \in DOMAIN qs |-> qs[k].queue_length]
<1>1. /\ ps \in Seq(ProcessRecord) /\ Len(ps) = NumProcs
      /\ DOMAIN ps = 1 .. NumProcs
      /\ \A k \in 1 .. NumProcs : /\ ps[k] \in ProcessRecord
                                  /\ ps[k].queue_length = Len(ps[k].jobs)
                                  /\ ps[k].queue_length \in Nat
  BY CopiesTyped
<1>2. i \in 1 .. NumProcs /\ ps[i].queue_length > 0
  BY <1>1 DEF NonEmpty
<1>3. p \in ProcessRecord /\ p.queue_length = ps[i].queue_length - 1 /\ p.queue_length = Len(p.jobs)
  <2>1. ps[i].jobs \in Seq(Nat) /\ ps[i].jobs # <<>>
    BY <1>1, <1>2, RecordsTyped
  <2>2. /\ p = [ps[i] EXCEPT !.jobs = Tail(@), !.queue_length = @ - 1, !.completed_jobs = @ + 1,
                   !.total_waiting_time = @ + WaitingTime(Head(ps[i].jobs), t),
                   !.last_service_time = t, !.ticks_since_last_service = 0]
    BY <1>2, <2>1 DEF Service, HasJob
  <2>3. WaitingTime(Head(ps[i].jobs), t) \in Nat
    BY <2>1 DEF WaitingTime
  <2>4. Tail(ps[i].jobs) \in Seq(Nat) /\ Len(Tail(ps[i].jobs)) = Len(ps[i].jobs) - 1
    BY <2>1
  <2>5. ps[i] \in ProcessRecord
    BY <1>1, <1>2
  <2> HIDE DEF p
  <2> DEFINE jobs == Tail(ps[i].jobs)
             wait == WaitingTime(Head(ps[i].jobs), t)
  <2>6. /\ p = [ps[i] EXCEPT !.jobs = jobs, !.queue_length = @ - 1, !.completed_jobs = @ + 1,
                   !.total_waiting_time = @ + wait,
                   !.last_service_time = t, !.ticks_since_last_service = 0]
        /\ jobs \in Seq(Nat) /\ wait \in Nat /\ Len(jobs) = ps[i].queue_length - 1
    BY <1>1, <1>2, <2>2, <2>3, <2>4
  <2> HIDE DEF jobs, wait
  <2>7. p \in ProcessRecord
    BY <2>5, ServiceTyped DEF p
  <2>8. p.queue_length = ps[i].queue_length - 1 /\ p.jobs = jobs
    BY <2>5, <2>6 DEF ProcessRecord
  <2> QED BY <2>6, <2>7, <2>8
<1> HIDE DEF p
<1>4. /\ DOMAIN qs = 1 .. NumProcs
      /\ \A k \in 1 .. NumProcs : qs[k] = IF k = i THEN p ELSE ps[k]
      /\ qs \in Seq(ProcessRecord) /\ Len(qs) = NumProcs
  BY <1>1, <1>2, <1>3
<1> HIDE DEF qs
<1>5. qs \in Copies
  <2>1. \A k \in 1 .. NumProcs : qs[k].queue_length = Len(qs[k].jobs)
    BY <1>1, <1>3, <1>4
  <2> QED BY <1>4, <2>1 DEF Copies
<1>6. Backlog(ps) = SumFunctionOnSet(f, 1 .. NumProcs)
      /\ Backlog(qs) = SumFunctionOnSet(g, 1 .. NumProcs)
  <2>1. Backlog(ps) = SumFunction(f) /\ Backlog(qs) = SumFunction(g)
    BY DEF Backlog, SumOver
  <2>2. DOMAIN f = 1 .. NumProcs /\ DOMAIN g = 1 .. NumProcs
    BY <1>1, <1>4
  <2> HIDE DEF f, g
  <2> QED BY <2>1, <2>2 DEF SumFunction
<1>7. /\ \A k \in 1 .. NumProcs : f[k] \in Int /\ g[k] \in Int
      /\ g[i] = f[i] - 1
      /\ \A k \in (1 .. NumProcs) \ {i} : g[k] = f[k]
  BY <1>1, <1>2, <1>3, <1>4
<1>8. IsFiniteSet(1 .. NumProcs)
  BY FS_Interval, OnlineMetricsAssumption
<1> HIDE DEF f, g
<1>9. SumFunctionOnSet(g, 1 .. NumProcs) = SumFunctionOnSet(f, 1 .. NumProcs) + (g[i] - f[i])
  BY <1>2, <1>7, <1>8, SumChange DEF Summable
<1>10. SumFunctionOnSet(f, 1 .. NumProcs) \in Int
  BY <1>7, <1>8, SumType DEF Summable
<1> QED BY <1>2, <1>5, <1>6, <1>7, <1>9, <1>10 DEF qs, p

\* A turn without dependencies: one job is served, or the look-ahead ends.
LEMMA LookAheadTakesOne ==
    ASSUME NEW l \in LookAheads, NEW forced, policy \in OraclePolicies,
           Forces(l, forced) /\ ~l.ended => CanRun(l.procs, {}, forced) /\ forced \in 1 .. NumProcs
    PROVE  LET m == LookAhead(l, {}, forced)
               b == Backlog(l.procs)
           IN  /\ m \in LookAheads
               /\ l.ended => m = l
               /\ ~l.ended /\ b = 0 => /\ m.ended /\ m.total = l.total
                                       /\ Backlog(m.procs) = b
               /\ ~l.ended /\ b # 0 => /\ ~m.ended /\ m.total = l.total + (b - 1)
                                       /\ Backlog(m.procs) = b - 1 /\ m.tick > 0
<1> DEFINE forces == Forces(l, forced)
           i      == IF forces THEN forced ELSE OracleChoice(l.procs, l.blocked, l.sched)
           after  == IF forces THEN l.sched ELSE SchedulerAfter(l.procs, l.sched)
           m      == LookAhead(l, {}, forced)
           b      == Backlog(l.procs)
<1>1. /\ l.procs \in Copies /\ l.blocked = {} /\ l.sched \in SchedulerStates
      /\ l.tick \in Nat /\ l.total \in Int /\ l.ended \in BOOLEAN
  BY DEF LookAheads
<1>2. CASE l.ended
  BY <1>2 DEF LookAhead
<1>3. CASE ~l.ended
  <2>1. after \in SchedulerStates /\ Honours(i, l.procs)
    <3>1. CASE forces
      <4>1. CanRun(l.procs, {}, forced) /\ forced \in 1 .. NumProcs
        BY <1>3, <3>1
      <4>2. forced \in NonEmpty(l.procs)
        BY <1>1, <4>1, CopiesTyped DEF CanRun, NonEmpty
      <4> QED BY <1>1, <3>1, <4>2 DEF Honours
    <3>2. CASE ~forces
      BY <1>1, <3>2, OracleChoiceHonours
    <3> QED BY <3>1, <3>2
  <2>2. m = IF i = Idle THEN [l EXCEPT !.ended = TRUE, !.sched = after]
            ELSE Serve([l EXCEPT !.sched = after], {}, i)
    <3>1. forces => CanRun(l.procs, l.blocked, i)
      BY <1>1, <1>3
    <3> QED BY <1>3, <3>1 DEF LookAhead
  <2>3. b \in Nat /\ (b = 0 <=> NonEmpty(l.procs) = {})
    BY <1>1, BacklogType
  <2>4. (i = Idle <=> b = 0) /\ (i # Idle => i \in NonEmpty(l.procs))
    <3>1. Idle \notin NonEmpty(l.procs)
      BY <1>1, CopiesTyped DEF NonEmpty, Idle
    <3> QED BY <2>1, <2>3, <3>1 DEF Honours
  <2> HIDE DEF i, after, forces
  <2>5. CASE b = 0
    <3>1. m = [l EXCEPT !.ended = TRUE, !.sched = after]
      BY <2>2, <2>4, <2>5
    <3> HIDE DEF m
    <3> QED BY <1>3, <2>1, <2>5, <3>1 DEF LookAheads, m
  <2>6. CASE b # 0
    <3> DEFINE k  == [l EXCEPT !.sched = after]
               qs == [l.procs EXCEPT ![i] = Service(l.procs[i], l.tick)]
    <3>1. m = Serve(k, {}, i) /\ i \in NonEmpty(l.procs)
      BY <2>2, <2>4, <2>6
    <3>2. qs \in Copies /\ Backlog(qs) = b - 1
      <4> USE <1>1, <3>1
      <4> HIDE DEF m
      <4> QED BY ServeTakesOne
    <3>3. /\ k \in LookAheads /\ k.procs = l.procs /\ k.blocked = {} /\ k.tick = l.tick
          /\ k.total = l.total /\ k.sched = after /\ ~k.ended
      BY <1>1, <1>3, <2>1 DEF LookAheads
    <3> HIDE DEF k, m
    <3>4. m = [k EXCEPT !.procs = qs, !.blocked = {}, !.total = l.total + (b - 1),
                        !.tick = l.tick + 1]
      <4> DEFINE released == IF k.procs[i].queue_length > 0 THEN Released(qs, {}, i) ELSE {}
                 procs == WithArrivals(qs, released \ k.blocked, k.tick)
      <4>1. released = {}
        BY DEF Released
      <4>2. procs = qs
        <5>1. procs = [j \in DOMAIN qs |-> qs[j]]
          BY <4>1 DEF WithArrivals
        <5> QED BY <3>2, <5>1, CopiesTyped
      <4>3. m = [k EXCEPT !.procs = procs, !.blocked = @ \ released,
                          !.total = @ + SumOver(procs, "queue_length"), !.tick = @ + 1]
        BY <3>1, <3>3 DEF Serve
      <4> HIDE DEF released, procs, qs
      <4> QED BY <3>2, <3>3, <4>1, <4>2, <4>3 DEF Backlog
    <3> HIDE DEF qs
    <3>5. b - 1 \in Int /\ l.total + (b - 1) \in Int /\ l.tick + 1 \in Nat /\ l.tick + 1 > 0
      BY <1>1, <2>3
    <3>6. /\ m \in LookAheads /\ m.procs = qs /\ m.total = l.total + (b - 1)
          /\ m.tick = l.tick + 1 /\ m.ended = k.ended
      BY <3>2, <3>3, <3>4, <3>5 DEF LookAheads
    <3> QED BY <1>3, <2>6, <3>2, <3>3, <3>5, <3>6 DEF m
  <2> QED BY <2>5, <2>6
<1> QED BY <1>2, <1>3

\* g is the look-ahead as far as turn j.
LooksAhead(g, ps, blocked, topology, sched, forced, j) ==
    g = [n \in 0 .. j |-> IF n = 0 THEN Copied(ps, blocked, sched)
                          ELSE LookAhead(g[n - 1], topology, forced)]

LEMMA LookAheadExists ==
    ASSUME NEW ps, NEW blocked, NEW topology, NEW sched, NEW forced
    PROVE  \E g : LooksAhead(g, ps, blocked, topology, sched, forced, Safety)
<1> DEFINE Is(g, j) == LooksAhead(g, ps, blocked, topology, sched, forced, j)
           start    == Copied(ps, blocked, sched)
           P        == {j \in 0 .. Safety : \E g : Is(g, j)}
<1>0. Safety \in Nat
  BY OracleAssumption
<1>1. 0 \in P
  <2>1. Is([k \in 0 .. 0 |-> start], 0)
    BY DEF LooksAhead
  <2> HIDE DEF Is
  <2> QED BY <1>0, <2>1
<1>2. ASSUME NEW j \in 0 + 1 .. Safety, j - 1 \in P PROVE j \in P
  <2> PICK g : Is(g, j - 1)
    BY <1>2
  <2> DEFINE final == LookAhead(g[j - 1], topology, forced)
             h    == [k \in 0 .. j |-> IF k = j THEN final ELSE g[k]]
  <2>1. \A k \in 0 .. j - 1 : g[k] = IF k = 0 THEN start ELSE LookAhead(g[k - 1], topology, forced)
    BY DEF LooksAhead
  <2>2. j - 1 \in 0 .. j - 1 /\ j \in Int /\ j # 0
    BY <1>0
  <2> HIDE DEF final, start
  <2>3. h[j] = final /\ \A k \in 0 .. j - 1 : h[k] = g[k]
    BY <1>0
  <2>4. h = [k \in 0 .. j |-> h[k]]
    OBVIOUS
  <2> HIDE DEF h
  <2>5. ASSUME NEW k \in 0 .. j
        PROVE  h[k] = IF k = 0 THEN start ELSE LookAhead(h[k - 1], topology, forced)
    <3>1. CASE k = j
      BY <2>2, <2>3, <3>1 DEF final
    <3>2. CASE k # j
      <4>1. k \in 0 .. j - 1 /\ (k # 0 => k - 1 \in 0 .. j - 1)
        BY <1>0, <3>2
      <4> QED BY <2>1, <2>3, <4>1
    <3> QED BY <3>1, <3>2
  <2>6. Is(h, j)
    BY <2>4, <2>5 DEF LooksAhead, start
  <2> HIDE DEF Is
  <2> QED BY <2>6
<1>3. Safety \in P
  <2> HIDE DEF P
  <2>1. \A k \in 0 .. Safety : k \in P
    <3>1. 0 \in Int /\ Safety \in Int
      BY <1>0
    <3> QED BY <1>1, <1>2, <3>1, IntervalInduction
  <2> QED BY <1>0, <2>1
<1> QED BY <1>3

LEMMA TurnsUnfold ==
    ASSUME NEW ps, NEW blocked, NEW topology, NEW sched, NEW forced
    PROVE  LET g == Turns(ps, blocked, topology, sched, forced)
           IN  /\ g[0] = Copied(ps, blocked, sched)
               /\ \A n \in 1 .. Safety : g[n] = LookAhead(g[n - 1], topology, forced)
<1> DEFINE Is(g) == LooksAhead(g, ps, blocked, topology, sched, forced, Safety)
           g     == CHOOSE x : Is(x)
<1>1. Is(g)
  <2>1. \E x : Is(x)
    BY LookAheadExists
  <2> HIDE DEF Is
  <2> QED BY <2>1
<1>2. Turns(ps, blocked, topology, sched, forced) = g
  BY Zenon DEF Turns, LooksAhead
<1> HIDE DEF g
<1>3. \A n \in 0 .. Safety : g[n] = IF n = 0 THEN Copied(ps, blocked, sched)
                                    ELSE LookAhead(g[n - 1], topology, forced)
  BY <1>1 DEF LooksAhead
<1>4. 0 \in 0 .. Safety /\ \A n \in 1 .. Safety : n \in 0 .. Safety /\ n # 0
  BY OracleAssumption
<1> QED BY <1>2, <1>3, <1>4

(***************************************************************************)
(* Two look-aheads from the same processes, each with a first move that    *)
(* can be made or none: after every turn they have the same total, for     *)
(* each has served as many jobs as the other.                              *)
(***************************************************************************)
LEMMA LookAheadsAgree ==
    ASSUME NEW ps \in Copies, policy \in OraclePolicies,
           NEW sched \in SchedulerStates, NEW other \in SchedulerStates,
           NEW first \in 0 .. NumProcs, NEW second \in 0 .. NumProcs,
           first # Idle => CanRun(ps, {}, first),
           second # Idle => CanRun(ps, {}, second)
    PROVE  LET a == EvaluateJ(ps, {}, {}, sched, first)
               b == EvaluateJ(ps, {}, {}, other, second)
           IN  /\ a.total = b.total /\ a.total \in Int
               /\ a.sched \in SchedulerStates /\ b.sched \in SchedulerStates
<1> DEFINE g == Turns(ps, {}, {}, sched, first)
           h == Turns(ps, {}, {}, other, second)
           Ready(l, forced) == /\ l \in LookAheads
                               /\ Forces(l, forced) /\ ~l.ended => CanRun(l.procs, {}, forced)
           Same(l, m) == l.total = m.total /\ l.ended = m.ended
                            /\ Backlog(l.procs) = Backlog(m.procs)
           P == {n \in 0 .. Safety : Ready(g[n], first) /\ Ready(h[n], second) /\ Same(g[n], h[n])}
<1>0. Safety \in Nat /\ NumProcs \in Nat /\ first \in Int /\ second \in Int
  BY OracleAssumption, OnlineMetricsAssumption
<1>1. g[0] = Copied(ps, {}, sched) /\ \A n \in 1 .. Safety : g[n] = LookAhead(g[n - 1], {}, first)
  BY TurnsUnfold
<1>2. h[0] = Copied(ps, {}, other) /\ \A n \in 1 .. Safety : h[n] = LookAhead(h[n - 1], {}, second)
  BY TurnsUnfold
<1> HIDE DEF g, h
<1>3. ASSUME NEW l, NEW forced \in 0 .. NumProcs, Ready(l, forced)
      PROVE  /\ Ready(LookAhead(l, {}, forced), forced)
             /\ LET m == LookAhead(l, {}, forced)
                    b == Backlog(l.procs)
                IN  /\ l.ended => m = l
                    /\ ~l.ended /\ b = 0 => /\ m.ended /\ m.total = l.total
                                            /\ Backlog(m.procs) = b
                    /\ ~l.ended /\ b # 0 => /\ ~m.ended /\ m.total = l.total + (b - 1)
                                            /\ Backlog(m.procs) = b - 1 /\ m.tick > 0
  <2> DEFINE m == LookAhead(l, {}, forced)
             b == Backlog(l.procs)
  <2>1. forced # Idle => forced \in 1 .. NumProcs
    BY DEF Idle
  <2>2. Forces(l, forced) /\ ~l.ended => CanRun(l.procs, {}, forced) /\ forced \in 1 .. NumProcs
    BY <1>3, <2>1 DEF Forces
  <2>3. /\ m \in LookAheads
        /\ l.ended => m = l
        /\ ~l.ended /\ b = 0 => /\ m.ended /\ m.total = l.total
                                /\ Backlog(m.procs) = b
        /\ ~l.ended /\ b # 0 => /\ ~m.ended /\ m.total = l.total + (b - 1)
                                /\ Backlog(m.procs) = b - 1 /\ m.tick > 0
    BY <1>3, <2>2, LookAheadTakesOne
  <2> HIDE DEF m, b
  <2>4. Ready(m, forced)
    <3>1. CASE l.ended
      BY <1>3, <2>3, <3>1
    <3>2. CASE ~l.ended /\ b = 0
      BY <2>3, <3>2
    <3>3. CASE ~l.ended /\ b # 0
      <4>1. m.tick > 0 /\ m.tick \in Nat
        BY <2>3, <3>3 DEF LookAheads
      <4>2. ~Forces(m, forced)
        BY <4>1 DEF Forces
      <4> QED BY <2>3, <4>2
    <3> QED BY <3>1, <3>2, <3>3
  <2> QED BY <2>3, <2>4 DEF m, b
<1>4. ASSUME NEW c \in SchedulerStates
      PROVE  LET l == Copied(ps, {}, c)
             IN  /\ l \in LookAheads /\ l.procs = ps /\ l.total = 0 /\ l.ended = FALSE
  BY DEF Copied, LookAheads
<1>5. 0 \in P
  <2>1. /\ g[0] \in LookAheads /\ g[0].procs = ps /\ g[0].total = 0 /\ g[0].ended = FALSE
    BY <1>1, <1>4
  <2>2. /\ h[0] \in LookAheads /\ h[0].procs = ps /\ h[0].total = 0 /\ h[0].ended = FALSE
    BY <1>2, <1>4
  <2>3. 0 \in 0 .. Safety
    BY <1>0
  <2>4. Ready(g[0], first)
    BY <2>1 DEF Forces
  <2>5. Ready(h[0], second)
    BY <2>2 DEF Forces
  <2> QED BY <2>1, <2>2, <2>3, <2>4, <2>5
<1>6. ASSUME NEW n \in 0 + 1 .. Safety, n - 1 \in P PROVE n \in P
  <2> DEFINE l == g[n - 1]
             m == h[n - 1]
             x == g[n]
             y == h[n]
  <2>1. n \in 1 .. Safety /\ n \in 0 .. Safety
    BY <1>0
  <2>2. x = LookAhead(l, {}, first) /\ y = LookAhead(m, {}, second)
    BY <1>1, <1>2, <2>1
  <2>3. Ready(l, first) /\ Ready(m, second) /\ Same(l, m)
    BY <1>6
  <2> HIDE DEF l, m, Ready
  <2>4. Ready(x, first) /\ Ready(y, second)
    <3> HIDE DEF x, y
    <3> QED BY <1>3, <2>2, <2>3
  <2>5. /\ l.ended => x = l
        /\ ~l.ended /\ Backlog(l.procs) = 0 => /\ x.ended /\ x.total = l.total
                                      /\ Backlog(x.procs) = Backlog(l.procs)
        /\ ~l.ended /\ Backlog(l.procs) # 0 => /\ ~x.ended
                                      /\ x.total = l.total + (Backlog(l.procs) - 1)
                                      /\ Backlog(x.procs) = Backlog(l.procs) - 1
    <3> HIDE DEF x, y
    <3> QED BY <1>3, <2>2, <2>3
  <2>6. /\ m.ended => y = m
        /\ ~m.ended /\ Backlog(m.procs) = 0 => /\ y.ended /\ y.total = m.total
                                      /\ Backlog(y.procs) = Backlog(m.procs)
        /\ ~m.ended /\ Backlog(m.procs) # 0 => /\ ~y.ended
                                      /\ y.total = m.total + (Backlog(m.procs) - 1)
                                      /\ Backlog(y.procs) = Backlog(m.procs) - 1
    <3> HIDE DEF x, y
    <3> QED BY <1>3, <2>2, <2>3
  <2>7. x.ended \in BOOLEAN /\ y.ended \in BOOLEAN
    BY <2>4 DEF LookAheads, Ready
  <2> HIDE DEF x, y
  <2>8. Same(x, y)
    BY <2>3, <2>5, <2>6, <2>7
  <2> QED BY <2>1, <2>4, <2>8 DEF x, y
<1>7. Safety \in P
  <2> HIDE DEF P
  <2>1. 0 \in Int /\ Safety \in Int
    BY <1>0
  <2>2. \A n \in 0 .. Safety : n \in P
    BY <1>5, <1>6, <2>1, IntervalInduction
  <2> QED BY <1>0, <2>2
<1>8. EvaluateJ(ps, {}, {}, sched, first) = g[Safety]
      /\ EvaluateJ(ps, {}, {}, other, second) = h[Safety]
  BY DEF EvaluateJ, g, h
<1>9. g[Safety] \in LookAheads /\ h[Safety] \in LookAheads /\ g[Safety].total = h[Safety].total
  BY <1>7
<1> QED BY <1>8, <1>9 DEF LookAheads

\* u is the list of scores as far as process j.
ScoresSoFar(u, ps, blocked, topology, sched, j) ==
    u = [k \in 0 .. j |->
            IF k = 0 THEN [scores |-> <<>>,
                           sched  |-> EvaluateJ(ps, blocked, topology, sched, Idle).sched]
            ELSE Scored(u[k - 1], ps, blocked, topology,
                        EvaluateJ(ps, blocked, topology, sched, Idle), k)]

LEMMA ScoresExist ==
    ASSUME NEW ps, NEW blocked, NEW topology, NEW sched, Len(ps) \in Nat
    PROVE  \E u : ScoresSoFar(u, ps, blocked, topology, sched, Len(ps))
<1> DEFINE Is(u, j) == ScoresSoFar(u, ps, blocked, topology, sched, j)
           base     == EvaluateJ(ps, blocked, topology, sched, Idle)
           start    == [scores |-> <<>>, sched |-> base.sched]
           P        == {j \in 0 .. Len(ps) : \E u : Is(u, j)}
<1>1. 0 \in P
  <2>1. Is([k \in 0 .. 0 |-> start], 0)
    BY DEF ScoresSoFar
  <2> HIDE DEF Is
  <2> QED BY <2>1
<1>2. ASSUME NEW j \in 0 + 1 .. Len(ps), j - 1 \in P PROVE j \in P
  <2> PICK u : Is(u, j - 1)
    BY <1>2
  <2> DEFINE final == Scored(u[j - 1], ps, blocked, topology, base, j)
             h    == [k \in 0 .. j |-> IF k = j THEN final ELSE u[k]]
  <2>1. \A k \in 0 .. j - 1 :
           u[k] = IF k = 0 THEN start ELSE Scored(u[k - 1], ps, blocked, topology, base, k)
    BY DEF ScoresSoFar
  <2>2. j - 1 \in 0 .. j - 1 /\ j \in Int /\ j # 0
    OBVIOUS
  <2> HIDE DEF final, start, base
  <2>3. h[j] = final /\ \A k \in 0 .. j - 1 : h[k] = u[k]
    OBVIOUS
  <2>4. h = [k \in 0 .. j |-> h[k]]
    OBVIOUS
  <2> HIDE DEF h
  <2>5. ASSUME NEW k \in 0 .. j
        PROVE  h[k] = IF k = 0 THEN start ELSE Scored(h[k - 1], ps, blocked, topology, base, k)
    <3>1. CASE k = j
      BY <2>2, <2>3, <3>1 DEF final
    <3>2. CASE k # j
      <4>1. k \in 0 .. j - 1 /\ (k # 0 => k - 1 \in 0 .. j - 1)
        BY <3>2
      <4> QED BY <2>1, <2>3, <4>1
    <3> QED BY <3>1, <3>2
  <2>6. Is(h, j)
    BY <2>4, <2>5 DEF ScoresSoFar, start, base
  <2> HIDE DEF Is
  <2> QED BY <2>6
<1>3. Len(ps) \in P
  <2> HIDE DEF P
  <2>1. 0 \in Int /\ Len(ps) \in Int
    OBVIOUS
  <2>2. \A k \in 0 .. Len(ps) : k \in P
    BY <1>1, <1>2, <2>1, IntervalInduction
  <2> QED BY <2>2
<1> QED BY <1>3

LEMMA ScoresUnfold ==
    ASSUME NEW ps, NEW blocked, NEW topology, NEW sched, Len(ps) \in Nat
    PROVE  LET u    == ScoresUpTo(ps, blocked, topology, sched)
               base == EvaluateJ(ps, blocked, topology, sched, Idle)
           IN  /\ u[0] = [scores |-> <<>>, sched |-> base.sched]
               /\ \A k \in 1 .. Len(ps) :
                     u[k] = Scored(u[k - 1], ps, blocked, topology, base, k)
<1> DEFINE Is(u) == ScoresSoFar(u, ps, blocked, topology, sched, Len(ps))
           base  == EvaluateJ(ps, blocked, topology, sched, Idle)
           u     == CHOOSE x : Is(x)
<1>1. Is(u)
  <2>1. \E x : Is(x)
    BY ScoresExist
  <2> HIDE DEF Is
  <2> QED BY <2>1
<1>2. ScoresUpTo(ps, blocked, topology, sched) = u
  BY Zenon DEF ScoresUpTo, ScoresSoFar
<1> HIDE DEF u
<1>3. \A k \in 0 .. Len(ps) :
         u[k] = IF k = 0 THEN [scores |-> <<>>, sched |-> base.sched]
                ELSE Scored(u[k - 1], ps, blocked, topology, base, k)
  BY <1>1 DEF ScoresSoFar
<1>4. 0 \in 0 .. Len(ps) /\ \A k \in 1 .. Len(ps) : k \in 0 .. Len(ps) /\ k # 0
  OBVIOUS
<1> QED BY <1>2, <1>3, <1>4

\* Without dependencies every score is 0.
LEMMA ScoresWithoutDependencies ==
    ASSUME NEW ps \in Copies, policy \in OraclePolicies, NEW sched \in SchedulerStates
    PROVE  \A i \in 1 .. NumProcs : ScoresUpTo(ps, {}, {}, sched)[Len(ps)].scores[i] = 0
<1> DEFINE u    == ScoresUpTo(ps, {}, {}, sched)
           base == EvaluateJ(ps, {}, {}, sched, Idle)
           OK(s, k) == /\ s \in [scores : Seq({0}), sched : SchedulerStates]
                       /\ Len(s.scores) = k
           P == {k \in 0 .. NumProcs : OK(u[k], k)}
<1>0. NumProcs \in Nat /\ Len(ps) = NumProcs
  BY CopiesTyped, OnlineMetricsAssumption
<1>1. /\ u[0] = [scores |-> <<>>, sched |-> base.sched]
      /\ \A k \in 1 .. NumProcs : u[k] = Scored(u[k - 1], ps, {}, {}, base, k)
  BY <1>0, ScoresUnfold
<1>2. Idle \in 0 .. NumProcs
  BY <1>0 DEF Idle
<1>3. base.sched \in SchedulerStates
  BY <1>2, LookAheadsAgree
<1> HIDE DEF u
<1>4. 0 \in P
  <2>1. <<>> \in Seq({0}) /\ Len(<<>>) = 0 /\ 0 \in 0 .. NumProcs
    BY <1>0
  <2> HIDE DEF base
  <2>2. OK(u[0], 0)
    BY <1>1, <1>3, <2>1
  <2> QED BY <2>1, <2>2
<1>5. ASSUME NEW k \in 0 + 1 .. NumProcs, k - 1 \in P PROVE k \in P
  <2> DEFINE s == u[k - 1]
             forced == EvaluateJ(ps, {}, {}, s.sched, k)
  <2>1. OK(s, k - 1) /\ k \in 1 .. NumProcs /\ k \in 0 .. NumProcs
    BY <1>0, <1>5
  <2>2. u[k] = Scored(s, ps, {}, {}, base, k)
    BY <1>1, <2>1
  <2> HIDE DEF s
  <2>3. ASSUME CanRun(ps, {}, k)
        PROVE  forced.sched \in SchedulerStates /\ base.total - forced.total = 0
    <3>1. s.sched \in SchedulerStates
      BY <2>1
    <3>2. base.total = forced.total /\ base.total \in Int /\ forced.sched \in SchedulerStates
      BY <1>2, <2>1, <2>3, <3>1, LookAheadsAgree
    <3> QED BY <3>2
  <2> DEFINE next == IF CanRun(ps, {}, k) THEN forced.sched ELSE s.sched
  <2>4. u[k] = [scores |-> Append(s.scores, 0), sched |-> next]
    <3>1. CASE CanRun(ps, {}, k)
      <4>1. u[k] = [scores |-> Append(s.scores, base.total - forced.total),
                    sched |-> forced.sched]
        BY <2>2, <3>1 DEF Scored
      <4> HIDE DEF base, forced
      <4> QED BY <2>3, <3>1, <4>1
    <3>2. CASE ~CanRun(ps, {}, k)
      <4>1. u[k] = [s EXCEPT !.scores = Append(@, 0)]
        BY <2>2, <3>2 DEF Scored
      <4> QED BY <2>1, <3>2, <4>1
    <3> QED BY <3>1, <3>2
  <2>5. next \in SchedulerStates
    BY <2>1, <2>3
  <2>6. s.scores \in Seq({0}) /\ Len(s.scores) = k - 1
    BY <2>1
  <2>7. Append(s.scores, 0) \in Seq({0}) /\ Len(Append(s.scores, 0)) = k
    BY <2>6
  <2> HIDE DEF next
  <2>8. OK(u[k], k)
    BY <2>4, <2>5, <2>7
  <2> QED BY <2>1, <2>8
<1>6. NumProcs \in P
  <2> HIDE DEF P
  <2>1. 0 \in Int /\ NumProcs \in Int
    BY <1>0
  <2>2. \A k \in 0 .. NumProcs : k \in P
    BY <1>4, <1>5, <2>1, IntervalInduction
  <2> QED BY <1>0, <2>2
<1>7. u[NumProcs].scores \in Seq({0}) /\ Len(u[NumProcs].scores) = NumProcs
  BY <1>6
<1>8. \A i \in 1 .. NumProcs : u[NumProcs].scores[i] \in {0}
  BY <1>7
<1> QED BY <1>0, <1>8 DEF u

LookAheadFields == {"procs", "blocked", "sched", "tick", "total", "ended"}

\* A policy without state looks ahead with the state it was given.
LEMMA StatelessTurns ==
    ASSUME NEW l, DOMAIN l = LookAheadFields, l.tick \in Nat, l.ended \in BOOLEAN,
           NEW topology, NEW forced, policy \in {"fcfs", "gsq"}
    PROVE  LET m == LookAhead(l, topology, forced)
           IN  /\ DOMAIN m = LookAheadFields /\ m.tick \in Nat /\ m.ended \in BOOLEAN
               /\ m.sched = l.sched
               /\ m.ended \/ m.tick > 0
<1> DEFINE i == IF Forces(l, forced) THEN forced ELSE OracleChoice(l.procs, l.blocked, l.sched)
           k == [l EXCEPT !.sched = l.sched]
           m == LookAhead(l, topology, forced)
<1>1. SchedulerAfter(l.procs, l.sched) = l.sched
  BY DEF SchedulerAfter
<1>2. \/ l.ended /\ m = l
      \/ m = [l EXCEPT !.ended = TRUE, !.total = Invalid]
      \/ m = [l EXCEPT !.ended = TRUE, !.sched = l.sched]
      \/ m = Serve(k, topology, i)
  BY <1>1 DEF LookAhead
<1> HIDE DEF i, m
<1>3. CASE m = Serve(k, topology, i)
  <2> PICK procs, blocked, total : m = [k EXCEPT !.procs = procs, !.blocked = blocked,
                                           !.total = total, !.tick = @ + 1]
    BY <1>3 DEF Serve
  <2>1. DOMAIN k = LookAheadFields /\ k.sched = l.sched /\ k.tick = l.tick /\ k.ended = l.ended
    BY DEF LookAheadFields
  <2> HIDE DEF k
  <2>2. DOMAIN m = LookAheadFields /\ m.sched = l.sched /\ m.tick = l.tick + 1 /\ m.ended = l.ended
    BY <2>1 DEF LookAheadFields
  <2> QED BY <2>2 DEF m
<1>4. CASE m = [l EXCEPT !.ended = TRUE, !.total = Invalid]
  BY <1>4 DEF LookAheadFields, m
<1>5. CASE m = [l EXCEPT !.ended = TRUE, !.sched = l.sched]
  BY <1>5 DEF LookAheadFields, m
<1> QED BY <1>2, <1>3, <1>4, <1>5 DEF m

\* Its own first move, forced or not, starts the same look-ahead.
LEMMA OwnMoveChangesNothing ==
    ASSUME NEW ps, NEW blocked, NEW topology, NEW sched, policy \in {"fcfs", "gsq"}, NEW forced,
           forced # Idle => forced = OracleChoice(ps, blocked, sched) /\ CanRun(ps, blocked, forced)
    PROVE  /\ EvaluateJ(ps, blocked, topology, sched, forced).total
                 = EvaluateJ(ps, blocked, topology, sched, Idle).total
<1> DEFINE g == Turns(ps, blocked, topology, sched, Idle)
           h == Turns(ps, blocked, topology, sched, forced)
           OK(l, m) == /\ DOMAIN l = LookAheadFields /\ l.tick \in Nat /\ l.ended \in BOOLEAN
                       /\ l.ended \/ l.tick > 0
                       /\ l = m
           P == {n \in 1 .. Safety : OK(g[n], h[n])}
           start == Copied(ps, blocked, sched)
<1>0. Safety \in Nat
  BY OracleAssumption
<1>1. g[0] = start /\ \A n \in 1 .. Safety : g[n] = LookAhead(g[n - 1], topology, Idle)
  BY TurnsUnfold
<1>2. h[0] = start /\ \A n \in 1 .. Safety : h[n] = LookAhead(h[n - 1], topology, forced)
  BY TurnsUnfold
<1> HIDE DEF g, h
<1>3. /\ DOMAIN start = LookAheadFields /\ start.tick = 0 /\ start.ended = FALSE
      /\ start.procs = ps /\ start.blocked = blocked /\ start.sched = sched
  BY DEF Copied, LookAheadFields
<1>4. LookAhead(start, topology, forced) = LookAhead(start, topology, Idle)
  <2>1. CASE forced = Idle
    BY <2>1
  <2>2. CASE forced # Idle
    <3>1. Forces(start, forced) /\ ~Forces(start, Idle)
      BY <1>3, <2>2 DEF Forces
    <3>2. SchedulerAfter(start.procs, start.sched) = start.sched
      BY DEF SchedulerAfter
    <3>3. forced = OracleChoice(start.procs, start.blocked, start.sched)
          /\ CanRun(start.procs, start.blocked, forced)
      BY <1>3, <2>2
    <3> HIDE DEF start
    <3> QED BY <1>3, <2>2, <3>1, <3>2, <3>3 DEF LookAhead
  <2> QED BY <2>1, <2>2
<1>5. ASSUME Safety # 0 PROVE 1 \in P
  <2>1. 1 \in 1 .. Safety /\ 1 - 1 = 0
    BY <1>0, <1>5
  <2>2. g[1] = LookAhead(start, topology, Idle) /\ h[1] = g[1]
    BY <1>1, <1>2, <1>4, <2>1
  <2>3. OK(g[1], h[1])
    <3> HIDE DEF start
    <3>1. DOMAIN start = LookAheadFields /\ start.tick \in Nat /\ start.ended \in BOOLEAN
      <4>1. 0 \in Nat /\ FALSE \in BOOLEAN
        OBVIOUS
      <4> QED BY <1>3, <4>1, Zenon
    <3> DEFINE m == LookAhead(start, topology, Idle)
    <3>2. /\ DOMAIN m = LookAheadFields /\ m.tick \in Nat /\ m.ended \in BOOLEAN
          /\ m.ended \/ m.tick > 0
      BY <3>1, StatelessTurns
    <3> HIDE DEF m
    <3>3. g[1] = m /\ h[1] = m
      BY <2>2 DEF m
    <3> QED BY <3>2, <3>3
  <2> QED BY <2>1, <2>3
<1>6. ASSUME NEW n \in 1 + 1 .. Safety, n - 1 \in P PROVE n \in P
  <2> DEFINE l == g[n - 1]
  <2>1. n \in 1 .. Safety
    BY <1>0
  <2>2. g[n] = LookAhead(l, topology, Idle) /\ h[n] = LookAhead(l, topology, forced)
    BY <1>1, <1>2, <1>6, <2>1
  <2>3. OK(l, l)
    BY <1>6
  <2> HIDE DEF l
  <2>4. LookAhead(l, topology, forced) = LookAhead(l, topology, Idle)
    <3>1. CASE l.ended
      BY <3>1 DEF LookAhead
    <3>2. CASE ~l.ended
      <4>1. ~Forces(l, forced) /\ ~Forces(l, Idle)
        BY <2>3, <3>2 DEF Forces
      <4> QED BY <4>1 DEF LookAhead
    <3> QED BY <3>1, <3>2
  <2>5. OK(g[n], h[n])
    BY <2>2, <2>3, <2>4, StatelessTurns
  <2> QED BY <2>1, <2>5
<1>7. g[Safety].total = h[Safety].total
  <2>1. CASE Safety = 0
    BY <1>1, <1>2, <2>1
  <2>2. CASE Safety # 0
    <3> HIDE DEF P
    <3>1. 1 \in Int /\ Safety \in Int /\ Safety \in 1 .. Safety
      BY <1>0, <2>2
    <3>2. \A n \in 1 .. Safety : n \in P
      BY <1>5, <1>6, <2>2, <3>1, IntervalInduction
    <3>3. Safety \in P
      BY <3>1, <3>2
    <3> QED BY <3>3 DEF P
  <2> QED BY <2>1, <2>2
<1> QED BY <1>7 DEF EvaluateJ, g, h

LEMMA StatelessEvaluation ==
    ASSUME NEW ps, NEW blocked, NEW topology, NEW sched, policy \in {"fcfs", "gsq"}, NEW forced
    PROVE  EvaluateJ(ps, blocked, topology, sched, forced).sched = sched
<1> DEFINE h == Turns(ps, blocked, topology, sched, forced)
           OK(l) == /\ DOMAIN l = LookAheadFields /\ l.tick \in Nat /\ l.ended \in BOOLEAN
                    /\ l.sched = sched
           P == {n \in 0 .. Safety : OK(h[n])}
<1>0. Safety \in Nat
  BY OracleAssumption
<1>1. /\ h[0] = Copied(ps, blocked, sched)
      /\ \A n \in 1 .. Safety : h[n] = LookAhead(h[n - 1], topology, forced)
  BY TurnsUnfold
<1> HIDE DEF h
<1>2. 0 \in P
  <2>1. OK(Copied(ps, blocked, sched))
    BY DEF Copied, LookAheadFields
  <2> HIDE DEF OK
  <2> QED BY <1>0, <1>1, <2>1
<1>3. ASSUME NEW n \in 0 + 1 .. Safety, n - 1 \in P PROVE n \in P
  <2>1. n \in 1 .. Safety /\ n \in 0 .. Safety
    BY <1>0
  <2>2. h[n] = LookAhead(h[n - 1], topology, forced) /\ OK(h[n - 1])
    BY <1>1, <1>3, <2>1
  <2>3. OK(h[n])
    BY <2>2, StatelessTurns
  <2> QED BY <2>1, <2>3
<1>4. Safety \in P
  <2> HIDE DEF P
  <2>1. 0 \in Int /\ Safety \in Int
    BY <1>0
  <2>2. \A n \in 0 .. Safety : n \in P
    BY <1>2, <1>3, <2>1, IntervalInduction
  <2> QED BY <1>0, <2>2
<1> QED BY <1>4 DEF EvaluateJ, h

\* Released services get a job each, so the copies stay well formed.
LEMMA WithArrivalsTyped ==
    ASSUME NEW ps \in Copies, NEW targets, NEW t \in Nat
    PROVE  WithArrivals(ps, targets, t) \in Copies
<1> DEFINE qs == WithArrivals(ps, targets, t)
<1>1. /\ DOMAIN ps = 1 .. NumProcs /\ NumProcs \in Nat
      /\ \A j \in 1 .. NumProcs : /\ ps[j] \in ProcessRecord
                                  /\ ps[j].queue_length = Len(ps[j].jobs)
  BY CopiesTyped, OnlineMetricsAssumption
<1>2. /\ qs = [j \in 1 .. NumProcs |-> qs[j]]
      /\ \A j \in 1 .. NumProcs : qs[j] = IF j \in targets THEN Arrival(ps[j], t) ELSE ps[j]
  BY <1>1 DEF WithArrivals
<1> HIDE DEF qs
<1>3. ASSUME NEW j \in 1 .. NumProcs
      PROVE  qs[j] \in ProcessRecord /\ qs[j].queue_length = Len(qs[j].jobs)
  <2>1. Arrival(ps[j], t) \in ProcessRecord
    BY <1>1, ArrivalTyped
  <2>2. /\ Arrival(ps[j], t).queue_length = ps[j].queue_length + 1
        /\ Arrival(ps[j], t).jobs = Append(ps[j].jobs, t) /\ ps[j].jobs \in Seq(Nat)
    BY <1>1 DEF Arrival, ProcessRecord
  <2>3. Len(Append(ps[j].jobs, t)) = Len(ps[j].jobs) + 1
    BY <2>2
  <2> QED BY <1>1, <1>2, <2>1, <2>2, <2>3
<1>4. qs \in Seq(ProcessRecord) /\ Len(qs) = NumProcs
  BY <1>1, <1>2, <1>3
<1> QED BY <1>3, <1>4 DEF Copies, qs

LEMMA LookAheadTyped ==
    ASSUME NEW l \in BlockedLookAheads, NEW topology, policy \in OraclePolicies
    PROVE  LookAhead(l, topology, Idle) \in BlockedLookAheads
<1> DEFINE i     == OracleChoice(l.procs, l.blocked, l.sched)
           after == SchedulerAfter(l.procs, l.sched)
           k     == [l EXCEPT !.sched = after]
           m     == LookAhead(l, topology, Idle)
<1>1. /\ l.procs \in Copies /\ l.blocked \in SUBSET (1 .. NumProcs) /\ l.sched \in SchedulerStates
      /\ l.tick \in Nat /\ l.total \in Int /\ l.ended \in BOOLEAN
  BY DEF BlockedLookAheads
<1>2. (i = Idle \/ i \in NonEmpty(l.procs)) /\ after \in SchedulerStates
  BY <1>1, OracleChoiceHonours
<1>3. /\ l.ended => m = l
      /\ ~l.ended /\ i = Idle => m = [l EXCEPT !.ended = TRUE, !.sched = after]
      /\ ~l.ended /\ i # Idle => m = Serve(k, topology, i)
  BY DEF LookAhead, Forces
<1>4. CASE ~l.ended /\ i # Idle
  <2> DEFINE lighter == [l.procs EXCEPT ![i] = Service(l.procs[i], l.tick)]
  <2>1. /\ k \in BlockedLookAheads /\ k.procs = l.procs /\ k.blocked = l.blocked /\ k.tick = l.tick
        /\ k.total = l.total
    BY <1>1, <1>2 DEF BlockedLookAheads
  <2>2. i \in NonEmpty(l.procs)
    BY <1>2, <1>4
  <2> HIDE DEF i, k
  <2>3. lighter \in Copies
    BY <1>1, <2>2, ServeTakesOne
  <2> HIDE DEF lighter
  <2> DEFINE released == IF k.procs[i].queue_length > 0 THEN Released(lighter, topology, i) ELSE {}
             procs == WithArrivals(lighter, released \ k.blocked, k.tick)
  <2>4. Serve(k, topology, i)
          = [k EXCEPT !.procs = procs, !.blocked = @ \ released,
                      !.total = @ + SumOver(procs, "queue_length"), !.tick = @ + 1]
    BY <2>1 DEF Serve, lighter
  <2>5. procs \in Copies
    <3> HIDE DEF released
    <3> QED BY <1>1, <2>1, <2>3, WithArrivalsTyped
  <2> HIDE DEF procs, released
  <2>6. Backlog(procs) \in Nat
    BY <2>5, BacklogType
  <2>7. /\ l.total + Backlog(procs) \in Int /\ l.tick + 1 \in Nat 
       /\ l.blocked \ released \in SUBSET (1 .. NumProcs)
    BY <1>1, <2>6
  <2>8. Serve(k, topology, i)
          = [k EXCEPT !.procs = procs, !.blocked = l.blocked \ released,
                      !.total = l.total + Backlog(procs), !.tick = l.tick + 1]
    BY <2>1, <2>4, <2>7 DEF Backlog
  <2>9. Serve(k, topology, i) \in BlockedLookAheads
    BY <2>1, <2>5, <2>7, <2>8 DEF BlockedLookAheads
  <2>10. m = Serve(k, topology, i)
    BY <1>3, <1>4 DEF i, k
  <2> HIDE DEF m
  <2> QED BY <2>9, <2>10 DEF m
<1>5. CASE ~l.ended /\ i = Idle
  <2>1. m = [l EXCEPT !.ended = TRUE, !.sched = after]
    BY <1>3, <1>5
  <2> HIDE DEF m, after
  <2> QED BY <1>1, <1>2, <2>1 DEF BlockedLookAheads, m
<1>6. CASE l.ended
  BY <1>3, <1>6
<1> QED BY <1>1, <1>4, <1>5, <1>6

LEMMA EvaluationTyped ==
    ASSUME NEW ps \in Copies, NEW blocked \in SUBSET (1 .. NumProcs), NEW topology, NEW sched \in SchedulerStates,
           policy \in OraclePolicies
    PROVE  EvaluateJ(ps, blocked, topology, sched, Idle) \in BlockedLookAheads
<1> DEFINE h == Turns(ps, blocked, topology, sched, Idle)
           P == {n \in 0 .. Safety : h[n] \in BlockedLookAheads}
<1>0. Safety \in Nat
  BY OracleAssumption
<1>1. /\ h[0] = Copied(ps, blocked, sched)
      /\ \A n \in 1 .. Safety : h[n] = LookAhead(h[n - 1], topology, Idle)
  BY TurnsUnfold
<1> HIDE DEF h
<1>2. 0 \in P
  <2>1. Copied(ps, blocked, sched) \in BlockedLookAheads
    BY DEF Copied, BlockedLookAheads
  <2> QED BY <1>0, <1>1, <2>1
<1>3. ASSUME NEW n \in 0 + 1 .. Safety, n - 1 \in P PROVE n \in P
  <2>1. n \in 1 .. Safety /\ n \in 0 .. Safety
    BY <1>0
  <2>2. h[n] = LookAhead(h[n - 1], topology, Idle) /\ h[n - 1] \in BlockedLookAheads
    BY <1>1, <1>3, <2>1
  <2> QED BY <2>1, <2>2, LookAheadTyped
<1>4. Safety \in P
  <2> HIDE DEF P
  <2>1. 0 \in Int /\ Safety \in Int
    BY <1>0
  <2>2. \A n \in 0 .. Safety : n \in P
    BY <1>2, <1>3, <2>1, IntervalInduction
  <2> QED BY <1>0, <2>2
<1> QED BY <1>4 DEF EvaluateJ, h

\* So it scores the process it serves anyway with 0.
LEMMA OwnScoreIsZero ==
    ASSUME NEW ps \in Copies, NEW blocked \in SUBSET (1 .. NumProcs), NEW topology, NEW sched \in SchedulerStates,
           policy \in {"fcfs", "gsq"}, NEW own, own # Idle, own = OracleChoice(ps, blocked, sched)
    PROVE  ScoresUpTo(ps, blocked, topology, sched)[Len(ps)].scores[own] = 0
<1> DEFINE u    == ScoresUpTo(ps, blocked, topology, sched)
           base == EvaluateJ(ps, blocked, topology, sched, Idle)
           N    == Len(ps)
           score(j) == base.total - EvaluateJ(ps, blocked, topology, sched, j).total
           S == {score(j) : j \in 1 .. N} \cup {0}
           OK(s, k) == /\ s \in [scores : Seq(S), sched : {sched}]
                       /\ Len(s.scores) = k
                       /\ own <= k => s.scores[own] = 0
           P == {k \in 0 .. N : OK(u[k], k)}
<1>0. Len(ps) \in Nat /\ own \in 1 .. Len(ps) 
  <2>1. Len(ps) = NumProcs /\ DOMAIN ps = 1 .. NumProcs
    BY CopiesTyped
  <2>2. own \in NonEmpty(ps)
    BY OracleChoiceHonours DEF OraclePolicies
  <2> QED BY <2>1, <2>2, OnlineMetricsAssumption DEF NonEmpty
<1>1. /\ u[0] = [scores |-> <<>>, sched |-> base.sched]
      /\ \A k \in 1 .. N : u[k] = Scored(u[k - 1], ps, blocked, topology, base, k)
  BY <1>0, ScoresUnfold
<1>2. ASSUME CanRun(ps, blocked, own) PROVE score(own) = 0
  <2>1. base.total = EvaluateJ(ps, blocked, topology, sched, own).total
    BY <1>2, OwnMoveChangesNothing
  <2>2. base \in BlockedLookAheads
    BY EvaluationTyped DEF OraclePolicies
  <2>3. base.total \in Int
    BY <2>2 DEF BlockedLookAheads
  <2> QED BY <2>1, <2>3
<1>3. base.sched = sched /\ \A j : EvaluateJ(ps, blocked, topology, sched, j).sched = sched
  BY StatelessEvaluation
<1> HIDE DEF u
<1>4. 0 \in P
  <2> HIDE DEF S
  <2>1. <<>> \in Seq(S) /\ Len(<<>>) = 0 /\ ~(own <= 0) /\ 0 \in 0 .. N
    BY <1>0
  <2> HIDE DEF base
  <2>2. OK(u[0], 0)
    BY <1>1, <1>3, <2>1
  <2> QED BY <2>2
<1>5. ASSUME NEW k \in 0 + 1 .. N, k - 1 \in P PROVE k \in P
  <2> DEFINE s == u[k - 1]
             e == IF CanRun(ps, blocked, k) THEN score(k) ELSE 0
  <2>1. OK(s, k - 1) /\ k \in 1 .. N /\ k \in 0 .. N
    BY <1>0, <1>5
  <2>2. u[k] = Scored(s, ps, blocked, topology, base, k)
    BY <1>1, <2>1
  <2> HIDE DEF s
  <2>3. e \in S
    BY <2>1
  <2>4. u[k] = [scores |-> Append(s.scores, e), sched |-> sched]
    <3>1. s.sched = sched
      BY <2>1
    <3>2. CASE CanRun(ps, blocked, k)
      BY <1>3, <2>2, <3>1, <3>2 DEF Scored
    <3>3. CASE ~CanRun(ps, blocked, k)
      <4>1. u[k] = [s EXCEPT !.scores = Append(@, 0)]
        BY <2>2, <3>3 DEF Scored
      <4> HIDE DEF S
      <4> QED BY <2>1, <3>1, <3>3, <4>1
    <3> QED BY <3>2, <3>3
  <2>5. k = own => e = 0
    BY <1>2
  <2> HIDE DEF S, e
  <2>6. s.scores \in Seq(S) /\ Len(s.scores) = k - 1 /\ (own <= k - 1 => s.scores[own] = 0)
    BY <2>1
  <2>7. /\ Append(s.scores, e) \in Seq(S) /\ Len(Append(s.scores, e)) = k
        /\ Append(s.scores, e)[k] = e
        /\ \A j \in 1 .. k - 1 : Append(s.scores, e)[j] = s.scores[j]
    BY <2>3, <2>6
  <2>8. own <= k => Append(s.scores, e)[own] = 0
    <3>1. own = k \/ own > k \/ own \in 1 .. k - 1
      BY <1>0, <2>1
    <3>2. own \in 1 .. k - 1 => own <= k - 1
      BY <1>0, <2>1
    <3>3. own > k => ~(own <= k)
      BY <1>0, <2>1
    <3> HIDE DEF P
    <3> QED BY <2>5, <2>6, <2>7, <3>1, <3>2, <3>3
  <2> DEFINE scores == Append(s.scores, e)
  <2>9. OK(u[k], k)
    <3>1. scores \in Seq(S) /\ Len(scores) = k /\ (own <= k => scores[own] = 0)
      BY <2>7, <2>8
    <3>2. u[k] = [scores |-> scores, sched |-> sched]
      BY <2>4
    <3> HIDE DEF scores
    <3> QED BY <3>1, <3>2
  <2> QED BY <2>1, <2>9
<1>6. N \in P
  <2> HIDE DEF P
  <2>1. 0 \in Int /\ N \in Int /\ N \in 0 .. N
    BY <1>0
  <2>2. \A k \in 0 .. N : k \in P
    <3> HIDE DEF N
    <3> QED BY <1>4, <1>5, <2>1, IntervalInduction
  <2> QED BY <2>1, <2>2
<1>7. own <= N
  BY <1>0
<1> QED BY <1>6, <1>7 DEF u

(***************************************************************************)
(* The oracle scores say nothing without dependencies, whatever state the  *)
(* shared scheduler carries from one evaluation into the next, and score   *)
(* the own move of a policy without state with 0, for any dependencies and *)
(* any bound on the look-ahead (compute_oracle_embi).                      *)
(***************************************************************************)
THEOREM OracleScoresOnlySwaps == PolicySpec => []OracleScoresSwaps
<1>1. PolicyInv => OracleScoresSwaps
  <2> SUFFICES ASSUME PolicyInv, policy \in OraclePolicies
               PROVE  /\ \A i \in DOMAIN processes : OracleScores({}, {})[i] = 0
                      /\ policy \in {"fcfs", "gsq"} =>
                            \A topology \in Topologies, blocked \in SUBSET DOMAIN processes :
                               LET own == OracleChoice(processes, blocked, [index |-> index])
                               IN  own # Idle => OracleScores(blocked, topology)[own] = 0
    BY DEF OracleScoresSwaps, OraclePolicies
  <2> DEFINE sched == [index |-> index, vruntimes |-> vruntimes]
  <2>1. /\ processes \in Seq(ProcessRecord) /\ Len(processes) = NumProcs
        /\ DOMAIN processes = 1 .. NumProcs
    BY OnlineMetricsAssumption DEF PolicyInv, RegistryInv, TypeOK
  <2>2. processes \in Copies
    BY <2>1 DEF PolicyInv, AllSound, Sound, JobsConsistent, Copies
  <2>3. sched \in SchedulerStates
    BY <2>1 DEF PolicyInv, SchedulerStates
  <2>4. \A blocked, topology :
           OracleScores(blocked, topology)
              = ScoresUpTo(processes, blocked, topology, sched)[Len(processes)].scores
    BY DEF OracleScores
  <2>5. \A i \in DOMAIN processes : OracleScores({}, {})[i] = 0
    <3> HIDE DEF sched
    <3> QED BY <2>1, <2>2, <2>3, <2>4, ScoresWithoutDependencies
  <2>6. ASSUME policy \in {"fcfs", "gsq"}, NEW topology \in Topologies,
               NEW blocked \in SUBSET DOMAIN processes, NEW own, own # Idle,
               own = OracleChoice(processes, blocked, [index |-> index])
        PROVE  OracleScores(blocked, topology)[own] = 0
    <3>1. own = OracleChoice(processes, blocked, sched)
      BY <2>6 DEF OracleChoice
    <3> HIDE DEF sched
    <3> QED BY <2>1, <2>2, <2>3, <2>4, <2>6, <3>1, OwnScoreIsZero
  <2> QED BY <2>5, <2>6
<1>2. PolicyInv /\ [PolicyNext]_policyLoopVars => PolicyInv'
  BY PolicyInvStep
<1> QED BY <1>1, <1>2, InitPolicy, PTL DEF PolicySpec

=============================================================================
