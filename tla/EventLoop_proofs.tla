-------------------------- MODULE EventLoop_proofs --------------------------
(***************************************************************************)
(* Proofs about EventLoop for every workload: locks, types, the registry   *)
(* of services, the job queues, the accounting of jobs, the debts.  They   *)
(* hold for every scheduler that honours Decisions and any number of       *)
(* locks, processes, ticks and events per tick.                            *)
(***************************************************************************)
EXTENDS EventLoop, Sums_proofs

-----------------------------------------------------------------------------
(* Sequences.                                                              *)

LEMMA UpdateTyped ==
    ASSUME NEW S, NEW v \in Seq(S), NEW i, NEW x
    PROVE  /\ [v EXCEPT ![i] = x] \in Seq(S \cup {x})
           /\ Len([v EXCEPT ![i] = x]) = Len(v)
<1>1. v \in [1 .. Len(v) -> S \cup {x}] /\ Len(v) \in Nat
  OBVIOUS
<1>2. [v EXCEPT ![i] = x] \in [1 .. Len(v) -> S \cup {x}]
  BY <1>1
<1> QED BY <1>1, <1>2

COROLLARY ReplaceTyped ==
    ASSUME NEW S, NEW v \in Seq(S), NEW i, NEW x \in S
    PROVE  /\ [v EXCEPT ![i] = x] \in Seq(S)
           /\ Len([v EXCEPT ![i] = x]) = Len(v)
<1>1. S \cup {x} = S
  OBVIOUS
<1> QED BY <1>1, UpdateTyped

-----------------------------------------------------------------------------
(* The methods of a process keep its record well formed.                   *)

LEMMA NewProcessTyped ==
    ASSUME NEW raw \in Nat
    PROVE  NewProcess(raw) \in ProcessRecord
  BY DEF NewProcess, ProcessRecord

LEMMA ArrivalTyped ==
    ASSUME NEW p \in ProcessRecord, NEW t \in Nat
    PROVE  Arrival(p, t) \in ProcessRecord
<1>1. p.queue_length + 1 \in Int /\ p.arrival_count + 1 \in Nat
  BY DEF ProcessRecord
<1>2. Append(p.jobs, t) \in Seq(Nat)
  BY DEF ProcessRecord
<1>3. \A n \in Int, m \in Nat, js \in Seq(Nat) :
         [p EXCEPT !.queue_length = n, !.arrival_count = m, !.jobs = js] \in ProcessRecord
  BY DEF ProcessRecord
<1> QED BY <1>1, <1>2, <1>3 DEF Arrival

LEMMA WaitingTimeTyped ==
    ASSUME NEW a \in Nat, NEW t \in Nat
    PROVE  WaitingTime(a, t) \in Nat
  BY DEF WaitingTime

LEMMA ServiceTyped ==
    ASSUME NEW p \in ProcessRecord, NEW t \in Nat
    PROVE  Service(p, t) \in ProcessRecord
<1>1. CASE HasJob(p)
  <2>1. p.jobs \in Seq(Nat) /\ p.jobs # <<>>
    BY <1>1 DEF HasJob, ProcessRecord
  <2>2. Head(p.jobs) \in Nat /\ Tail(p.jobs) \in Seq(Nat)
    BY <2>1
  <2>3. WaitingTime(Head(p.jobs), t) \in Nat
    BY <2>2, WaitingTimeTyped
  <2>4. /\ p.queue_length - 1 \in Int /\ p.completed_jobs + 1 \in Nat
        /\ p.total_waiting_time + WaitingTime(Head(p.jobs), t) \in Nat
    BY <2>3 DEF ProcessRecord
  <2>5. \A js \in Seq(Nat), n \in Int, c \in Nat, w \in Nat, at \in Int :
           [p EXCEPT !.jobs                     = js,
                     !.queue_length             = n,
                     !.completed_jobs           = c,
                     !.total_waiting_time       = w,
                     !.last_service_time        = at,
                     !.ticks_since_last_service = 0] \in ProcessRecord
    BY DEF ProcessRecord
  <2>6. t \in Int
    OBVIOUS
  <2> QED BY <1>1, <2>2, <2>4, <2>5, <2>6 DEF Service
<1>2. CASE ~HasJob(p)
  BY <1>2 DEF Service
<1> QED BY <1>1, <1>2

LEMMA TickIdleTyped ==
    ASSUME NEW p \in ProcessRecord
    PROVE  TickIdle(p) \in ProcessRecord
<1>1. /\ p.ticks_since_last_service + 1 \in Nat
      /\ p.max_starvation_ticks \in Nat
      /\ p.starvation_events \in Nat /\ p.starvation_events + 1 \in Nat
  BY DEF ProcessRecord
<1>2. \A n \in Nat, m \in Nat, s \in Nat :
         [p EXCEPT !.ticks_since_last_service = n,
                   !.max_starvation_ticks     = m,
                   !.starvation_events        = s] \in ProcessRecord
  BY DEF ProcessRecord
<1> QED BY <1>1, <1>2 DEF TickIdle

LEMMA WarmupResetTyped ==
    ASSUME NEW p \in ProcessRecord
    PROVE  WarmupReset(p) \in ProcessRecord
  BY DEF WarmupReset, ProcessRecord

-----------------------------------------------------------------------------
(* The job queue of one process.                                           *)

JobsConsistent(p, now) ==
    /\ p.queue_length = Len(p.jobs)
    /\ \A k \in DOMAIN p.jobs : p.jobs[k] <= now
    /\ \A k, m \in DOMAIN p.jobs : k <= m => p.jobs[k] <= p.jobs[m]

Balanced(p, c) == p.arrival_count + c = p.completed_jobs + p.queue_length

Sound(p, c, now) == JobsConsistent(p, now) /\ Balanced(p, c)

LEMMA NewProcessSound ==
    ASSUME NEW raw, NEW now \in Nat PROVE Sound(NewProcess(raw), 0, now)
  BY DEF Sound, JobsConsistent, Balanced, NewProcess

LEMMA ArrivalSound ==
    ASSUME NEW p \in ProcessRecord, NEW c \in Int, NEW now \in Nat, Sound(p, c, now)
    PROVE  Sound(Arrival(p, now), c, now)
<1> DEFINE js == p.jobs
<1>1. /\ js \in Seq(Nat) /\ p.queue_length \in Int
      /\ p.arrival_count \in Nat /\ p.completed_jobs \in Nat
  BY DEF ProcessRecord
<1>2. /\ Arrival(p, now).queue_length = p.queue_length + 1
      /\ Arrival(p, now).arrival_count = p.arrival_count + 1
      /\ Arrival(p, now).completed_jobs = p.completed_jobs
      /\ Arrival(p, now).jobs = Append(js, now)
  BY DEF Arrival, ProcessRecord
<1>3. /\ p.queue_length = Len(js) /\ \A k \in DOMAIN js : js[k] <= now
      /\ \A k, m \in DOMAIN js : k <= m => js[k] <= js[m]
  BY DEF Sound, JobsConsistent
<1> HIDE DEF js
<1>4. JobsConsistent(Arrival(p, now), now)
  BY <1>1, <1>2, <1>3 DEF JobsConsistent
<1>5. Balanced(Arrival(p, now), c)
  <2>1. p.arrival_count + c = p.completed_jobs + p.queue_length
    BY DEF Sound, Balanced
  <2>2. (p.arrival_count + 1) + c = p.completed_jobs + (p.queue_length + 1)
    <3> DEFINE a == p.arrival_count
               d == p.completed_jobs
               q == p.queue_length
    <3>1. a \in Int /\ d \in Int /\ q \in Int /\ a + c = d + q
      BY <1>1, <2>1
    <3> HIDE DEF a, d, q
    <3>2. (a + 1) + c = d + (q + 1)
      BY <3>1
    <3> QED BY <3>2 DEF a, d, q
  <2> QED BY <1>2, <2>2 DEF Balanced
<1> QED BY <1>4, <1>5 DEF Sound

LEMMA ServiceSound ==
    ASSUME NEW p \in ProcessRecord, NEW c \in Int, NEW now \in Nat, NEW at,
           Sound(p, c, now)
    PROVE  Sound(Service(p, at), c, now)
<1>1. CASE ~HasJob(p)
  BY <1>1 DEF Service
<1>2. CASE HasJob(p)
  <2> DEFINE js == p.jobs
  <2>1. /\ js \in Seq(Nat) /\ js # <<>> /\ p.queue_length \in Int
        /\ p.arrival_count \in Nat /\ p.completed_jobs \in Nat
    BY <1>2 DEF ProcessRecord, HasJob
  <2>2. /\ Service(p, at).queue_length = p.queue_length - 1
        /\ Service(p, at).arrival_count = p.arrival_count
        /\ Service(p, at).completed_jobs = p.completed_jobs + 1
        /\ Service(p, at).jobs = Tail(js)
    BY <1>2 DEF Service, ProcessRecord
  <2>3. /\ p.queue_length = Len(js) /\ \A k \in DOMAIN js : js[k] <= now
        /\ \A k, m \in DOMAIN js : k <= m => js[k] <= js[m]
    BY DEF Sound, JobsConsistent
  <2> HIDE DEF js
  <2>4. /\ Len(Tail(js)) = Len(js) - 1
        /\ \A k \in DOMAIN Tail(js) : k + 1 \in DOMAIN js /\ Tail(js)[k] = js[k + 1]
    BY <2>1
  <2>5. JobsConsistent(Service(p, at), now)
    BY <2>1, <2>2, <2>3, <2>4 DEF JobsConsistent
  <2>6. Balanced(Service(p, at), c)
    <3>1. p.arrival_count + c = p.completed_jobs + p.queue_length
      BY DEF Sound, Balanced
    <3>2. p.arrival_count + c = (p.completed_jobs + 1) + (p.queue_length - 1)
      <4> DEFINE a == p.arrival_count
                 d == p.completed_jobs
                 q == p.queue_length
      <4>1. a \in Int /\ d \in Int /\ q \in Int /\ a + c = d + q
        BY <2>1, <3>1
      <4> HIDE DEF a, d, q
      <4>2. a + c = (d + 1) + (q - 1)
        BY <4>1
      <4> QED BY <4>2 DEF a, d, q
    <3> QED BY <2>2, <3>2 DEF Balanced
  <2> QED BY <2>5, <2>6 DEF Sound
<1> QED BY <1>1, <1>2

LEMMA TickIdleSound ==
    ASSUME NEW p \in ProcessRecord, NEW c, NEW now, Sound(p, c, now)
    PROVE  Sound(TickIdle(p), c, now)
<1>1. /\ TickIdle(p).queue_length = p.queue_length
      /\ TickIdle(p).arrival_count = p.arrival_count
      /\ TickIdle(p).completed_jobs = p.completed_jobs
      /\ TickIdle(p).jobs = p.jobs
  BY DEF TickIdle, ProcessRecord
<1> QED BY <1>1 DEF Sound, JobsConsistent, Balanced

LEMMA WarmupResetSound ==
    ASSUME NEW p \in ProcessRecord, NEW c, NEW now, Sound(p, c, now)
    PROVE  Sound(WarmupReset(p), p.queue_length, now)
<1>1. /\ WarmupReset(p).queue_length = p.queue_length
      /\ WarmupReset(p).arrival_count = 0
      /\ WarmupReset(p).completed_jobs = 0
      /\ WarmupReset(p).jobs = p.jobs
      /\ p.queue_length \in Int
  BY DEF WarmupReset, ProcessRecord
<1> QED BY <1>1 DEF Sound, JobsConsistent, Balanced

LEMMA LaterSound ==
    ASSUME NEW p \in ProcessRecord, NEW c, NEW now \in Nat, Sound(p, c, now)
    PROVE  Sound(p, c, now + 1)
<1>1. \A k \in DOMAIN p.jobs : p.jobs[k] \in Nat
  BY DEF ProcessRecord
<1> QED BY <1>1 DEF Sound, JobsConsistent, Balanced

\* service() called k times: the records after each call.
LEMMA ServiceTimesSteps ==
    ASSUME NEW p, NEW t, NEW k \in Nat
    PROVE  \E after : /\ ServiceTimes(p, t, k) = after[k]
                      /\ after[0] = p
                      /\ \A n \in 0 .. k - 1 : after[n + 1] = Service(after[n], t)
<1> DEFINE Calls(g, m) == g = [n \in 0 .. m |-> IF n = 0 THEN p ELSE Service(g[n - 1], t)]
           P    == {m \in Nat : \E g : Calls(g, m)}
           iter == CHOOSE g : Calls(g, k)
<1>1. 0 \in P
  <2>1. Calls([n \in 0 .. 0 |-> p], 0)
    OBVIOUS
  <2> HIDE DEF Calls
  <2> QED BY <2>1
<1>2. ASSUME NEW m \in Nat, m \in P PROVE m + 1 \in P
  <2> PICK g : Calls(g, m)
    BY <1>2
  <2> DEFINE h == [n \in 0 .. m + 1 |-> IF n = m + 1 THEN Service(g[m], t) ELSE g[n]]
  <2>1. \A n \in 0 .. m : g[n] = IF n = 0 THEN p ELSE Service(g[n - 1], t)
    OBVIOUS
  <2>2. ASSUME NEW n \in 0 .. m + 1
        PROVE  h[n] = IF n = 0 THEN p ELSE Service(h[n - 1], t)
    <3>1. CASE n = m + 1
      <4>1. n # 0 /\ n - 1 = m /\ m \in 0 .. m + 1 /\ m # m + 1
        BY <3>1
      <4>2. h[n] = Service(g[m], t) /\ h[m] = g[m]
        BY <3>1, <4>1
      <4> HIDE DEF h
      <4> QED BY <4>1, <4>2
    <3>2. CASE n \in 0 .. m
      <4>1. h[n] = g[n]
        BY <3>2
      <4>2. n # 0 => h[n - 1] = g[n - 1]
        BY <3>2
      <4> HIDE DEF h
      <4> QED BY <2>1, <3>2, <4>1, <4>2
    <3> QED BY <3>1, <3>2
  <2>3. h = [n \in 0 .. m + 1 |-> h[n]]
    OBVIOUS
  <2> HIDE DEF h
  <2>4. Calls(h, m + 1)
    BY <2>2, <2>3
  <2> HIDE DEF Calls
  <2> QED BY <2>4
<1>3. \E g : Calls(g, k)
  <2> HIDE DEF Calls
  <2>1. \A m \in Nat : m \in P
    <3> HIDE DEF P
    <3> QED BY <1>1, <1>2, NatSetInduction
  <2> QED BY <2>1
<1>4. Calls(iter, k)
  <2> HIDE DEF Calls
  <2> QED BY <1>3
<1>5. ServiceTimes(p, t, k) = iter[k]
  BY DEF ServiceTimes
<1> HIDE DEF iter
<1>6. \A n \in 0 .. k : iter[n] = IF n = 0 THEN p ELSE Service(iter[n - 1], t)
  BY <1>4
<1>7. iter[0] = p /\ \A n \in 0 .. k - 1 : iter[n + 1] = Service(iter[n], t)
  <2>1. 0 \in 0 .. k
    OBVIOUS
  <2>2. \A n \in 0 .. k - 1 : n + 1 \in 0 .. k /\ n + 1 # 0 /\ (n + 1) - 1 = n
    OBVIOUS
  <2> QED BY <1>6, <2>1, <2>2
<1> QED BY <1>5, <1>7

LEMMA ServiceKeeps ==
    ASSUME NEW p \in ProcessRecord, NEW t
    PROVE  /\ Service(p, t).id = p.id
           /\ Service(p, t).arrival_count = p.arrival_count
  BY DEF Service, ProcessRecord

\* What one call of service() preserves, any number of calls preserve.
LEMMA ServiceTimesKeeps ==
    ASSUME NEW p \in ProcessRecord, NEW t \in Nat, NEW k \in Nat
    PROVE  LET q == ServiceTimes(p, t, k)
           IN  /\ q \in ProcessRecord
               /\ q.id = p.id /\ q.arrival_count = p.arrival_count
               /\ \A c \in Int, now \in Nat : Sound(p, c, now) => Sound(q, c, now)
<1> PICK after : /\ ServiceTimes(p, t, k) = after[k]
                 /\ after[0] = p
                 /\ \A n \in 0 .. k - 1 : after[n + 1] = Service(after[n], t)
  BY ServiceTimesSteps
<1> DEFINE Kept(q) == /\ q \in ProcessRecord
                      /\ q.id = p.id /\ q.arrival_count = p.arrival_count
                      /\ \A c \in Int, now \in Nat : Sound(p, c, now) => Sound(q, c, now)
           P == {n \in Nat : n <= k => Kept(after[n])}
<1>1. 0 \in P
  OBVIOUS
<1>2. ASSUME NEW n \in Nat, n \in P PROVE n + 1 \in P
  <2> SUFFICES ASSUME n + 1 <= k PROVE Kept(after[n + 1])
    OBVIOUS
  <2>1. n \in 0 .. k - 1 /\ Kept(after[n])
    BY <1>2
  <2>2. after[n + 1] = Service(after[n], t)
    BY <2>1
  <2>3. /\ after[n + 1] \in ProcessRecord
        /\ after[n + 1].id = p.id /\ after[n + 1].arrival_count = p.arrival_count
    <3>1. after[n] \in ProcessRecord
      BY <2>1
    <3>2. Service(after[n], t) \in ProcessRecord
      BY <3>1, ServiceTyped
    <3>3. /\ Service(after[n], t).id = after[n].id
          /\ Service(after[n], t).arrival_count = after[n].arrival_count
      BY <3>1, ServiceKeeps
    <3> QED BY <2>1, <2>2, <3>2, <3>3
  <2>4. ASSUME NEW c \in Int, NEW now \in Nat, Sound(p, c, now)
        PROVE  Sound(after[n + 1], c, now)
    BY <2>1, <2>2, <2>4, ServiceSound
  <2> QED BY <2>3, <2>4
<1>3. k \in P
  <2> HIDE DEF P
  <2>1. \A n \in Nat : n \in P
    BY <1>1, <1>2, NatSetInduction
  <2> QED BY <2>1
<1>4. Kept(after[k])
  BY <1>3
<1> QED BY <1>4

-----------------------------------------------------------------------------
(* Heaps.                                                                  *)

LEMMA EventTyped ==
    /\ ScheduleEvent \in Event /\ MetricsEvent \in Event
    /\ \A raw \in Services, cx \in BOOLEAN : ServiceEvent(raw, cx) \in Event
    /\ \A e \in Event : e.type \in {"Arrival", "LockAcquire", "LockRelease", "Service"}
                           => e.pid \in Services
  BY DEF Event, ScheduleEvent, MetricsEvent, ServiceEvent

LEMMA PushTyped ==
    ASSUME NEW q, IsHeap(q), NEW e \in Event
    PROVE  IsHeap(Push(q, e))
  BY DEF IsHeap, Push

LEMMA PushAllTyped ==
    ASSUME NEW q, IsHeap(q), NEW S, NEW batch \in BoundedSeq(S, MaxBatch)
    PROVE  IsHeap(PushAll(q, batch))
<1>1. PICK n \in 0 .. MaxBatch : batch \in [1 .. n -> S]
  BY DEF BoundedSeq, SeqOf
<1>2. ASSUME NEW e \in Event
      PROVE  Cardinality({k \in DOMAIN batch : batch[k] = e}) \in Nat
  <2>1. IsFiniteSet(1 .. n) /\ DOMAIN batch = 1 .. n
    BY <1>1, FS_Interval, EventLoopAssumption
  <2>2. {k \in DOMAIN batch : batch[k] = e} \in SUBSET (1 .. n)
    BY <2>1
  <2> QED BY <2>1, <2>2, FS_Subset, FS_CardinalityType
<1> QED BY <1>2 DEF IsHeap, PushAll

LEMMA PoppedTyped ==
    ASSUME NEW q, IsHeap(q), NEW e \in Tops(q)
    PROVE  IsHeap(Popped(q, e))
  BY DEF IsHeap, Tops, Popped

-----------------------------------------------------------------------------
(* Locks.                                                                  *)

(***************************************************************************)
(* The inductive invariant: HolderOwnsLock and the types it needs.  The    *)
(* contents of the process records play no part.                           *)
(***************************************************************************)
LockTypes ==
    /\ indexOf \in [Services -> Nat]
    /\ \E S : processes \in Seq(S)
    /\ lockState \in Seq(LockStates)
    /\ Len(lockState) = Len(processes)
    /\ LM!TypeOK

LockInv == LockTypes /\ HolderOwnsLock

\* A new index is a positive natural number, whether found or registered.
LEMMA RegisterIndex ==
    ASSUME NEW raw \in Services, NEW S, processes \in Seq(S),
           indexOf \in [Services -> Nat], Register(raw)
    PROVE  /\ indexOf' \in [Services -> Nat]
           /\ indexOf'[raw] \in Pids
  BY DEF Register, Known, Pids, NoPid

LEMMA LockStateTyped ==
    /\ NoLock \in LockStates /\ ~NoLock.holds_lock
    /\ \A l \in Locks, h \in HoldTimes : Holding(l, h) \in LockStates
  BY EventLoopAssumption DEF NoLock, Holding, LockStates

-----------------------------------------------------------------------------
(* One lemma per action that changes the registry or the locks.            *)

LEMMA InitLocks == Init => LockInv
<1> SUFFICES ASSUME Init PROVE LockInv
  OBVIOUS
<1>1. NumProcs \in Nat
  BY OnlineMetricsAssumption
<1>2. indexOf \in [Services -> Nat]
  BY EventLoopAssumption, EventQueueAssumption DEF Init, NoPid
<1>3. \E S : processes \in Seq(S)
  <2> DEFINE S == {NewProcess(i - 1) : i \in 1 .. NumProcs}
  <2>1. \A i \in 1 .. NumProcs : NewProcess(i - 1) \in S
    OBVIOUS
  <2> HIDE DEF S
  <2>2. processes \in [1 .. NumProcs -> S]
    BY <2>1 DEF Init
  <2>3. processes \in Seq(S)
    BY <1>1, <2>2
  <2> QED BY <2>3
<1>4. lockState \in Seq(LockStates) /\ Len(lockState) = Len(processes)
  BY <1>1, LockStateTyped DEF Init
<1>5. LM!TypeOK
  BY DEF Init, LM!Init, LM!TypeOK, LM!NoOwner
<1>6. \A i \in DOMAIN processes : ~lockState[i].holds_lock
  BY <1>1, LockStateTyped DEF Init
<1> QED BY <1>2, <1>3, <1>4, <1>5, <1>6 DEF LockInv, LockTypes, HolderOwnsLock

LEMMA BeginTickLocks == LockInv /\ BeginTick => LockInv'
<1> SUFFICES ASSUME LockInv, BeginTick PROVE LockInv'
  OBVIOUS
<1>1. UNCHANGED <<indexOf, lockState, owner, waiters>>
  BY DEF BeginTick, lockingVars
<1>2. PICK S : processes \in Seq(S)
  BY DEF LockInv, LockTypes
<1>3. /\ \E T : processes' \in Seq(T)
      /\ Len(processes') = Len(processes)
      /\ DOMAIN processes' = DOMAIN processes
  <2>1. CASE processes' = [i \in DOMAIN processes |-> WarmupReset(processes[i])]
    <3>1. processes' \in Seq({WarmupReset(processes[i]) : i \in DOMAIN processes})
      BY <1>2, <2>1
    <3> QED BY <1>2, <2>1, <3>1
  <2>2. CASE UNCHANGED processes
    BY <1>2, <2>2
  <2> QED BY <2>1, <2>2 DEF BeginTick
<1> QED BY <1>1, <1>3 DEF LockInv, LockTypes, HolderOwnsLock, LM!TypeOK

\* Registration adds a process that holds nothing, or changes nothing.
LEMMA RegisterLocks ==
    ASSUME LockInv, NEW raw \in Services, Register(raw)
    PROVE  /\ indexOf' \in [Services -> Nat]
           /\ indexOf'[raw] \in Pids
           /\ \E S : Extended(processes, raw, NewProcess(raw)) \in Seq(S)
           /\ Extended(lockState, raw, NoLock) \in Seq(LockStates)
           /\ Len(Extended(lockState, raw, NoLock))
                = Len(Extended(processes, raw, NewProcess(raw)))
           /\ \A j \in DOMAIN Extended(lockState, raw, NoLock) :
                 LET s == Extended(lockState, raw, NoLock)[j]
                 IN  s.holds_lock => /\ s.held_lock_id \in Locks
                                     /\ owner[s.held_lock_id] = j
<1>1. PICK S : processes \in Seq(S)
  BY DEF LockInv, LockTypes
<1>2. /\ lockState \in Seq(LockStates) /\ NoLock \in LockStates /\ ~NoLock.holds_lock
      /\ Len(lockState) = Len(processes)
  BY LockStateTyped DEF LockInv, LockTypes
<1>3. indexOf' \in [Services -> Nat] /\ indexOf'[raw] \in Pids
  BY <1>1, RegisterIndex DEF LockInv, LockTypes
<1>4. \E T : Extended(processes, raw, NewProcess(raw)) \in Seq(T)
  <2> DEFINE fresh == NewProcess(raw)
  <2>1. processes \in Seq(S \cup {fresh}) /\ fresh \in S \cup {fresh}
    BY <1>1
  <2> HIDE DEF fresh
  <2>2. Extended(processes, raw, fresh) \in Seq(S \cup {fresh})
    BY <2>1 DEF Extended
  <2> QED BY <2>2 DEF fresh
<1>5. /\ Extended(lockState, raw, NoLock) \in Seq(LockStates)
      /\ Len(Extended(lockState, raw, NoLock))
           = Len(Extended(processes, raw, NewProcess(raw)))
  BY <1>1, <1>2 DEF Extended
<1>6. ASSUME NEW j \in DOMAIN Extended(lockState, raw, NoLock),
             Extended(lockState, raw, NoLock)[j].holds_lock
      PROVE  /\ j \in DOMAIN processes
             /\ Extended(lockState, raw, NoLock)[j] = lockState[j]
             /\ lockState[j].holds_lock
  BY <1>1, <1>2, <1>6 DEF Extended
<1> QED BY <1>3, <1>4, <1>5, <1>6 DEF LockInv, HolderOwnsLock

LEMMA ArrivalLocks ==
    ASSUME LockInv, NEW e \in Event, HandleArrival(e) PROVE LockInv'
<1>1. e.pid \in Services /\ Register(e.pid)
  BY EventTyped DEF HandleArrival, Pop
<1> DEFINE ps == Extended(processes, e.pid, NewProcess(e.pid))
           i  == indexOf'[e.pid]
<1>2. PICK S : ps \in Seq(S)
  BY <1>1, RegisterLocks
<1>3. (\E T : processes' \in Seq(T)) /\ Len(processes') = Len(ps)
  <2>1. processes' = [ps EXCEPT ![i] = Arrival(ps[i], tick)]
    BY DEF HandleArrival
  <2> HIDE DEF ps, i
  <2>2. \A x : /\ [ps EXCEPT ![i] = x] \in Seq(S \cup {x})
               /\ Len([ps EXCEPT ![i] = x]) = Len(ps)
    BY <1>2, UpdateTyped
  <2> QED BY <2>1, <2>2
<1>4. /\ lockState' = Extended(lockState, e.pid, NoLock)
      /\ UNCHANGED <<owner, waiters>>
  BY DEF HandleArrival
<1>5. LockTypes'
  BY <1>1, <1>3, <1>4, RegisterLocks DEF LockInv, LockTypes, LM!TypeOK
<1>6. HolderOwnsLock'
  BY <1>1, <1>3, <1>4, <1>5, RegisterLocks DEF HolderOwnsLock, LockTypes
<1> QED BY <1>5, <1>6 DEF LockInv

LEMMA LockAcquireLocks ==
    ASSUME LockInv, NEW e \in Event, HandleLockAcquire(e) PROVE LockInv'
<1> DEFINE l  == e.payload
           i  == indexOf'[e.pid]
           ls == Extended(lockState, e.pid, NoLock)
<1>1. e.pid \in Services /\ Register(e.pid)
  BY EventTyped DEF HandleLockAcquire, Pop
<1>2. i \in Pids /\ indexOf' \in [Services -> Nat]
  BY <1>1, RegisterLocks
<1>3. processes' = Extended(processes, e.pid, NewProcess(e.pid))
  BY DEF HandleLockAcquire
<1>4. /\ \E S : processes' \in Seq(S)
      /\ ls \in Seq(LockStates) /\ Len(ls) = Len(processes')
      /\ \A j \in DOMAIN ls :
            ls[j].holds_lock => /\ ls[j].held_lock_id \in Locks
                                /\ owner[ls[j].held_lock_id] = j
  BY <1>1, <1>3, RegisterLocks
<1>5. owner \in [Locks -> Pids \cup {NoPid}] /\ waiters \in [Locks -> Seq(Pids)]
  BY DEF LockInv, LockTypes, LM!TypeOK, LM!NoOwner, NoPid
<1>6. CASE lockState' = ls /\ UNCHANGED <<owner, waiters>>
  BY <1>2, <1>4, <1>5, <1>6
     DEF LockInv, LockTypes, HolderOwnsLock, LM!TypeOK, LM!NoOwner, NoPid
<1>7. CASE /\ l \in Locks /\ LM!Grant(l, i)
           /\ \E hold \in HoldTimes : lockState' = [ls EXCEPT ![i] = Holding(l, hold)]
  <2> PICK hold \in HoldTimes : lockState' = [ls EXCEPT ![i] = Holding(l, hold)]
    BY <1>7
  <2>1. owner[l] = NoPid /\ owner' = [owner EXCEPT ![l] = i] /\ UNCHANGED waiters
    BY <1>7 DEF LM!Grant, LM!NoOwner, NoPid
  <2>2. /\ Holding(l, hold) \in LockStates
        /\ Holding(l, hold).holds_lock /\ Holding(l, hold).held_lock_id = l
    BY <1>7, LockStateTyped DEF Holding
  <2> HIDE DEF l, i, ls
  <2>3. lockState' \in Seq(LockStates) /\ Len(lockState') = Len(ls)
    <3> DEFINE x == Holding(l, hold)
    <3>1. x \in LockStates /\ ls \in Seq(LockStates)
      BY <1>4, <2>2
    <3>2. lockState' = [ls EXCEPT ![i] = x]
      OBVIOUS
    <3> HIDE DEF x
    <3>3. \A y \in LockStates : /\ [ls EXCEPT ![i] = y] \in Seq(LockStates)
                                /\ Len([ls EXCEPT ![i] = y]) = Len(ls)
      BY <3>1, ReplaceTyped
    <3> QED BY <3>1, <3>2, <3>3
  <2>4. LockTypes'
    BY <1>2, <1>4, <1>5, <1>7, <2>1, <2>3
       DEF LockTypes, LM!TypeOK, LM!NoOwner, NoPid
  <2>5. ASSUME NEW j \in DOMAIN processes', lockState'[j].holds_lock
        PROVE  /\ lockState'[j].held_lock_id \in Locks
               /\ owner'[lockState'[j].held_lock_id] = j
    <3>1. j \in DOMAIN ls /\ j # NoPid
      BY <1>4 DEF NoPid
    <3>2. CASE j = i
      BY <1>5, <1>7, <2>1, <2>2, <3>1, <3>2
    <3>3. CASE j # i
      BY <1>4, <1>5, <2>1, <2>5, <3>1, <3>3
    <3> QED BY <3>2, <3>3
  <2> QED BY <2>4, <2>5 DEF LockInv, HolderOwnsLock
<1>8. CASE l \in Locks /\ LM!Enqueue(l, i) /\ lockState' = ls
  <2>1. /\ waiters' = [waiters EXCEPT ![l] = Append(@, i)]
        /\ UNCHANGED owner
    BY <1>8 DEF LM!Enqueue
  <2>2. waiters' \in [Locks -> Seq(Pids)]
    BY <1>2, <1>5, <1>8, <2>1
  <2> QED BY <1>2, <1>4, <1>5, <1>8, <2>1, <2>2
          DEF LockInv, LockTypes, HolderOwnsLock, LM!TypeOK, LM!NoOwner, NoPid
<1> QED BY <1>6, <1>7, <1>8 DEF HandleLockAcquire

-----------------------------------------------------------------------------
(* The scheduled holder: its critical section and the release of its lock. *)

LEMMA CriticalSectionLocks ==
    ASSUME LockInv, NEW i \in DOMAIN processes, lockState[i].holds_lock,
           RunCriticalSection(i), UNCHANGED indexOf
    PROVE  LockInv'
<1> DEFINE l == lockState[i].held_lock_id
<1>1. /\ i \in DOMAIN lockState /\ DOMAIN lockState = DOMAIN processes
      /\ lockState \in Seq(LockStates)
      /\ l \in Locks /\ owner[l] = i
  <2>1. DOMAIN lockState = DOMAIN processes
    BY DEF LockInv, LockTypes
  <2> QED BY <2>1 DEF LockInv, LockTypes, HolderOwnsLock
<1>2. owner \in [Locks -> Pids \cup {NoPid}] /\ waiters \in [Locks -> Seq(Pids)]
  BY DEF LockInv, LockTypes, LM!TypeOK, LM!NoOwner, NoPid
<1>3. (\E S : processes' \in Seq(S)) /\ Len(processes') = Len(processes)
  <2>1. PICK S : processes \in Seq(S)
    BY DEF LockInv, LockTypes
  <2>2. PICK p : processes' = [processes EXCEPT ![i] = p]
    BY DEF RunCriticalSection
  <2> QED BY <2>1, <2>2, UpdateTyped
<1>4. DOMAIN processes' = DOMAIN processes
  BY <1>3
<1> HIDE DEF l
<1>5. CASE ~SectionComplete(i)
  <2>1. /\ lockState' = [lockState EXCEPT ![i].elapsed_cpu = @ + 1]
        /\ UNCHANGED <<owner, waiters>>
    BY <1>5 DEF RunCriticalSection
  <2>2. lockState' \in Seq(LockStates) /\ Len(lockState') = Len(lockState)
    <3> DEFINE x == [lockState[i] EXCEPT !.elapsed_cpu = @ + 1]
    <3>1. lockState[i] \in LockStates
      BY <1>1
    <3>2. x \in LockStates
      BY <3>1 DEF LockStates
    <3>3. lockState' = [lockState EXCEPT ![i] = x]
      BY <2>1
    <3> HIDE DEF x
    <3> QED BY <1>1, <3>2, <3>3, ReplaceTyped
  <2>3. \A j \in DOMAIN processes : /\ lockState'[j].holds_lock = lockState[j].holds_lock
                                    /\ lockState'[j].held_lock_id = lockState[j].held_lock_id
    BY <1>1, <2>1 DEF LockStates
  <2> QED BY <1>3, <1>4, <2>1, <2>2, <2>3 DEF LockInv, LockTypes, HolderOwnsLock, LM!TypeOK
<1>6. CASE SectionComplete(i) /\ LM!Free(l) /\ lockState' = [lockState EXCEPT ![i] = NoLock]
  <2>1. lockState' \in Seq(LockStates) /\ Len(lockState') = Len(lockState)
    <3>1. NoLock \in LockStates
      BY LockStateTyped
    <3> QED BY <1>1, <1>6, <3>1, ReplaceTyped
  <2>2. LockTypes'
    BY <1>1, <1>2, <1>3, <1>6, <2>1
       DEF LockInv, LockTypes, LM!TypeOK, LM!Free, LM!NoOwner, NoPid
  <2>3. ASSUME NEW j \in DOMAIN processes', lockState'[j].holds_lock
        PROVE  /\ lockState'[j].held_lock_id \in Locks
               /\ owner'[lockState'[j].held_lock_id] = j
    <3>1. j # i /\ lockState'[j] = lockState[j] /\ j \in DOMAIN processes
      BY <1>1, <1>4, <1>6, <2>3, LockStateTyped
    <3>2. lockState[j].held_lock_id \in Locks /\ owner[lockState[j].held_lock_id] = j
      BY <2>3, <3>1 DEF LockInv, HolderOwnsLock
    <3> QED BY <1>1, <1>2, <1>6, <3>1, <3>2 DEF LM!Free
  <2> QED BY <2>2, <2>3 DEF LockInv, HolderOwnsLock
<1>7. CASE /\ SectionComplete(i) /\ LM!Promote(l)
           /\ \E hold \in HoldTimes :
                 lockState' = [lockState EXCEPT ![i] = NoLock,
                                                ![Head(waiters[l])] = Holding(l, hold)]
  <2> DEFINE w == Head(waiters[l])
  <2> PICK hold \in HoldTimes :
              lockState' = [lockState EXCEPT ![i] = NoLock, ![w] = Holding(l, hold)]
    BY <1>7
  <2>1. /\ w \in Pids /\ Tail(waiters[l]) \in Seq(Pids)
        /\ owner' = [owner EXCEPT ![l] = w]
        /\ waiters' = [waiters EXCEPT ![l] = Tail(@)]
    BY <1>1, <1>2, <1>7 DEF LM!Promote
  <2>2. /\ Holding(l, hold) \in LockStates
        /\ Holding(l, hold).holds_lock /\ Holding(l, hold).held_lock_id = l
    BY <1>1, LockStateTyped DEF Holding
  <2> HIDE DEF w
  <2>3. lockState' \in Seq(LockStates) /\ Len(lockState') = Len(lockState)
    <3> DEFINE mid == [lockState EXCEPT ![i] = NoLock]
               x   == Holding(l, hold)
    <3>1. NoLock \in LockStates /\ x \in LockStates
      BY <2>2, LockStateTyped
    <3>2. mid \in Seq(LockStates) /\ Len(mid) = Len(lockState)
      BY <1>1, <3>1, ReplaceTyped
    <3>3. lockState' = [mid EXCEPT ![w] = x]
      OBVIOUS
    <3> HIDE DEF mid, x
    <3>4. \A y \in LockStates : /\ [mid EXCEPT ![w] = y] \in Seq(LockStates)
                                /\ Len([mid EXCEPT ![w] = y]) = Len(mid)
      BY <3>2, ReplaceTyped
    <3> QED BY <3>1, <3>2, <3>3, <3>4
  <2>4. LockTypes'
    BY <1>1, <1>2, <1>3, <2>1, <2>3
       DEF LockInv, LockTypes, LM!TypeOK, LM!NoOwner, NoPid
  <2>5. ASSUME NEW j \in DOMAIN processes', lockState'[j].holds_lock
        PROVE  /\ lockState'[j].held_lock_id \in Locks
               /\ owner'[lockState'[j].held_lock_id] = j
    <3>1. j \in DOMAIN lockState
      BY <1>1, <1>4
    <3>2. CASE j = w
      BY <1>1, <1>2, <2>1, <2>2, <3>1, <3>2
    <3>3. CASE j # w
      <4>1. j # i /\ lockState'[j] = lockState[j]
        BY <1>1, <2>5, <3>1, <3>3, LockStateTyped
      <4>2. lockState[j].held_lock_id \in Locks /\ owner[lockState[j].held_lock_id] = j
        BY <1>1, <2>5, <3>1, <4>1 DEF LockInv, HolderOwnsLock
      <4> QED BY <1>1, <1>2, <2>1, <4>1, <4>2
    <3> QED BY <3>2, <3>3
  <2> QED BY <2>4, <2>5 DEF LockInv, HolderOwnsLock
<1> QED BY <1>5, <1>6, <1>7 DEF RunCriticalSection, l

\* A step that leaves the locks, the registry and the number of processes alone.
LEMMA UntouchedLocks ==
    ASSUME LockInv, UNCHANGED <<indexOf, lockState, owner, waiters>>,
           \E S : processes' \in Seq(S), Len(processes') = Len(processes)
    PROVE  LockInv'
<1>1. DOMAIN processes' = DOMAIN processes
  BY DEF LockInv, LockTypes
<1> QED BY <1>1 DEF LockInv, LockTypes, HolderOwnsLock, LM!TypeOK

LEMMA ScheduleLocks ==
    ASSUME LockInv, NEW e \in Event, HandleSchedule(e) PROVE LockInv'
<1> PICK i \in Decisions :
            /\ last' = i
            /\ IF LockMode /\ i # NoPid /\ lockState[i].holds_lock
               THEN RunCriticalSection(i)
               ELSE UNCHANGED <<processes, offline, served, lockingVars>>
  BY DEF HandleSchedule, Schedule
<1>1. UNCHANGED indexOf
  BY DEF HandleSchedule, Schedule
<1>2. CASE i # NoPid /\ lockState[i].holds_lock /\ RunCriticalSection(i)
  <2>1. i \in DOMAIN processes
    BY <1>2 DEF Decisions, Candidates
  <2> QED BY <1>1, <1>2, <2>1, CriticalSectionLocks
<1>3. CASE UNCHANGED <<processes, offline, served, lockingVars>>
  BY <1>1, <1>3, UntouchedLocks DEF lockingVars, LockInv, LockTypes
<1> QED BY <1>2, <1>3

LEMMA ServiceLocks ==
    ASSUME LockInv, NEW e \in Event, HandleService(e) PROVE LockInv'
<1>1. UNCHANGED <<indexOf, lockState, owner, waiters>>
  BY DEF HandleService, lockingVars
<1>2. PICK S : processes \in Seq(S)
  BY DEF LockInv, LockTypes
<1>3. PICK p : processes' = [processes EXCEPT ![indexOf[e.pid]] = p]
  BY DEF HandleService
<1>4. (\E T : processes' \in Seq(T)) /\ Len(processes') = Len(processes)
  BY <1>2, <1>3, UpdateTyped
<1> QED BY <1>1, <1>4, UntouchedLocks

LEMMA MetricsLocks ==
    ASSUME LockInv, NEW e \in Event, HandleMetrics(e) PROVE LockInv'
<1> DEFINE after(i) == IF i = last THEN processes[i] ELSE TickIdle(processes[i])
<1>1. UNCHANGED <<indexOf, lockState, owner, waiters>>
  BY DEF HandleMetrics, lockingVars
<1>2. PICK S : processes \in Seq(S)
  BY DEF LockInv, LockTypes
<1>3. processes' = [i \in DOMAIN processes |-> after(i)]
  BY DEF HandleMetrics
<1> HIDE DEF after
<1>4. processes' \in Seq({after(i) : i \in DOMAIN processes})
  BY <1>2, <1>3
<1>5. Len(processes') = Len(processes)
  BY <1>2, <1>3
<1> QED BY <1>1, <1>4, <1>5, UntouchedLocks

LEMMA LockInvStep ==
    ASSUME LockInv, [Next]_vars PROVE LockInv'
<1>0. PICK S : processes \in Seq(S)
  BY DEF LockInv, LockTypes
<1>1. CASE BeginTick
  BY <1>1, BeginTickLocks
<1>2. ASSUME NEW e \in Event, HandleArrival(e) PROVE LockInv'
  BY <1>2, ArrivalLocks
<1>3. ASSUME NEW e \in Event, HandleLockAcquire(e) PROVE LockInv'
  BY <1>3, LockAcquireLocks
<1>4. ASSUME NEW e \in Event, IgnoreLockEvent(e) \/ IgnoreService(e) PROVE LockInv'
  BY <1>0, <1>4, UntouchedLocks DEF IgnoreLockEvent, IgnoreService, lockingVars
<1>5. ASSUME NEW e \in Event, HandleSchedule(e) PROVE LockInv'
  BY <1>5, ScheduleLocks
<1>6. ASSUME NEW e \in Event, HandleService(e) PROVE LockInv'
  BY <1>6, ServiceLocks
<1>7. ASSUME NEW e \in Event, HandleMetrics(e) PROVE LockInv'
  BY <1>7, MetricsLocks
<1>8. CASE EndTick
  BY <1>0, <1>8, UntouchedLocks DEF EndTick, lockingVars
<1>9. CASE Terminated \/ UNCHANGED vars
  BY <1>0, <1>9, UntouchedLocks DEF Terminated, vars, loopVars, lockingVars
<1> QED BY <1>1, <1>2, <1>3, <1>4, <1>5, <1>6, <1>7, <1>8, <1>9 DEF Next

(***************************************************************************)
(* LockInv is an invariant of the loop.                                    *)
(***************************************************************************)
THEOREM LockInvariant == Spec => []LockInv
<1>1. LockInv /\ [Next]_vars => LockInv'
  BY LockInvStep
<1> QED BY <1>1, InitLocks, PTL DEF Spec

(***************************************************************************)
(* A process that believes it holds a lock owns it: lock state and lock    *)
(* manager are updated together by every handler.                          *)
(***************************************************************************)
THEOREM HoldersOwnTheirLocks == Spec => []HolderOwnsLock
BY LockInvariant, PTL DEF LockInv

(***************************************************************************)
(* A lock changes hands or becomes free only in the Schedule event that    *)
(* runs the last CPU tick of its owner's critical section.                 *)
(***************************************************************************)
THEOREM LocksAreKept == Spec => NoEarlyRelease
<1> DEFINE Kept == \A l \in Locks :
                      owner[l] \notin {NoPid, owner'[l]} =>
                          LET i == owner[l]
                          IN  /\ last' = i
                              /\ lockState[i].held_lock_id = l
                              /\ lockState[i].elapsed_cpu + 1 >= lockState[i].required_cpu
<1>1. LockInv /\ [Next]_vars => [Kept]_vars
  <2> SUFFICES ASSUME LockInv, Next, NEW l \in Locks, owner[l] # NoPid, owner'[l] # owner[l]
               PROVE  /\ last' = owner[l]
                      /\ lockState[owner[l]].held_lock_id = l
                      /\ lockState[owner[l]].elapsed_cpu + 1
                            >= lockState[owner[l]].required_cpu
    OBVIOUS
  <2>1. owner \in [Locks -> Pids \cup {NoPid}]
    BY DEF LockInv, LockTypes, LM!TypeOK, LM!NoOwner, NoPid
  <2>2. ASSUME NEW e \in Event, HandleLockAcquire(e) PROVE FALSE
    <3>1. \/ UNCHANGED owner
          \/ /\ owner[e.payload] = NoPid
             /\ owner' = [owner EXCEPT ![e.payload] = indexOf'[e.pid]]
      BY <2>2 DEF HandleLockAcquire, LM!Grant, LM!Enqueue, LM!NoOwner, NoPid
    <3> QED BY <2>1, <3>1
  <2>3. PICK e \in Event : HandleSchedule(e)
    BY <2>2 DEF Next, BeginTick, HandleArrival, IgnoreLockEvent, HandleService,
                IgnoreService, HandleMetrics, EndTick, Terminated, vars, lockingVars
  <2>4. PICK i \in Decisions :
              /\ last' = i
              /\ IF LockMode /\ i # NoPid /\ lockState[i].holds_lock
                 THEN RunCriticalSection(i)
                 ELSE UNCHANGED <<processes, offline, served, lockingVars>>
    BY <2>3 DEF HandleSchedule, Schedule
  <2>5. /\ i \in DOMAIN processes /\ lockState[i].holds_lock
        /\ RunCriticalSection(i)
    BY <2>4 DEF Decisions, Candidates, lockingVars
  <2>6. /\ lockState[i].held_lock_id \in Locks
        /\ owner[lockState[i].held_lock_id] = i
    BY <2>5 DEF LockInv, HolderOwnsLock
  <2>7. lockState[i].held_lock_id = l /\ SectionComplete(i)
    BY <2>1, <2>5 DEF RunCriticalSection, LM!Free, LM!Promote
  <2> QED BY <2>4, <2>6, <2>7 DEF SectionComplete
<1> QED BY <1>1, LockInvariant, PTL DEF Spec, NoEarlyRelease

-----------------------------------------------------------------------------
(* The lock manager: what is proved of it holds of the one in the loop.    *)

LMP == INSTANCE LockManager_proofs WITH Clients <- Pids

\* A lock event asks for one lock of the manager, or leaves it alone.
LEMMA LockAcquireUses ==
    ASSUME LockInv, NEW e \in Event, HandleLockAcquire(e)
    PROVE  LM!Next \/ UNCHANGED <<owner, waiters>>
<1>1. e.pid \in Services /\ Register(e.pid)
  BY EventTyped DEF HandleLockAcquire, Pop
<1>2. indexOf'[e.pid] \in Pids
  BY <1>1, RegisterLocks
<1>3. \/ UNCHANGED <<owner, waiters>>
      \/ e.payload \in Locks /\ LM!Grant(e.payload, indexOf'[e.pid])
      \/ e.payload \in Locks /\ LM!Enqueue(e.payload, indexOf'[e.pid])
  BY DEF HandleLockAcquire
<1> QED BY <1>2, <1>3 DEF LM!Next

\* A Schedule event releases held locks only.
LEMMA ScheduleUses ==
    ASSUME LockInv, NEW e \in Event, HandleSchedule(e)
    PROVE  LM!Next \/ UNCHANGED <<owner, waiters>>
<1> PICK i \in Decisions : Schedule(e, i)
  BY DEF HandleSchedule
<1>1. CASE ~(LockMode /\ i # NoPid /\ lockState[i].holds_lock)
  BY <1>1 DEF Schedule, lockingVars
<1>2. CASE LockMode /\ i # NoPid /\ lockState[i].holds_lock
  <2> DEFINE l == lockState[i].held_lock_id
  <2>1. i \in DOMAIN processes
    BY <1>2 DEF Decisions, Candidates
  <2>2. l \in Locks /\ owner[l] = i
    BY <1>2, <2>1 DEF LockInv, HolderOwnsLock
  <2>3. owner[l] # LM!NoOwner
    BY <1>2, <2>2 DEF LM!NoOwner, NoPid
  <2>4. RunCriticalSection(i)
    BY <1>2 DEF Schedule
  <2>5. UNCHANGED <<owner, waiters>> \/ LM!Free(l) \/ LM!Promote(l)
    BY <2>4 DEF RunCriticalSection
  <2> QED BY <2>2, <2>3, <2>5 DEF LM!Next
<1> QED BY <1>1, <1>2

(***************************************************************************)
(* The loop implements LockManager: a handler asks for one lock or leaves  *)
(* the manager alone, and only locks that are held are released, which     *)
(* release() does not check.                                               *)
(***************************************************************************)
THEOREM LoopUsesLockManager == Spec => LM!Spec
<1>1. Init => LM!Init
  BY DEF Init
<1>2. LockInv /\ [Next]_vars => [LM!Next]_<<owner, waiters>>
  <2> SUFFICES ASSUME LockInv, [Next]_vars
               PROVE  LM!Next \/ UNCHANGED <<owner, waiters>>
    OBVIOUS
  <2>1. ASSUME NEW e \in Event, HandleLockAcquire(e)
        PROVE  LM!Next \/ UNCHANGED <<owner, waiters>>
    BY <2>1, LockAcquireUses
  <2>2. ASSUME NEW e \in Event, HandleSchedule(e)
        PROVE  LM!Next \/ UNCHANGED <<owner, waiters>>
    BY <2>2, ScheduleUses
  <2>3. CASE \/ BeginTick \/ EndTick \/ Terminated \/ UNCHANGED vars
             \/ \E e \in Event : \/ HandleArrival(e) \/ IgnoreLockEvent(e)
                                 \/ HandleService(e) \/ IgnoreService(e) \/ HandleMetrics(e)
    BY <2>3 DEF BeginTick, EndTick, Terminated, HandleArrival, IgnoreLockEvent,
                HandleService, IgnoreService, HandleMetrics, vars, lockingVars
  <2> QED BY <2>1, <2>2, <2>3 DEF Next
<1> QED BY <1>1, <1>2, LockInvariant, PTL DEF Spec, LM!Spec, LM!lockVars

\* The two instances of the lock manager are the same.
LEMMA SameManager == Spec => LMP!Spec
BY LoopUsesLockManager
   DEF LM!Spec, LM!Init, LM!Next, LM!Grant, LM!Enqueue, LM!Free, LM!Promote, LM!Reset,
       LM!NoOwner, LM!lockVars, LMP!Spec, LMP!Init, LMP!Next, LMP!Grant, LMP!Enqueue,
       LMP!Free, LMP!Promote, LMP!Reset, LMP!NoOwner, LMP!lockVars

LEMMA NobodyIsNoClient == LMP!NoOwner \notin Pids
  BY DEF LMP!NoOwner, Pids, NoPid

(***************************************************************************)
(* In the loop no lock is free while a process is queued for it.           *)
(***************************************************************************)
THEOREM NoWaiterIsLeft == Spec => []NoWaiterOnFreeLock
<1>1. LMP!Spec => []LMP!NoWaiterOnFreeLock
  BY NobodyIsNoClient, LMP!FreeLocksHaveNoWaiter
<1>2. LMP!NoWaiterOnFreeLock => NoWaiterOnFreeLock
  BY DEF NoWaiterOnFreeLock, LM!NoWaiterOnFreeLock, LMP!NoWaiterOnFreeLock,
         LM!NoOwner, LMP!NoOwner
<1> QED BY <1>1, <1>2, SameManager, PTL

(***************************************************************************)
(* In the loop each lock serves its requests in the order made, whoever    *)
(* asks for it how often and whenever critical sections end.               *)
(***************************************************************************)
THEOREM LocksServeInOrder == Spec => ServesInOrder
<1>1. LMP!Spec => LMP!ServesInOrder
  BY NobodyIsNoClient, LMP!ManagerServesInOrder
<1>2. LMP!ServesInOrder => ServesInOrder
  BY DEF ServesInOrder, LM!ServesInOrder, LMP!ServesInOrder,
         LM!NoOwner, LMP!NoOwner, LM!Line!Spec, LMP!Line!Spec, LM!Line!Init, LMP!Line!Init,
         LM!Line!Next, LMP!Line!Next, LM!Line!Request, LMP!Line!Request,
         LM!Line!Leave, LMP!Line!Leave, LM!Line!Clear, LMP!Line!Clear
<1> QED BY <1>1, <1>2, SameManager, PTL

-----------------------------------------------------------------------------
(* Types: one lemma per action.                                            *)

LEMMA InitTypes == Init => TypeOK
<1> SUFFICES ASSUME Init PROVE TypeOK
  OBVIOUS
<1>1. NumProcs \in Nat /\ Ticks \in Nat
  BY OnlineMetricsAssumption, EventLoopAssumption
<1>2. \A i \in 1 .. NumProcs : NewProcess(i - 1) \in ProcessRecord
  BY <1>1, NewProcessTyped
<1>3. processes \in Seq(ProcessRecord) /\ Len(processes) = NumProcs
  BY <1>1, <1>2 DEF Init
<1>4. IsHeap(heap)
  BY DEF Init, EmptyHeap, IsHeap
<1>5. indexOf \in [Services -> 0 .. NumProcs]
  BY <1>1, EventQueueAssumption DEF Init, NoPid, InitialServices
<1>6. NoLock \in LockStates
  BY DEF NoLock, LockStates
<1>7. /\ lockState \in Seq(LockStates) /\ Len(lockState) = NumProcs
      /\ syncDebt \in Seq(Nat) /\ Len(syncDebt) = NumProcs
      /\ carried \in Seq(Int) /\ Len(carried) = NumProcs
  BY <1>1, <1>6 DEF Init
<1>8. LM!TypeOK
  BY DEF Init, LM!Init, LM!TypeOK, LM!NoOwner
<1>9. /\ tick \in 0 .. Ticks /\ pc \in {"tick", "drain", "done"}
      /\ last \in 0 .. NumProcs /\ prev \in 0 .. NumProcs /\ served \in Nat
  BY <1>1 DEF Init, NoPid
<1> QED BY <1>3, <1>4, <1>5, <1>7, <1>8, <1>9 DEF TypeOK

LEMMA BeginTickTypes == TypeOK /\ BeginTick => TypeOK'
<1> SUFFICES ASSUME TypeOK, BeginTick PROVE TypeOK'
  OBVIOUS
<1>1. /\ processes' \in Seq(ProcessRecord) /\ Len(processes') = Len(processes)
      /\ carried' \in Seq(Int) /\ Len(carried') = Len(processes)
  <2>1. CASE /\ processes' = [i \in DOMAIN processes |-> WarmupReset(processes[i])]
             /\ carried'   = [i \in DOMAIN processes |-> processes[i].queue_length]
    <3>1. \A i \in DOMAIN processes : /\ WarmupReset(processes[i]) \in ProcessRecord
                                      /\ processes[i].queue_length \in Int
      <4> SUFFICES ASSUME NEW i \in DOMAIN processes
                   PROVE  /\ WarmupReset(processes[i]) \in ProcessRecord
                          /\ processes[i].queue_length \in Int
        OBVIOUS
      <4>1. processes[i] \in ProcessRecord
        BY DEF TypeOK
      <4> QED BY <4>1, WarmupResetTyped DEF ProcessRecord
    <3> QED BY <2>1, <3>1 DEF TypeOK
  <2>2. CASE UNCHANGED <<processes, carried>>
    BY <2>2 DEF TypeOK
  <2> QED BY <2>1, <2>2 DEF BeginTick
<1>2. IsHeap(heap')
  <2> PICK batch \in Batches :
             heap' = Push(Push(PushAll(heap, batch), ScheduleEvent), MetricsEvent)
    BY DEF BeginTick
  <2>1. IsHeap(PushAll(heap, batch))
    BY PushAllTyped DEF TypeOK, Batches
  <2> QED BY <2>1, PushTyped, EventTyped
<1>3. /\ pc' = "drain"
      /\ UNCHANGED <<tick, indexOf, last, prev, served, lockState, syncDebt, owner, waiters>>
  BY DEF BeginTick, lockingVars
<1> QED BY <1>1, <1>2, <1>3 DEF TypeOK, LM!TypeOK

\* An event popped by a handler leaves a heap.
LEMMA PopTypes ==
    ASSUME TypeOK, NEW e \in Event, NEW type, Pop(e, type)
    PROVE  IsHeap(Popped(heap, e))
  BY PoppedTyped DEF TypeOK, Pop

\* The index of the service of an arrival, and the process list it indexes.
LEMMA RegisterTyped ==
    ASSUME TypeOK, NEW raw \in Services, Register(raw)
    PROVE  LET ps == Extended(processes, raw, NewProcess(raw))
           IN  /\ ps \in Seq(ProcessRecord)
               /\ Len(ps) = IF Known(raw) THEN Len(processes) ELSE Len(processes) + 1
               /\ indexOf' \in [Services -> 0 .. Len(ps)]
               /\ indexOf'[raw] \in 1 .. Len(ps)
<1> DEFINE ps == Extended(processes, raw, NewProcess(raw))
<1>1. NewProcess(raw) \in ProcessRecord /\ processes \in Seq(ProcessRecord)
  BY NewProcessTyped, EventQueueAssumption DEF TypeOK
<1>2. /\ ps \in Seq(ProcessRecord)
      /\ Len(ps) = IF Known(raw) THEN Len(processes) ELSE Len(processes) + 1
  BY <1>1 DEF Extended
<1>3. indexOf \in [Services -> 0 .. Len(processes)] /\ Len(processes) \in Nat
  BY <1>1 DEF TypeOK
<1> HIDE DEF ps
<1>4. indexOf' \in [Services -> 0 .. Len(ps)] /\ indexOf'[raw] \in 1 .. Len(ps)
  BY <1>2, <1>3 DEF Register, Known, NoPid
<1> QED BY <1>2, <1>4 DEF ps

LEMMA ArrivalTypes ==
    ASSUME TypeOK, NEW e \in Event, HandleArrival(e) PROVE TypeOK'
<1> DEFINE ps == Extended(processes, e.pid, NewProcess(e.pid))
           i  == indexOf'[e.pid]
<1>1. e.pid \in Services /\ Register(e.pid)
  BY EventTyped DEF HandleArrival, Pop
<1>2. /\ ps \in Seq(ProcessRecord)
      /\ Len(ps) = IF Known(e.pid) THEN Len(processes) ELSE Len(processes) + 1
      /\ indexOf' \in [Services -> 0 .. Len(ps)]
      /\ i \in 1 .. Len(ps)
  BY <1>1, RegisterTyped
<1>3. processes' = [ps EXCEPT ![i] = Arrival(ps[i], tick)]
  BY DEF HandleArrival
<1> HIDE DEF ps, i
<1>4. Arrival(ps[i], tick) \in ProcessRecord
  <2>1. ps[i] \in ProcessRecord
    BY <1>2
  <2>2. tick \in Nat
    BY EventLoopAssumption DEF TypeOK
  <2> QED BY <2>1, <2>2, ArrivalTyped
<1>5. processes' \in Seq(ProcessRecord) /\ Len(processes') = Len(ps)
  BY <1>2, <1>3, <1>4
<1>6. NoLock \in LockStates
  BY DEF NoLock, LockStates
<1>7. /\ lockState' \in Seq(LockStates) /\ Len(lockState') = Len(ps)
      /\ syncDebt' \in Seq(Nat) /\ Len(syncDebt') = Len(ps)
      /\ carried' \in Seq(Int) /\ Len(carried') = Len(ps)
  BY <1>2, <1>6 DEF HandleArrival, Extended, TypeOK
<1>8. IsHeap(heap')
  BY PopTypes DEF HandleArrival
<1>9. /\ UNCHANGED <<tick, pc, owner, waiters, last, prev, served>>
      /\ last \in 0 .. Len(ps) /\ prev \in 0 .. Len(ps)
  BY <1>2 DEF HandleArrival, TypeOK
<1> QED BY <1>2, <1>5, <1>7, <1>8, <1>9 DEF TypeOK, LM!TypeOK

\* A lock request registers its caller and changes no other process.
LEMMA LockAcquireTypes ==
    ASSUME TypeOK, LockInv', NEW e \in Event, HandleLockAcquire(e) PROVE TypeOK'
<1> DEFINE ps == Extended(processes, e.pid, NewProcess(e.pid))
           ds == Extended(syncDebt, e.pid, 0)
<1>1. e.pid \in Services /\ Register(e.pid) /\ processes' = ps
  BY EventTyped DEF HandleLockAcquire, Pop
<1>2. /\ ps \in Seq(ProcessRecord)
      /\ Len(ps) = IF Known(e.pid) THEN Len(processes) ELSE Len(processes) + 1
      /\ indexOf' \in [Services -> 0 .. Len(ps)]
  BY <1>1, RegisterTyped
<1>3. /\ ds \in Seq(Nat) /\ Len(ds) = Len(ps)
      /\ carried' \in Seq(Int) /\ Len(carried') = Len(ps)
  BY <1>2 DEF HandleLockAcquire, Extended, TypeOK
<1> HIDE DEF ps, ds
<1>4. syncDebt' \in Seq(Nat) /\ Len(syncDebt') = Len(ps)
  <2>1. CASE syncDebt' = ds
    BY <1>3, <2>1
  <2>2. CASE syncDebt' = [ds EXCEPT ![owner[e.payload]] = @ + 1]
    <3> DEFINE o == owner[e.payload]
               d == ds[o] + 1
    <3>1. syncDebt' = [ds EXCEPT ![o] = d]
      BY <2>2
    <3>2. CASE o \in DOMAIN ds
      <4>1. d \in Nat
        BY <1>3, <3>2
      <4> HIDE DEF o, d
      <4> QED BY <1>3, <3>1, <4>1, ReplaceTyped
    <3>3. CASE o \notin DOMAIN ds
      <4> HIDE DEF o, d
      <4>1. syncDebt' = ds
        BY <1>3, <3>1, <3>3
      <4> QED BY <1>3, <4>1
    <3> QED BY <3>2, <3>3
  <2> QED BY <2>1, <2>2 DEF HandleLockAcquire, ds
<1>5. /\ lockState' \in Seq(LockStates) /\ Len(lockState') = Len(ps)
      /\ LM!TypeOK'
  BY <1>1 DEF LockInv, LockTypes
<1>6. IsHeap(heap')
  BY PopTypes DEF HandleLockAcquire
<1>7. /\ UNCHANGED <<tick, pc, last, prev, served>>
      /\ last \in 0 .. Len(ps) /\ prev \in 0 .. Len(ps)
  BY <1>2 DEF HandleLockAcquire, TypeOK
<1> QED BY <1>1, <1>2, <1>3, <1>4, <1>5, <1>6, <1>7 DEF TypeOK

\* What a Schedule event does to the processes, in every mode.
LEMMA ScheduleChanges ==
    ASSUME TypeOK, NEW e \in Event, HandleSchedule(e)
    PROVE  /\ processes' \in Seq(ProcessRecord) /\ Len(processes') = Len(processes)
           /\ served' \in Nat
           /\ syncDebt' \in Seq(Nat) /\ Len(syncDebt') = Len(syncDebt)
           /\ \A i \in DOMAIN processes :
                 \E k \in Nat : processes'[i] = ServiceTimes(processes[i], tick, k)
<1> PICK i \in Decisions :
            IF LockMode /\ i # NoPid /\ lockState[i].holds_lock
            THEN RunCriticalSection(i)
            ELSE UNCHANGED <<processes, offline, served, lockingVars>>
  BY DEF HandleSchedule, Schedule
<1>1. processes \in Seq(ProcessRecord) /\ tick \in Nat /\ served \in Nat /\ syncDebt \in Seq(Nat)
  BY EventLoopAssumption DEF TypeOK
<1>2. \A j \in DOMAIN processes : processes[j] = ServiceTimes(processes[j], tick, 0)
  <2>1. \A p : ServiceTimes(p, tick, 0) = p
    <3> SUFFICES ASSUME NEW p PROVE ServiceTimes(p, tick, 0) = p
      OBVIOUS
    <3>1. 0 \in Nat
      OBVIOUS
    <3> QED BY <3>1, ServiceTimesSteps
  <2> QED BY <2>1
<1>3. CASE UNCHANGED <<processes, served, lockingVars>>
  BY <1>1, <1>2, <1>3 DEF lockingVars
<1>4. CASE i # NoPid /\ RunCriticalSection(i)
  <2>1. i \in DOMAIN processes
    BY <1>4 DEF Decisions, Candidates
  <2> PICK k \in Releases(processes[i].queue_length) :
             /\ processes' = [processes EXCEPT ![i] = ServiceTimes(processes[i], tick, k)]
             /\ served' = served + k
    BY <1>4 DEF RunCriticalSection
  <2> DEFINE q == ServiceTimes(processes[i], tick, k)
  <2>2. k \in Nat
    BY EventLoopAssumption DEF Releases
  <2>3. q \in ProcessRecord
    BY <1>1, <2>1, <2>2, ServiceTimesKeeps
  <2>4. \A j \in DOMAIN processes : processes'[j] = IF j = i THEN q ELSE processes[j]
    BY <2>1
  <2>5. \A j \in DOMAIN processes :
           \E n \in Nat : processes'[j] = ServiceTimes(processes[j], tick, n)
    BY <1>2, <2>2, <2>4
  <2>6. /\ processes' \in Seq(ProcessRecord) /\ Len(processes') = Len(processes)
    <3> HIDE DEF q
    <3>1. processes' = [processes EXCEPT ![i] = q]
      BY DEF q
    <3>2. \A p \in ProcessRecord : /\ [processes EXCEPT ![i] = p] \in Seq(ProcessRecord)
                                   /\ Len([processes EXCEPT ![i] = p]) = Len(processes)
      <4>1. processes \in Seq(ProcessRecord)
        BY <1>1
      <4> QED BY <4>1, ReplaceTyped
    <3> QED BY <2>3, <3>1, <3>2
  <2>7. syncDebt' \in Seq(Nat) /\ Len(syncDebt') = Len(syncDebt)
    <3>1. syncDebt' = syncDebt \/ syncDebt' = [syncDebt EXCEPT ![i] = 0]
      BY <1>4 DEF RunCriticalSection, DebtCleared
    <3> QED BY <1>1, <3>1, ReplaceTyped
  <2> QED BY <1>1, <2>2, <2>5, <2>6, <2>7
<1> QED BY <1>3, <1>4

LEMMA ScheduleTypes ==
    ASSUME TypeOK, RegistryConsistent, LockInv', NEW e \in Event, HandleSchedule(e)
    PROVE  TypeOK'
<1> PICK i \in Decisions :
            /\ last' = i
            /\ prev' = IF i = NoPid THEN prev ELSE i
            /\ heap' = HeapAfterSchedule(e, i, prev' # NoPid /\ i # prev')
  BY DEF HandleSchedule, Schedule
<1>1. i \in 0 .. Len(processes)
  BY DEF Decisions, Candidates, NoPid, TypeOK
<1>2. IsHeap(Popped(heap, e))
  BY PopTypes DEF HandleSchedule, Schedule
<1>3. IsHeap(heap')
  <2>1. CASE i = NoPid
    BY <1>2, <2>1 DEF HeapAfterSchedule
  <2>2. CASE i # NoPid
    <3>1. processes[i].id \in Services
      BY <1>1, <2>2 DEF RegistryConsistent, NoPid, TypeOK
    <3>2. ServiceEvent(processes[i].id, prev' # NoPid /\ i # prev') \in Event
      BY <3>1, EventTyped
    <3> QED BY <1>2, <2>2, <3>2, PushTyped DEF HeapAfterSchedule
  <2> QED BY <2>1, <2>2
<1>4. UNCHANGED <<tick, pc, indexOf, carried>>
  BY DEF HandleSchedule, Schedule
<1>5. prev' \in 0 .. Len(processes)
  BY <1>1 DEF TypeOK
<1>6. /\ processes' \in Seq(ProcessRecord) /\ Len(processes') = Len(processes)
      /\ served' \in Nat
      /\ syncDebt' \in Seq(Nat) /\ Len(syncDebt') = Len(syncDebt)
  BY ScheduleChanges
<1>7. /\ lockState' \in Seq(LockStates) /\ Len(lockState') = Len(processes')
      /\ LM!TypeOK'
  BY DEF LockInv, LockTypes
<1> QED BY <1>1, <1>3, <1>4, <1>5, <1>6, <1>7 DEF TypeOK

LEMMA ServiceTypes ==
    ASSUME TypeOK, NEW e \in Event, HandleService(e) PROVE TypeOK'
<1> DEFINE i  == indexOf[e.pid]
           at == tick + (IF e.payload = 1 THEN SwitchCost ELSE 0)
<1>1. i \in 1 .. Len(processes)
  <2>1. e.pid \in Services
    BY EventTyped DEF HandleService, Pop
  <2> QED BY <2>1 DEF HandleService, Serviceable, Known, NoPid, TypeOK
<1>2. at \in Nat
  BY EventLoopAssumption DEF TypeOK
<1>3. processes' = [processes EXCEPT ![i] = Service(processes[i], at)]
  BY DEF HandleService
<1> HIDE DEF i, at
<1>4. Service(processes[i], at) \in ProcessRecord
  <2>1. processes[i] \in ProcessRecord
    BY <1>1 DEF TypeOK
  <2> QED BY <1>2, <2>1, ServiceTyped
<1>5. processes' \in Seq(ProcessRecord) /\ Len(processes') = Len(processes)
  <2>1. processes \in Seq(ProcessRecord)
    BY DEF TypeOK
  <2>2. \A p \in ProcessRecord : /\ [processes EXCEPT ![i] = p] \in Seq(ProcessRecord)
                                 /\ Len([processes EXCEPT ![i] = p]) = Len(processes)
    BY <2>1, ReplaceTyped
  <2> QED BY <1>3, <1>4, <2>2
<1>6. IsHeap(heap')
  BY PopTypes DEF HandleService
<1>7. /\ UNCHANGED <<tick, pc, indexOf, last, prev, carried>>
      /\ UNCHANGED <<lockState, syncDebt, owner, waiters>>
      /\ served' \in Nat
  BY DEF HandleService, lockingVars, TypeOK
<1> QED BY <1>5, <1>6, <1>7 DEF TypeOK, LM!TypeOK

LEMMA MetricsTypes ==
    ASSUME TypeOK, NEW e \in Event, HandleMetrics(e) PROVE TypeOK'
<1> DEFINE after(i) == IF i = last THEN processes[i] ELSE TickIdle(processes[i])
<1>1. \A i \in DOMAIN processes : after(i) \in ProcessRecord
  BY TickIdleTyped DEF TypeOK
<1>2. processes' \in Seq(ProcessRecord) /\ Len(processes') = Len(processes)
  <2>1. processes' = [i \in DOMAIN processes |-> after(i)]
    BY DEF HandleMetrics
  <2>2. processes \in Seq(ProcessRecord)
    BY DEF TypeOK
  <2> HIDE DEF after
  <2> QED BY <1>1, <2>1, <2>2
<1>3. IsHeap(heap')
  BY PopTypes DEF HandleMetrics
<1>4. /\ UNCHANGED <<tick, pc, indexOf, last, prev, served, carried>>
      /\ UNCHANGED <<lockState, syncDebt, owner, waiters>>
  BY DEF HandleMetrics, lockingVars, history
<1> QED BY <1>2, <1>3, <1>4 DEF TypeOK, LM!TypeOK

LEMMA IgnoreTypes ==
    ASSUME TypeOK, NEW e \in Event, IgnoreLockEvent(e) \/ IgnoreService(e)
    PROVE  TypeOK'
<1>1. IsHeap(heap')
  BY PopTypes DEF IgnoreLockEvent, IgnoreService
<1>2. /\ UNCHANGED <<tick, pc, indexOf, processes, last, prev, served, carried>>
      /\ UNCHANGED <<lockState, syncDebt, owner, waiters>>
  BY DEF IgnoreLockEvent, IgnoreService, lockingVars, history
<1> QED BY <1>1, <1>2 DEF TypeOK, LM!TypeOK

LEMMA EndTickTypes == TypeOK /\ tick < Ticks /\ EndTick => TypeOK'
<1> SUFFICES ASSUME TypeOK, tick < Ticks, EndTick PROVE TypeOK'
  OBVIOUS
<1>1. tick' \in 0 .. Ticks /\ pc' \in {"tick", "drain", "done"} /\ served' = 0
  BY EventLoopAssumption DEF EndTick, TypeOK
<1>2. /\ UNCHANGED <<heap, indexOf, processes, last, prev, carried>>
      /\ UNCHANGED <<lockState, syncDebt, owner, waiters>>
  BY DEF EndTick, lockingVars
<1> QED BY <1>1, <1>2 DEF TypeOK, LM!TypeOK

-----------------------------------------------------------------------------
(* The registry.                                                           *)

\* A step that leaves the map and every id alone keeps the registry.
LEMMA IdsKept ==
    ASSUME TypeOK, TypeOK', RegistryConsistent, UNCHANGED indexOf,
           Len(processes') = Len(processes),
           \A i \in DOMAIN processes : processes'[i].id = processes[i].id
    PROVE  RegistryConsistent'
<1>1. DOMAIN processes' = DOMAIN processes
  BY DEF TypeOK
<1> QED BY <1>1 DEF RegistryConsistent, Known

LEMMA InitRegistry == Init => RegistryConsistent
<1> SUFFICES ASSUME Init PROVE RegistryConsistent
  OBVIOUS
<1>1. NumProcs \in Nat /\ InitialServices \subseteq Services
  BY OnlineMetricsAssumption, EventLoopAssumption
<1>2. /\ DOMAIN processes = 1 .. NumProcs
      /\ \A i \in 1 .. NumProcs : processes[i].id = i - 1
  BY <1>1 DEF Init, NewProcess
<1>3. indexOf = [s \in Services |-> IF s \in 0 .. NumProcs - 1 THEN s + 1 ELSE 0]
  BY DEF Init, InitialServices, NoPid
<1> QED BY <1>1, <1>2, <1>3 DEF RegistryConsistent, Known, NoPid, InitialServices

\* Registration, whatever the handler then does to the processes but their ids.
LEMMA RegisterRegistry ==
    ASSUME TypeOK, RegistryConsistent, NEW raw \in Services, Register(raw),
           DOMAIN processes' = DOMAIN Extended(processes, raw, NewProcess(raw)),
           \A j \in DOMAIN processes' :
              processes'[j].id = Extended(processes, raw, NewProcess(raw))[j].id
    PROVE  RegistryConsistent'
<1> DEFINE ps  == Extended(processes, raw, NewProcess(raw))
           i   == indexOf'[raw]
<1>1. /\ ps \in Seq(ProcessRecord)
      /\ i \in 1 .. Len(ps)
  BY RegisterTyped
<1>2. /\ DOMAIN processes' = DOMAIN ps
      /\ \A j \in DOMAIN ps : processes'[j].id = ps[j].id
  OBVIOUS
<1>3. CASE Known(raw)
  <2>1. ps = processes /\ indexOf' = indexOf
    BY <1>1, <1>3 DEF Extended, Register
  <2> QED BY <1>2, <2>1 DEF RegistryConsistent, Known
<1>4. CASE ~Known(raw)
  <2> DEFINE n == Len(processes)
  <2>1. /\ processes \in Seq(ProcessRecord) /\ n \in Nat
        /\ indexOf \in [Services -> 0 .. n]
    BY DEF TypeOK
  <2>2. /\ DOMAIN ps = 1 .. n + 1
        /\ \A j \in 1 .. n : ps[j] = processes[j]
        /\ ps[n + 1].id = raw
    BY <1>4, <2>1 DEF Extended, NewProcess
  <2>3. indexOf' = [indexOf EXCEPT ![raw] = n + 1]
    BY <1>1, <1>4 DEF Register
  <2>4. \A j \in 1 .. n : processes[j].id # raw
    BY <1>4, <2>1 DEF RegistryConsistent, Known, NoPid
  <2>5. ASSUME NEW s \in Services, indexOf'[s] # NoPid
        PROVE  indexOf'[s] \in DOMAIN ps /\ ps[indexOf'[s]].id = s
    <3>1. CASE s = raw
      BY <1>1, <2>1, <2>2, <2>3, <3>1
    <3>2. CASE s # raw
      <4>1. indexOf'[s] = indexOf[s] /\ indexOf[s] \in 1 .. n
        BY <2>1, <2>3, <2>5, <3>2 DEF NoPid
      <4>2. processes[indexOf[s]].id = s
        BY <2>5, <4>1 DEF RegistryConsistent, Known
      <4> QED BY <2>1, <2>2, <4>1, <4>2
    <3> QED BY <3>1, <3>2
  <2>6. ASSUME NEW j \in DOMAIN ps
        PROVE  ps[j].id \in Services /\ indexOf'[ps[j].id] = j
    <3>1. CASE j = n + 1
      BY <1>1, <2>1, <2>2, <2>3, <3>1
    <3>2. CASE j \in 1 .. n
      <4>1. processes[j].id \in Services /\ indexOf[processes[j].id] = j
        BY <2>1, <3>2 DEF RegistryConsistent
      <4> QED BY <2>1, <2>2, <2>3, <2>4, <3>2, <4>1
    <3> QED BY <2>1, <2>2, <3>1, <3>2
  <2> HIDE DEF ps, i, n
  <2> QED BY <1>2, <2>5, <2>6 DEF RegistryConsistent, Known
<1> QED BY <1>3, <1>4

LEMMA ArrivalRegistry ==
    ASSUME TypeOK, RegistryConsistent, NEW e \in Event, HandleArrival(e)
    PROVE  RegistryConsistent'
<1> DEFINE raw == e.pid
           ps  == Extended(processes, raw, NewProcess(raw))
           i   == indexOf'[raw]
<1>1. raw \in Services /\ Register(raw)
  BY EventTyped DEF HandleArrival, Pop
<1>2. ps \in Seq(ProcessRecord) /\ i \in 1 .. Len(ps)
  BY <1>1, RegisterTyped
<1>3. processes' = [ps EXCEPT ![i] = Arrival(ps[i], tick)]
  BY DEF HandleArrival
<1>4. ASSUME NEW p \in ProcessRecord PROVE Arrival(p, tick).id = p.id
  BY DEF Arrival, ProcessRecord
<1> HIDE DEF ps, i
<1>5. DOMAIN processes' = DOMAIN ps /\ \A j \in DOMAIN ps : processes'[j].id = ps[j].id
  <2>1. ps[i] \in ProcessRecord
    BY <1>2
  <2> QED BY <1>2, <1>3, <1>4, <2>1
<1> QED BY <1>1, <1>5, RegisterRegistry DEF ps

LEMMA LockAcquireRegistry ==
    ASSUME TypeOK, RegistryConsistent, NEW e \in Event, HandleLockAcquire(e)
    PROVE  RegistryConsistent'
  BY RegisterRegistry, EventTyped DEF HandleLockAcquire, Pop

LEMMA ScheduleRegistry ==
    ASSUME TypeOK, TypeOK', RegistryConsistent, NEW e \in Event, HandleSchedule(e)
    PROVE  RegistryConsistent'
<1>1. /\ Len(processes') = Len(processes)
      /\ \A i \in DOMAIN processes :
            \E k \in Nat : processes'[i] = ServiceTimes(processes[i], tick, k)
  BY ScheduleChanges
<1>2. \A i \in DOMAIN processes : processes'[i].id = processes[i].id
  <2> SUFFICES ASSUME NEW i \in DOMAIN processes PROVE processes'[i].id = processes[i].id
    OBVIOUS
  <2>1. processes[i] \in ProcessRecord /\ tick \in Nat
    BY EventLoopAssumption DEF TypeOK
  <2>2. PICK k \in Nat : processes'[i] = ServiceTimes(processes[i], tick, k)
    BY <1>1
  <2> QED BY <2>1, <2>2, ServiceTimesKeeps
<1> QED BY <1>1, <1>2, IdsKept DEF HandleSchedule, Schedule

LEMMA BeginTickRegistry ==
    ASSUME TypeOK, TypeOK', RegistryConsistent, BeginTick PROVE RegistryConsistent'
<1>1. /\ Len(processes') = Len(processes)
      /\ \A i \in DOMAIN processes : processes'[i].id = processes[i].id
  <2>1. ASSUME NEW p \in ProcessRecord PROVE WarmupReset(p).id = p.id
    BY DEF WarmupReset, ProcessRecord
  <2>2. processes \in Seq(ProcessRecord) /\ processes' \in Seq(ProcessRecord)
    BY DEF TypeOK
  <2>3. CASE processes' = [i \in DOMAIN processes |-> WarmupReset(processes[i])]
    <3>1. DOMAIN processes' = DOMAIN processes
      BY <2>3
    <3> QED BY <2>1, <2>2, <2>3, <3>1
  <2>4. CASE UNCHANGED processes
    BY <2>4
  <2> QED BY <2>3, <2>4 DEF BeginTick
<1> QED BY <1>1, IdsKept DEF BeginTick

LEMMA ServiceRegistry ==
    ASSUME TypeOK, TypeOK', RegistryConsistent, NEW e \in Event, HandleService(e)
    PROVE  RegistryConsistent'
<1> DEFINE i == indexOf[e.pid]
<1> PICK at : processes' = [processes EXCEPT ![i] = Service(processes[i], at)]
  BY DEF HandleService
<1> HIDE DEF i
<1>1. processes \in Seq(ProcessRecord) /\ Len(processes') = Len(processes)
  BY DEF TypeOK
<1>2. \A j \in DOMAIN processes : processes'[j].id = processes[j].id
  <2> SUFFICES ASSUME NEW j \in DOMAIN processes
               PROVE  processes'[j].id = processes[j].id
    OBVIOUS
  <2>1. processes[j] \in ProcessRecord
    BY <1>1
  <2>2. Service(processes[j], at).id = processes[j].id
    BY <2>1, ServiceKeeps
  <2>3. processes'[j] = IF j = i THEN Service(processes[j], at) ELSE processes[j]
    OBVIOUS
  <2> QED BY <2>2, <2>3
<1> QED BY <1>1, <1>2, IdsKept DEF HandleService

LEMMA MetricsRegistry ==
    ASSUME TypeOK, TypeOK', RegistryConsistent, NEW e \in Event, HandleMetrics(e)
    PROVE  RegistryConsistent'
<1>1. /\ Len(processes') = Len(processes)
      /\ \A i \in DOMAIN processes : processes'[i].id = processes[i].id
  <2>1. ASSUME NEW p \in ProcessRecord PROVE TickIdle(p).id = p.id
    BY DEF TickIdle, ProcessRecord
  <2> DEFINE after(i) == IF i = last THEN processes[i] ELSE TickIdle(processes[i])
  <2>2. \A i \in DOMAIN processes : after(i).id = processes[i].id
    BY <2>1 DEF TypeOK
  <2>3. processes' = [i \in DOMAIN processes |-> after(i)]
    BY DEF HandleMetrics
  <2>4. processes \in Seq(ProcessRecord) /\ processes' \in Seq(ProcessRecord)
    BY DEF TypeOK
  <2> HIDE DEF after
  <2>5. DOMAIN processes' = DOMAIN processes
    BY <2>3
  <2> QED BY <2>2, <2>3, <2>4, <2>5
<1> QED BY <1>1, IdsKept DEF HandleMetrics

-----------------------------------------------------------------------------

(***************************************************************************)
(* The inductive invariant behind both TypeOK and RegistryConsistent: the  *)
(* index of a service is in range because the registry is consistent, and  *)
(* tick stays in range because the loop ends at the last tick.             *)
(***************************************************************************)
RegistryInv ==
    /\ TypeOK
    /\ RegistryConsistent
    /\ pc # "done" => tick < Ticks

LEMMA RegistryStep ==
    ASSUME LockInv, LockInv', RegistryInv, [Next]_vars PROVE RegistryInv'
<1> USE DEF RegistryInv
<1>1. TypeOK' /\ RegistryConsistent'
  <2>1. CASE BeginTick
    BY <2>1, BeginTickTypes, BeginTickRegistry
  <2>2. ASSUME NEW e \in Event, HandleArrival(e) PROVE TypeOK' /\ RegistryConsistent'
    BY <2>2, ArrivalTypes, ArrivalRegistry
  <2>3. ASSUME NEW e \in Event, HandleLockAcquire(e)
        PROVE  TypeOK' /\ RegistryConsistent'
    BY <2>3, LockAcquireTypes, LockAcquireRegistry
  <2>4. ASSUME NEW e \in Event, IgnoreLockEvent(e) \/ IgnoreService(e)
        PROVE  TypeOK' /\ RegistryConsistent'
    <3>1. TypeOK'
      BY <2>4, IgnoreTypes
    <3> QED BY <2>4, <3>1, IdsKept DEF IgnoreLockEvent, IgnoreService
  <2>5. ASSUME NEW e \in Event, HandleSchedule(e) PROVE TypeOK' /\ RegistryConsistent'
    <3>1. TypeOK'
      BY <2>5, ScheduleTypes
    <3> QED BY <2>5, <3>1, ScheduleRegistry
  <2>6. ASSUME NEW e \in Event, HandleService(e) PROVE TypeOK' /\ RegistryConsistent'
    BY <2>6, ServiceTypes, ServiceRegistry
  <2>7. ASSUME NEW e \in Event, HandleMetrics(e) PROVE TypeOK' /\ RegistryConsistent'
    BY <2>7, MetricsTypes, MetricsRegistry
  <2>8. CASE EndTick
    <3>1. TypeOK'
      BY <2>8, EndTickTypes DEF EndTick
    <3> QED BY <2>8, <3>1, IdsKept DEF EndTick
  <2>9. CASE Terminated \/ UNCHANGED vars
    <3>1. UNCHANGED vars
      BY <2>9 DEF Terminated
    <3>2. TypeOK'
      BY <3>1 DEF TypeOK, LM!TypeOK, vars, loopVars, lockingVars, history
    <3> QED BY <3>1, <3>2, IdsKept DEF vars, loopVars
  <2> QED BY <2>1, <2>2, <2>3, <2>4, <2>5, <2>6, <2>7, <2>8, <2>9 DEF Next
<1>2. pc' # "done" => tick' < Ticks
  <2>1. CASE EndTick
    BY <2>1 DEF EndTick
  <2>2. CASE ~EndTick
    BY <2>2 DEF Next, BeginTick, HandleArrival, HandleLockAcquire, IgnoreLockEvent,
                HandleSchedule, Schedule, HandleService, IgnoreService, HandleMetrics,
                Terminated, Pop, vars, loopVars
  <2> QED BY <2>1, <2>2
<1> QED BY <1>1, <1>2

LEMMA RegistryInvariant == Spec => []RegistryInv
<1>1. Init => RegistryInv
  BY InitTypes, InitRegistry, EventLoopAssumption DEF RegistryInv, Init
<1>2. LockInv /\ LockInv' /\ RegistryInv /\ [Next]_vars => RegistryInv'
  BY RegistryStep
<1> QED BY <1>1, <1>2, LockInvariant, PTL DEF Spec

(***************************************************************************)
(* Every variable of the loop keeps its type, in every mode: indices are   *)
(* in range of the process vector, whatever is registered and when.        *)
(***************************************************************************)
THEOREM TypeCorrect == Spec => []TypeOK
BY RegistryInvariant, PTL DEF RegistryInv

(***************************************************************************)
(* The map from service ids and the vector of processes are inverse to     *)
(* each other, however services appear in the trace.                       *)
(***************************************************************************)
THEOREM RegistryStaysConsistent == Spec => []RegistryConsistent
BY RegistryInvariant, PTL DEF RegistryInv

-----------------------------------------------------------------------------
(* All job queues.                                                         *)

AllSound == \A i \in DOMAIN processes : Sound(processes[i], carried[i], tick)

LEMMA AllSoundStep ==
    ASSUME RegistryInv, RegistryInv', AllSound, [Next]_vars
    PROVE  AllSound'
<1>1. /\ processes \in Seq(ProcessRecord) /\ carried \in Seq(Int)
      /\ Len(carried) = Len(processes) /\ tick \in Nat
  BY EventLoopAssumption DEF RegistryInv, TypeOK
<1>2. ASSUME NEW i \in DOMAIN processes
      PROVE  /\ processes[i] \in ProcessRecord /\ carried[i] \in Int
             /\ Sound(processes[i], carried[i], tick)
  BY <1>1 DEF AllSound
<1>3. CASE BeginTick
  <2>1. tick' = tick
    BY <1>3 DEF BeginTick
  <2>2. CASE /\ processes' = [i \in DOMAIN processes |-> WarmupReset(processes[i])]
             /\ carried'   = [i \in DOMAIN processes |-> processes[i].queue_length]
    <3> SUFFICES ASSUME NEW i \in DOMAIN processes
                 PROVE  Sound(processes'[i], carried'[i], tick)
      BY <2>1, <2>2 DEF AllSound
    <3> QED BY <1>2, <2>2, WarmupResetSound
  <2>3. CASE UNCHANGED <<processes, carried>>
    BY <2>1, <2>3 DEF AllSound
  <2> QED BY <1>3, <2>2, <2>3 DEF BeginTick
<1>4. ASSUME NEW raw \in Services, Register(raw), UNCHANGED tick,
             carried' = Extended(carried, raw, 0)
      PROVE  LET ps == Extended(processes, raw, NewProcess(raw))
             IN  /\ ps \in Seq(ProcessRecord)
                 /\ \A i \in DOMAIN ps : /\ Sound(ps[i], carried'[i], tick)
                                         /\ carried'[i] \in Int
  <2> DEFINE ps == Extended(processes, raw, NewProcess(raw))
             cs == Extended(carried, raw, 0)
  <2>1. ps \in Seq(ProcessRecord)
    BY <1>4, RegisterTyped DEF RegistryInv
  <2>2. ASSUME NEW i \in DOMAIN ps
        PROVE  Sound(ps[i], cs[i], tick) /\ cs[i] \in Int
    <3>1. CASE i \in DOMAIN processes
      <4>1. ps[i] = processes[i] /\ cs[i] = carried[i]
        BY <1>1, <3>1 DEF Extended
      <4> QED BY <1>2, <3>1, <4>1
    <3>2. CASE i \notin DOMAIN processes
      <4>1. ps[i] = NewProcess(raw) /\ cs[i] = 0
        BY <1>1, <2>2, <3>2 DEF Extended
      <4> QED BY <1>1, <4>1, NewProcessSound
    <3> QED BY <3>1, <3>2
  <2> QED BY <1>4, <2>1, <2>2
<1>5. ASSUME NEW e \in Event, HandleArrival(e) PROVE AllSound'
  <2> DEFINE ps == Extended(processes, e.pid, NewProcess(e.pid))
             k  == indexOf'[e.pid]
  <2>1. /\ processes' = [ps EXCEPT ![k] = Arrival(ps[k], tick)]
        /\ carried' = Extended(carried, e.pid, 0) /\ tick' = tick
        /\ Register(e.pid) /\ e.pid \in Services
    BY <1>5, EventTyped DEF HandleArrival, Pop
  <2>2. /\ ps \in Seq(ProcessRecord)
        /\ \A i \in DOMAIN ps : Sound(ps[i], carried'[i], tick) /\ carried'[i] \in Int
    BY <1>4, <2>1
  <2> HIDE DEF ps, k
  <2>3. ASSUME NEW i \in DOMAIN ps PROVE Sound(processes'[i], carried'[i], tick)
    <3>1. ps[i] \in ProcessRecord
      BY <2>2
    <3>2. Sound(Arrival(ps[i], tick), carried'[i], tick)
      BY <1>1, <2>2, <3>1, ArrivalSound
    <3>3. processes'[i] = IF i = k THEN Arrival(ps[i], tick) ELSE ps[i]
      BY <2>1
    <3> QED BY <2>2, <3>2, <3>3
  <2>4. DOMAIN processes' = DOMAIN ps
    BY <2>1
  <2> QED BY <2>1, <2>3, <2>4 DEF AllSound
<1>6. ASSUME NEW e \in Event, HandleLockAcquire(e) PROVE AllSound'
  <2>1. /\ processes' = Extended(processes, e.pid, NewProcess(e.pid))
        /\ carried' = Extended(carried, e.pid, 0) /\ tick' = tick
        /\ Register(e.pid) /\ e.pid \in Services
    BY <1>6, EventTyped DEF HandleLockAcquire, Pop
  <2> QED BY <1>4, <2>1 DEF AllSound
<1>7. ASSUME NEW e \in Event, HandleSchedule(e) PROVE AllSound'
  <2>1. UNCHANGED <<tick, carried>>
    BY <1>7 DEF HandleSchedule, Schedule
  <2>2. /\ Len(processes') = Len(processes) /\ processes' \in Seq(ProcessRecord)
        /\ \A i \in DOMAIN processes :
              \E k \in Nat : processes'[i] = ServiceTimes(processes[i], tick, k)
    BY <1>7, ScheduleChanges DEF RegistryInv
  <2>3. DOMAIN processes' = DOMAIN processes
    BY <1>1, <2>2
  <2>4. ASSUME NEW i \in DOMAIN processes PROVE Sound(processes'[i], carried[i], tick)
    <3>1. PICK k \in Nat : processes'[i] = ServiceTimes(processes[i], tick, k)
      BY <2>2
    <3> QED BY <1>1, <1>2, <3>1, ServiceTimesKeeps
  <2> QED BY <2>1, <2>3, <2>4 DEF AllSound
<1>8. ASSUME NEW e \in Event, HandleService(e) PROVE AllSound'
  <2> DEFINE k == indexOf[e.pid]
  <2>1. PICK at : processes' = [processes EXCEPT ![k] = Service(processes[k], at)]
    BY <1>8 DEF HandleService
  <2>2. UNCHANGED <<tick, carried>>
    BY <1>8 DEF HandleService
  <2> HIDE DEF k
  <2>3. ASSUME NEW i \in DOMAIN processes PROVE Sound(processes'[i], carried[i], tick)
    <3>1. Sound(Service(processes[i], at), carried[i], tick)
      BY <1>1, <1>2, ServiceSound
    <3>2. processes'[i] = IF i = k THEN Service(processes[i], at) ELSE processes[i]
      BY <2>1
    <3> QED BY <1>2, <3>1, <3>2
  <2>4. DOMAIN processes' = DOMAIN processes
    BY <2>1
  <2> QED BY <2>2, <2>3, <2>4 DEF AllSound
<1>9. ASSUME NEW e \in Event, HandleMetrics(e) PROVE AllSound'
  <2> DEFINE after(i) == IF i = last THEN processes[i] ELSE TickIdle(processes[i])
  <2>1. /\ processes' = [i \in DOMAIN processes |-> after(i)]
        /\ UNCHANGED <<tick, carried>>
    BY <1>9 DEF HandleMetrics, history
  <2>2. ASSUME NEW i \in DOMAIN processes PROVE Sound(after(i), carried[i], tick)
    <3>1. Sound(TickIdle(processes[i]), carried[i], tick)
      BY <1>2, TickIdleSound
    <3> QED BY <1>2, <3>1
  <2> HIDE DEF after
  <2> QED BY <2>1, <2>2 DEF AllSound
<1>10. CASE EndTick
  <2>1. tick' = tick + 1 /\ UNCHANGED <<processes, carried>>
    BY <1>10 DEF EndTick
  <2> QED BY <1>1, <1>2, <2>1, LaterSound DEF AllSound
<1>11. ASSUME NEW e \in Event,
             IgnoreLockEvent(e) \/ IgnoreService(e)
      PROVE  AllSound'
  BY <1>11 DEF IgnoreLockEvent, IgnoreService, AllSound, history
<1>12. CASE Terminated \/ UNCHANGED vars
  BY <1>12 DEF Terminated, vars, loopVars, history, AllSound
<1> QED BY <1>3, <1>5, <1>6, <1>7, <1>8, <1>9, <1>10, <1>11, <1>12 DEF Next

LEMMA InitSound == Init => AllSound
<1> SUFFICES ASSUME Init, NEW i \in DOMAIN processes
             PROVE  Sound(processes[i], carried[i], tick)
  BY DEF AllSound
<1>1. processes[i] = NewProcess(i - 1) /\ carried[i] = 0 /\ tick = 0
  BY DEF Init
<1> QED BY <1>1, NewProcessSound

LEMMA SoundInvariant == Spec => []AllSound
<1>1. RegistryInv /\ RegistryInv' /\ AllSound /\ [Next]_vars => AllSound'
  BY AllSoundStep
<1> QED BY <1>1, InitSound, RegistryInvariant, PTL DEF Spec

(***************************************************************************)
(* In every mode queue_length counts the queue of every process, which is  *)
(* in arrival order and holds no job from the future: service pops the job *)
(* that waited longest, also when it was charged a context switch.         *)
(***************************************************************************)
THEOREM QueuesStayConsistent == Spec => []QueueConsistent
<1>1. AllSound => QueueConsistent
  BY DEF AllSound, Sound, JobsConsistent, QueueConsistent
<1> QED BY <1>1, SoundInvariant, PTL

(***************************************************************************)
(* In every mode no job is lost or made up: arrivals counted and jobs      *)
(* carried over the warm-up boundary are completed or still queued.        *)
(***************************************************************************)
THEOREM JobsAccountedFor == Spec => []Accounting
<1>1. AllSound => Accounting
  BY DEF AllSound, Sound, Balanced, Accounting
<1> QED BY <1>1, SoundInvariant, PTL

-----------------------------------------------------------------------------
(* Lock mode: who is charged for waiting.                                  *)

\* The requests that wait for the locks i owns.
Blocked(i) == SumFunctionOnSet([l \in Locks |-> Len(waiters[l])], {l \in Locks : owner[l] = i})

LEMMA LocksFinite ==
    ASSUME NEW S \in SUBSET Locks PROVE IsFiniteSet(S)
<1>1. IsFiniteSet(Locks)
  BY FS_Interval, EventLoopAssumption DEF Locks
<1> QED BY <1>1, FS_Subset

LEMMA BlockedNatural ==
    ASSUME LM!TypeOK, NEW i
    PROVE  /\ Blocked(i) \in Nat
           /\ Summable([l \in Locks |-> Len(waiters[l])], {l \in Locks : owner[l] = i})
<1> DEFINE w == [l \in Locks |-> Len(waiters[l])]
           S == {l \in Locks : owner[l] = i}
<1>1. IsFiniteSet(S) /\ S \in SUBSET Locks
  BY LocksFinite
<1>2. \A l \in S : w[l] \in Nat
  BY DEF LM!TypeOK
<1> HIDE DEF w, S
<1>3. SumFunctionOnSet(w, S) \in Nat /\ Summable(w, S)
  BY <1>1, <1>2, SumNatural DEF Summable
<1> QED BY <1>3 DEF Blocked, w, S

LEMMA BlockedTyped == LM!TypeOK => \A i : Blocked(i) \in Nat
  BY BlockedNatural

LEMMA BlockedTypedNext == (LM!TypeOK => \A i : Blocked(i) \in Nat)'
  BY BlockedTyped, PTL

\* A lock changes hands, or its line changes: nobody else is concerned.
LEMMA BlockedSame ==
    ASSUME LM!TypeOK, NEW i,
           \A l \in Locks : (owner'[l] = i <=> owner[l] = i),
           \A l \in Locks : owner[l] = i => waiters'[l] = waiters[l]
    PROVE  Blocked(i)' = Blocked(i)
<1> DEFINE w  == [l \in Locks |-> Len(waiters[l])]
           w2 == [l \in Locks |-> Len(waiters'[l])]
           S  == {l \in Locks : owner[l] = i}
<1>1. {l \in Locks : owner'[l] = i} = S
  OBVIOUS
<1>2. \A l \in S : w2[l] = w[l]
  OBVIOUS
<1>3. Summable(w, S)
  BY BlockedNatural
<1> HIDE DEF w, w2, S
<1>4. SumFunctionOnSet(w2, S) = SumFunctionOnSet(w, S)
  BY <1>2, <1>3, SumSame
<1> QED BY <1>1, <1>4 DEF Blocked, w, w2, S

\* i becomes the owner of l.
LEMMA BlockedGains ==
    ASSUME LM!TypeOK, LM!TypeOK', NEW i, NEW l \in Locks, owner[l] # i,
           owner' = [owner EXCEPT ![l] = i],
           \A m \in Locks \ {l} : waiters'[m] = waiters[m]
    PROVE  Blocked(i)' >= Blocked(i)
<1> DEFINE w  == [m \in Locks |-> Len(waiters[m])]
           w2 == [m \in Locks |-> Len(waiters'[m])]
           S  == {m \in Locks : owner[m] = i}
<1>1. {m \in Locks : owner'[m] = i} = S \cup {l} /\ l \notin S
  BY DEF LM!TypeOK
<1>2. (\A m \in S : w2[m] = w[m]) /\ w2[l] \in Nat
  BY DEF LM!TypeOK
<1>3. Summable(w, S) /\ SumFunctionOnSet(w, S) \in Nat
  BY BlockedNatural DEF Blocked
<1> HIDE DEF w, w2, S
<1>4. SumFunctionOnSet(w2, S \cup {l}) = SumFunctionOnSet(w, S) + w2[l]
  BY <1>1, <1>2, <1>3, SumAdd
<1>5. SumFunctionOnSet(w2, S \cup {l}) >= SumFunctionOnSet(w, S)
  BY <1>2, <1>3, <1>4
<1> QED BY <1>1, <1>5 DEF Blocked, w, w2, S

\* One more request waits for a lock of i.
LEMMA BlockedGrows ==
    ASSUME LM!TypeOK, LM!TypeOK', NEW i, NEW l \in Locks, owner[l] = i, UNCHANGED owner,
           NEW p \in Pids, waiters' = [waiters EXCEPT ![l] = Append(@, p)]
    PROVE  Blocked(i)' = Blocked(i) + 1
<1> DEFINE w  == [m \in Locks |-> Len(waiters[m])]
           w2 == [m \in Locks |-> Len(waiters'[m])]
           S  == {m \in Locks : owner[m] = i}
<1>1. {m \in Locks : owner'[m] = i} = S /\ l \in S
  OBVIOUS
<1>2. /\ \A m \in S \ {l} : w2[m] = w[m]
      /\ w[l] \in Nat /\ w2[l] = w[l] + 1
  BY DEF LM!TypeOK
<1>3. Summable(w, S) /\ SumFunctionOnSet(w, S) \in Nat
  BY BlockedNatural DEF Blocked
<1>4. Summable(w2, S)
  <2>1. \A m \in S : w2[m] \in Int
    BY DEF LM!TypeOK
  <2> QED BY <1>3, <2>1 DEF Summable
<1> HIDE DEF w, w2, S
<1>5. SumFunctionOnSet(w2, S) = SumFunctionOnSet(w, S) + (w2[l] - w[l])
  BY <1>1, <1>2, <1>3, <1>4, SumChange
<1>6. SumFunctionOnSet(w2, S) = SumFunctionOnSet(w, S) + 1
  BY <1>2, <1>3, <1>5
<1> QED BY <1>1, <1>6 DEF Blocked, w, w2, S

DebtInv == \A i \in DOMAIN syncDebt : syncDebt[i] <= Blocked(i)

LEMMA LockAcquireDebt ==
    ASSUME LockInv, LockInv', TypeOK, TypeOK', DebtInv, NEW e \in Event, HandleLockAcquire(e)
    PROVE  DebtInv'
<1> DEFINE l  == e.payload
           ds == Extended(syncDebt, e.pid, 0)
<1>p. PICK p \in Pids : p = indexOf'[e.pid]
  <2>1. e.pid \in Services /\ Register(e.pid)
    BY EventTyped DEF HandleLockAcquire, Pop
  <2> QED BY <2>1, RegisterLocks
<1>o. PICK o : o = owner[l]
  OBVIOUS
<1>1. LM!TypeOK /\ LM!TypeOK' /\ syncDebt \in Seq(Nat)
  BY DEF TypeOK
<1>2. ASSUME NEW i \in DOMAIN ds PROVE ds[i] \in Nat /\ ds[i] <= Blocked(i)
  <2>1. CASE i \in DOMAIN syncDebt
    BY <1>1, <2>1 DEF Extended, DebtInv
  <2>2. CASE i \notin DOMAIN syncDebt
    <3>1. ds[i] = 0
      BY <1>1, <1>2, <2>2 DEF Extended
    <3>2. Blocked(i) \in Nat
      BY <1>1, BlockedTyped
    <3> QED BY <3>1, <3>2
  <2> QED BY <2>1, <2>2
<1>3. \A i : Blocked(i) \in Nat /\ Blocked(i)' \in Nat
  BY <1>1, BlockedTyped, BlockedTypedNext
<1>4. ds \in Seq(Nat)
  BY <1>1 DEF Extended
<1> HIDE DEF ds
<1>5. CASE syncDebt' = ds /\ UNCHANGED <<owner, waiters>>
  BY <1>2, <1>5 DEF DebtInv, Blocked
<1>6. CASE l \in Locks /\ LM!Grant(l, p) /\ syncDebt' = ds
  <2>1. o = NoPid /\ owner' = [owner EXCEPT ![l] = p] /\ UNCHANGED waiters
    BY <1>o, <1>6 DEF LM!Grant, LM!NoOwner, NoPid
  <2>2. Blocked(p)' >= Blocked(p)
    <3>1. owner[l] # p
      BY <1>o, <2>1 DEF Pids
    <3>2. \A m \in Locks \ {l} : waiters'[m] = waiters[m]
      BY <2>1
    <3> QED BY <1>1, <1>6, <2>1, <3>1, <3>2, BlockedGains
  <2>3. ASSUME NEW i \in DOMAIN ds, i # p PROVE Blocked(i)' = Blocked(i)
    <3>1. i # NoPid
      BY <1>4, <2>3 DEF NoPid
    <3>2. \A m \in Locks : owner'[m] = i <=> owner[m] = i
      BY <1>1, <1>o, <1>6, <2>1, <2>3, <3>1 DEF LM!TypeOK
    <3> QED BY <1>1, <2>1, <3>2, BlockedSame
  <2>4. ASSUME NEW i \in DOMAIN ds PROVE ds[i] <= Blocked(i)'
    <3>1. Blocked(i)' >= Blocked(i)
      <4>1. CASE i = p
        BY <2>2, <4>1
      <4>2. CASE i # p
        BY <1>3, <2>3, <4>2
      <4> QED BY <4>1, <4>2
    <3>2. Blocked(i) \in Nat /\ Blocked(i)' \in Nat
      BY <1>3
    <3>3. ds[i] \in Nat /\ ds[i] <= Blocked(i)
      BY <1>2
    <3> QED BY <3>1, <3>2, <3>3
  <2> QED BY <1>6, <2>4 DEF DebtInv
<1>7. CASE l \in Locks /\ LM!Enqueue(l, p) /\ syncDebt' = [ds EXCEPT ![o] = @ + 1]
  <2>1. UNCHANGED owner /\ waiters' = [waiters EXCEPT ![l] = Append(@, p)]
    BY <1>7 DEF LM!Enqueue
  <2>2. Blocked(o)' = Blocked(o) + 1
    BY <1>1, <1>o, <1>7, <2>1, BlockedGrows
  <2>3. ASSUME NEW i, i # o PROVE Blocked(i)' = Blocked(i)
    <3>1. \A m \in Locks : owner[m] = i => waiters'[m] = waiters[m]
      BY <1>1, <1>o, <1>7, <2>1, <2>3 DEF LM!TypeOK
    <3> QED BY <1>1, <2>1, <3>1, BlockedSame
  <2>4. ASSUME NEW i \in DOMAIN ds PROVE syncDebt'[i] <= Blocked(i)'
    <3>1. Blocked(i) \in Nat /\ Blocked(i)' \in Nat
      BY <1>3
    <3>2. ds[i] \in Nat /\ ds[i] <= Blocked(i)
      BY <1>2
    <3>3. CASE i = o
      <4>1. syncDebt'[i] = ds[i] + 1
        BY <1>4, <1>7, <3>3
      <4>2. Blocked(i)' = Blocked(i) + 1
        BY <2>2, <3>3
      <4> QED BY <3>1, <3>2, <4>1, <4>2
    <3>4. CASE i # o
      <4>1. syncDebt'[i] = ds[i]
        BY <1>4, <1>7, <3>4
      <4> QED BY <2>3, <3>2, <3>4, <4>1
    <3> QED BY <3>3, <3>4
  <2>5. DOMAIN syncDebt' = DOMAIN ds
    BY <1>7
  <2> QED BY <2>4, <2>5 DEF DebtInv
<1> QED BY <1>p, <1>o, <1>5, <1>6, <1>7 DEF HandleLockAcquire, ds

\* The lock of i is freed or handed on: nobody else owns less than before.
LEMMA ReleaseGains ==
    ASSUME TypeOK, TypeOK', NEW l \in Locks, LM!Free(l) \/ LM!Promote(l),
           NEW j \in DOMAIN syncDebt, owner[l] # j
    PROVE  Blocked(j)' >= Blocked(j)
<1>1. LM!TypeOK /\ LM!TypeOK' /\ j \in Pids
  BY DEF TypeOK, Pids, NoPid
<1>2. Blocked(j) \in Nat /\ Blocked(j)' \in Nat
  BY <1>1, BlockedTyped, BlockedTypedNext
<1>w. PICK w : owner' = [owner EXCEPT ![l] = w] /\ \A m \in Locks \ {l} : waiters'[m] = waiters[m]
  BY <1>1 DEF LM!Free, LM!Promote, LM!TypeOK
<1>3. CASE w = j
  <2>1. \A m \in Locks \ {l} : waiters'[m] = waiters[m]
    BY <1>w
  <2>2. owner' = [owner EXCEPT ![l] = j]
    BY <1>w, <1>3
  <2> QED BY <1>1, <2>1, <2>2, BlockedGains
<1>4. CASE w # j
  <2>1. \A m \in Locks : owner'[m] = j <=> owner[m] = j
    BY <1>1, <1>w, <1>4 DEF LM!TypeOK
  <2>2. \A m \in Locks : owner[m] = j => waiters'[m] = waiters[m]
    BY <1>w
  <2>3. Blocked(j)' = Blocked(j)
    BY <1>1, <2>1, <2>2, BlockedSame
  <2> QED BY <1>2, <2>3
<1> QED BY <1>3, <1>4

LEMMA ScheduleDebt ==
    ASSUME LockInv, TypeOK, TypeOK', DebtInv, NEW e \in Event, HandleSchedule(e)
    PROVE  DebtInv'
<1>1. LM!TypeOK /\ LM!TypeOK' /\ syncDebt \in Seq(Nat)
  BY DEF TypeOK
<1>2. \A j : Blocked(j) \in Nat /\ Blocked(j)' \in Nat
  BY <1>1, BlockedTyped, BlockedTypedNext
<1>3. CASE UNCHANGED <<syncDebt, owner, waiters>>
  BY <1>3 DEF DebtInv, Blocked
<1>4. ASSUME NEW i \in Decisions, i # NoPid, lockState[i].holds_lock, RunCriticalSection(i)
      PROVE  DebtInv'
  <2>i. i \in DOMAIN processes
    BY <1>4 DEF Decisions, Candidates
  <2>l. PICK l : l = lockState[i].held_lock_id
    OBVIOUS
  <2>1. l \in Locks /\ owner[l] = i
    BY <1>4, <2>i, <2>l DEF LockInv, HolderOwnsLock
  <2>2. CASE syncDebt' = DebtCleared(i) /\ (LM!Free(l) \/ LM!Promote(l))
    <3>1. ASSUME NEW j \in DOMAIN syncDebt PROVE syncDebt'[j] <= Blocked(j)'
      <4>1. Blocked(j) \in Nat /\ Blocked(j)' \in Nat
        BY <1>2
      <4>2. CASE j = i
        <5>1. syncDebt'[j] = 0
          BY <1>1, <2>2, <4>2 DEF DebtCleared
        <5> QED BY <4>1, <5>1
      <4>3. CASE j # i
        <5>1. syncDebt'[j] = syncDebt[j] /\ syncDebt[j] \in Nat
          BY <1>1, <2>2, <4>3 DEF DebtCleared
        <5>2. syncDebt[j] <= Blocked(j)
          BY DEF DebtInv
        <5>3. Blocked(j)' >= Blocked(j)
          BY <2>1, <2>2, <4>3, ReleaseGains
        <5> QED BY <4>1, <5>1, <5>2, <5>3
      <4> QED BY <4>2, <4>3
    <3>2. DOMAIN syncDebt' = DOMAIN syncDebt
      BY <2>2 DEF DebtCleared
    <3> QED BY <3>1, <3>2 DEF DebtInv
  <2> QED BY <1>3, <1>4, <2>l, <2>2 DEF RunCriticalSection
<1> QED BY <1>3, <1>4 DEF HandleSchedule, Schedule, lockingVars

(***************************************************************************)
(* An owner is charged for the requests that wait for its locks and for    *)
(* no other: a request charged to it still waits, a released lock takes    *)
(* its charge with it, and a promoted waiter starts without any.           *)
(***************************************************************************)
THEOREM DebtStaysBounded == Spec => []DebtBounded
<1>1. Init => DebtInv
  <2> SUFFICES ASSUME Init, NEW i \in DOMAIN syncDebt PROVE syncDebt[i] <= Blocked(i)
    BY DEF DebtInv
  <2>1. LM!TypeOK
    BY InitTypes DEF TypeOK
  <2>2. Blocked(i) \in Nat
    BY <2>1, BlockedTyped
  <2>3. syncDebt[i] = 0
    BY DEF Init
  <2> QED BY <2>2, <2>3
<1>2. LockInv /\ LockInv' /\ TypeOK /\ TypeOK' /\ DebtInv /\ [Next]_vars => DebtInv'
  <2> SUFFICES ASSUME LockInv, LockInv', TypeOK, TypeOK', DebtInv, [Next]_vars PROVE DebtInv'
    OBVIOUS
  <2>1. ASSUME UNCHANGED lockingVars PROVE DebtInv'
    BY <2>1 DEF lockingVars, DebtInv, Blocked
  <2>2. ASSUME NEW e \in Event, HandleArrival(e) PROVE DebtInv'
    <3>1. /\ UNCHANGED <<owner, waiters>>
          /\ syncDebt' = Extended(syncDebt, e.pid, 0)
          /\ LM!TypeOK /\ syncDebt \in Seq(Nat)
      BY <2>2 DEF HandleArrival, TypeOK
    <3>2. \A i : Blocked(i)' = Blocked(i) /\ Blocked(i) \in Nat
      BY <3>1, BlockedTyped DEF Blocked
    <3> QED BY <3>1, <3>2 DEF DebtInv, Extended
  <2>3. ASSUME NEW e \in Event, HandleLockAcquire(e) PROVE DebtInv'
    BY <2>3, LockAcquireDebt
  <2>4. ASSUME NEW e \in Event, HandleSchedule(e) PROVE DebtInv'
    BY <2>4, ScheduleDebt
  <2> QED BY <2>1, <2>2, <2>3, <2>4
          DEF Next, BeginTick, IgnoreLockEvent, HandleService, IgnoreService, HandleMetrics,
              EndTick, Terminated, vars
<1>3. TypeOK /\ DebtInv => DebtBounded
  <2> SUFFICES ASSUME TypeOK, DebtInv PROVE DebtBounded
    OBVIOUS
  <2>1. DOMAIN syncDebt = DOMAIN processes
    BY DEF TypeOK
  <2> QED BY <2>1 DEF DebtInv, DebtBounded, Blocked
<1> QED BY <1>1, <1>2, <1>3, LockInvariant, TypeCorrect, PTL DEF Spec

=============================================================================
