----------------------------- MODULE EventLoop ------------------------------
(***************************************************************************)
(* The simulation loop (core/EventLoop.cpp): every tick it lets the event  *)
(* source push this tick's events, adds one Schedule and one Metrics       *)
(* event, and drains the heap.  One action stands for the start of a tick, *)
(* one for each handler that a popped event reaches, one for the end of    *)
(* the tick.                                                               *)
(*                                                                         *)
(* The scheduler is any object that honours what every policy of the       *)
(* program does (Decisions below).  The event source pushes any sequence   *)
(* of at most MaxBatch events whose types are in SourceTypes.  Writing log *)
(* rows changes no state of the loop and is left out.                      *)
(*                                                                         *)
(* Process indices start at 1 here; 0 is "no process": an invalid decision *)
(* and the code's prev_decision_ = -1.                                     *)
(***************************************************************************)
EXTENDS EventQueue, Process, OnlineMetrics

CONSTANTS
    NumLocks,       \* config.num_locks
    LockMode,       \* TRUE iff the workload is "lock_contention"
    SourceTypes,    \* the types of event the source pushes
    MaxBatch,       \* bound: events pushed by the source in one tick
    HoldTimes,      \* bound: lengths of a critical section, in CPU ticks
    MaxRelease,     \* bound: floor(mu_hat), services per scheduled holder tick
    Ticks,          \* config.ticks
    WarmupTicks,    \* config.warmup_ticks
    SwitchCost      \* config.context_switch_cost

Locks   == 0 .. NumLocks - 1
NoPid   == 0
Pids    == Nat \ {NoPid}     \* indices a process may have
InitialServices == 0 .. NumProcs - 1

ASSUME EventLoopAssumption ==
    /\ InitialServices \subseteq Services
    /\ NumLocks \in Nat \ {0} /\ Locks \subseteq LockIds
    /\ LockMode \in BOOLEAN
    /\ SourceTypes \subseteq {"Arrival", "LockAcquire", "LockRelease", "Service"}
    /\ MaxBatch \in Nat
    /\ HoldTimes \subseteq Nat /\ HoldTimes # {}
    /\ MaxRelease \in Nat \ {0}
    /\ Ticks \in Nat \ {0} /\ WarmupTicks \in Nat /\ SwitchCost \in Nat

VARIABLES
    tick,         \* the loop counter
    pc,           \* "tick": before a tick; "drain": in the drain loop; "done"
    heap,         \* event_queue_
    indexOf,      \* service_id_to_index_; NoPid where the map has no entry
    processes,    \* processes_, in order of registration
    lockState,    \* processes_[i].lock_state
    syncDebt,     \* processes_[i].sync_debt
    owner,        \* lock_mgr_: owner of each lock
    waiters,      \* lock_mgr_: FIFO queue of each lock
    last,         \* last_decision_: the index chosen, or NoPid if not valid
    prev,         \* prev_decision_
    online,       \* online_metrics_
    offline,      \* offline_metrics_: waiting times, decisions, switches
    served,       \* history: jobs completed in this tick
    carried       \* history: queue lengths when arrival_count was last reset

loopVars == <<tick, pc, heap, indexOf, processes, last, prev, online, offline>>
lockingVars == <<lockState, syncDebt, owner, waiters>>
history == <<served, carried>>
vars == <<loopVars, lockingVars, history>>

LM == INSTANCE LockManager WITH Clients <- Pids

LockStates == [holds_lock   : BOOLEAN,
               held_lock_id : Locks \cup {-1},
               required_cpu : Nat,
               elapsed_cpu  : Nat]

NoLock == [holds_lock |-> FALSE, held_lock_id |-> -1,
           required_cpu |-> 0, elapsed_cpu |-> 0]

Holding(l, hold) == [holds_lock |-> TRUE, held_lock_id |-> l,
                     required_cpu |-> hold, elapsed_cpu |-> 0]

OfflineInit == [waits            |-> 0,    \* wait_times_.size()
                total_wait_sum   |-> 0,
                decision_count   |-> 0,
                context_switches |-> 0,
                last_chosen_pid  |-> NoPid]

\* recordWaitingTime, for n jobs that waited w ticks in all.
RecordWaits(om, n, w) == [om EXCEPT !.waits = @ + n, !.total_wait_sum = @ + w]

\* recordDecision: a decision that is not valid is not recorded.
RecordDecision(om, i) ==
    IF i = NoPid THEN om
    ELSE [om EXCEPT
            !.decision_count   = @ + 1,
            !.context_switches =
                IF om.last_chosen_pid \notin {i, NoPid} THEN @ + 1 ELSE @,
            !.last_chosen_pid  = i]

-----------------------------------------------------------------------------

Init ==
    /\ tick = 0 /\ pc = "tick"
    /\ heap = EmptyHeap
    /\ indexOf = [s \in Services |-> IF s \in InitialServices THEN s + 1 ELSE NoPid]
    /\ processes = [i \in 1 .. NumProcs |-> NewProcess(i - 1)]
    /\ lockState = [i \in 1 .. NumProcs |-> NoLock]
    /\ syncDebt  = [i \in 1 .. NumProcs |-> 0]
    /\ LM!Init
    /\ last = NoPid /\ prev = NoPid
    /\ online = OnlineReset /\ offline = OfflineInit
    /\ served = 0
    /\ carried = [i \in 1 .. NumProcs |-> 0]

-----------------------------------------------------------------------------
(* Dynamic registration: getOrRegisterProcess.                             *)

Known(raw) == indexOf[raw] # NoPid

\* A per-process vector after getOrRegisterProcess(raw); a new entry is "fresh".
Extended(vector, raw, fresh) == IF Known(raw) THEN vector ELSE Append(vector, fresh)

\* Fault: the index is taken one past the new entry.
RegisterPastEnd(raw) ==
    indexOf' = IF Known(raw) THEN indexOf
               ELSE [indexOf EXCEPT ![raw] = Len(processes) + 2]

\* Fault: the raw id is taken for the index, as it is for configured services.
RegisterAtId(raw) ==
    indexOf' = IF Known(raw) THEN indexOf
               ELSE [indexOf EXCEPT ![raw] = raw + 1]

Register(raw) ==
    indexOf' = IF Known(raw) THEN indexOf
               ELSE [indexOf EXCEPT ![raw] = Len(processes) + 1]

-----------------------------------------------------------------------------
(* The start of a tick: warm-up reset, event source, pipeline events.      *)

SourceEvent == {e \in Event : /\ e.type \in SourceTypes
                              /\ e.type = "Service" => e.payload = 0}

\* What the source may push in one tick.
Batches == BoundedSeq(SourceEvent, MaxBatch)

\* Fault: one of the counters survives the reset.
WarmupKeepsArrivals(p) == [p EXCEPT !.starvation_events        = 0,
                                    !.max_starvation_ticks     = 0,
                                    !.ticks_since_last_service = 0,
                                    !.completed_jobs           = 0,
                                    !.total_waiting_time       = 0]

WarmupKeepsCompletions(p) == [p EXCEPT !.starvation_events        = 0,
                                       !.max_starvation_ticks     = 0,
                                       !.ticks_since_last_service = 0,
                                       !.arrival_count            = 0,
                                       !.total_waiting_time       = 0]

WarmupKeepsIdleTime(p) == [p EXCEPT !.starvation_events    = 0,
                                    !.max_starvation_ticks = 0,
                                    !.arrival_count        = 0,
                                    !.completed_jobs       = 0,
                                    !.total_waiting_time   = 0]

\* The counters run() clears at the warm-up boundary; queues are kept.
WarmupReset(p) == [p EXCEPT !.starvation_events        = 0,
                            !.max_starvation_ticks     = 0,
                            !.ticks_since_last_service = 0,
                            !.arrival_count            = 0,
                            !.completed_jobs           = 0,
                            !.total_waiting_time       = 0]

BeginTick ==
    /\ pc = "tick"
    /\ IF tick = WarmupTicks
       THEN /\ online'    = OnlineReset
            /\ processes' = [i \in DOMAIN processes |-> WarmupReset(processes[i])]
            /\ carried'   = [i \in DOMAIN processes |-> processes[i].queue_length]
       ELSE UNCHANGED <<online, processes, carried>>
    /\ \E batch \in Batches :
           heap' = Push(Push(PushAll(heap, batch), ScheduleEvent), MetricsEvent)
    /\ pc' = "drain"
    /\ UNCHANGED <<tick, indexOf, last, prev, offline, served, lockingVars>>

-----------------------------------------------------------------------------
(* The drain loop: one action per handler.                                 *)

\* e is on top of the heap, is of the given type, and is popped.
Pop(e, type) ==
    /\ pc = "drain"
    /\ e \in Tops(heap)
    /\ e.type = type

HandleArrival(e) ==
    /\ Pop(e, "Arrival")
    /\ heap' = Popped(heap, e)
    /\ Register(e.pid)
    /\ processes' = [Extended(processes, e.pid, NewProcess(e.pid))
                        EXCEPT ![indexOf'[e.pid]] = Arrival(@, tick)]
    /\ lockState' = Extended(lockState, e.pid, NoLock)
    /\ syncDebt'  = Extended(syncDebt, e.pid, 0)
    /\ carried'   = Extended(carried, e.pid, 0)
    /\ UNCHANGED <<tick, pc, owner, waiters, last, prev, online, offline, served>>

\* Lock mode: register the caller, then acquire, unless the id is out of range.
HandleLockAcquire(e) ==
    LET l == e.payload
    IN  /\ Pop(e, "LockAcquire")
        /\ LockMode
        /\ heap' = Popped(heap, e)
        /\ Register(e.pid)
        /\ processes' = Extended(processes, e.pid, NewProcess(e.pid))
        /\ carried'   = Extended(carried, e.pid, 0)
        /\ \/ /\ l \notin Locks
              /\ lockState' = Extended(lockState, e.pid, NoLock)
              /\ syncDebt'  = Extended(syncDebt, e.pid, 0)
              /\ UNCHANGED <<owner, waiters>>
           \/ /\ l \in Locks
              /\ LM!Grant(l, indexOf'[e.pid])
              /\ \E hold \in HoldTimes :
                     lockState' = [Extended(lockState, e.pid, NoLock)
                                     EXCEPT ![indexOf'[e.pid]] = Holding(l, hold)]
              /\ syncDebt'  = Extended(syncDebt, e.pid, 0)
           \/ /\ l \in Locks
              /\ LM!Enqueue(l, indexOf'[e.pid])
              /\ lockState' = Extended(lockState, e.pid, NoLock)
              /\ syncDebt'  = [Extended(syncDebt, e.pid, 0) EXCEPT ![owner[l]] = @ + 1]
        /\ UNCHANGED <<tick, pc, last, prev, online, offline, served>>

\* LockRelease is reserved; without a lock manager both lock events are ignored.
IgnoreLockEvent(e) ==
    /\ \/ Pop(e, "LockRelease")
       \/ Pop(e, "LockAcquire") /\ ~LockMode
    /\ heap' = Popped(heap, e)
    /\ UNCHANGED <<tick, pc, indexOf, processes, last, prev, online, offline,
                   lockingVars, history>>

\* The processes a scheduler may choose: those whose queue is not empty.
Candidates == {i \in DOMAIN processes : processes[i].queue_length > 0}

\* Fault: the scheduler may stay idle although a job waits.
DecisionsMayIdle == Candidates \cup {NoPid}

\* Every policy chooses a candidate if there is one; only in lock mode do
\* FCFS, SJF and CFS stay idle, when no lock holder has a job.
Decisions ==
    IF Candidates = {} \/ (LockMode /\ \A i \in Candidates : ~lockState[i].holds_lock)
    THEN Candidates \cup {NoPid}
    ELSE Candidates

\* How many jobs the scheduled lock holder releases this tick.
Releases(q) == {k \in 0 .. MaxRelease : k <= q /\ (k = 0 <=> q <= 0)}

\* Fault: the critical section ends one CPU tick early.
SectionCompleteEarly(i) == lockState[i].elapsed_cpu + 2 >= lockState[i].required_cpu

\* Does this CPU tick complete the critical section of i?
SectionComplete(i) == lockState[i].elapsed_cpu + 1 >= lockState[i].required_cpu

\* Fault: the debt outlives the critical section.
DebtKept(i) == syncDebt

DebtCleared(i) == [syncDebt EXCEPT ![i] = 0]

\* Lock mode: one CPU tick for the holder i, its services, and the release of
\* the lock and promotion of a waiter once the critical section is complete.
RunCriticalSection(i) ==
    LET l == lockState[i].held_lock_id
    IN  /\ \E k \in Releases(processes[i].queue_length) :
               LET p == ServiceTimes(processes[i], tick, k)
               IN  /\ processes' = [processes EXCEPT ![i] = p]
                   /\ served' = served + k
                   /\ offline' = RecordWaits(offline, k,
                                    p.total_waiting_time - processes[i].total_waiting_time)
        /\ \/ /\ ~SectionComplete(i)
              /\ lockState' = [lockState EXCEPT ![i].elapsed_cpu = @ + 1]
              /\ UNCHANGED <<syncDebt, owner, waiters>>
           \/ /\ SectionComplete(i)
              /\ LM!Free(l)
              /\ lockState' = [lockState EXCEPT ![i] = NoLock]
              /\ syncDebt'  = DebtCleared(i)
           \/ /\ SectionComplete(i)
              /\ LM!Promote(l)
              /\ \E hold \in HoldTimes :
                     lockState' = [lockState EXCEPT ![i] = NoLock,
                                                    ![Head(waiters[l])] = Holding(l, hold)]
              /\ syncDebt'  = DebtCleared(i)

\* Fault: an idle decision leaves the Schedule event on the heap.
HeapAfterIdleKept(e, i, switched) ==
    IF i = NoPid THEN heap
    ELSE Push(Popped(heap, e), ServiceEvent(processes[i].id, switched))

\* The Schedule event is popped; a valid decision pushes a Service event.
HeapAfterSchedule(e, i, switched) ==
    IF i = NoPid THEN Popped(heap, e)
    ELSE Push(Popped(heap, e), ServiceEvent(processes[i].id, switched))

\* The Schedule event e when the scheduler returns i.  prev_decision_ is already
\* the new decision when run() compares the two.
Schedule(e, i) ==
    /\ Pop(e, "Schedule")
    /\ last' = i
    /\ prev' = IF i = NoPid THEN prev ELSE i
    /\ heap' = HeapAfterSchedule(e, i, prev' # NoPid /\ i # prev')
    /\ IF LockMode /\ i # NoPid /\ lockState[i].holds_lock
       THEN RunCriticalSection(i)
       ELSE UNCHANGED <<processes, offline, served, lockingVars>>
    /\ UNCHANGED <<tick, pc, indexOf, online, carried>>

HandleSchedule(e) == \E i \in Decisions : Schedule(e, i)

\* Does this Service event complete a job?
Serviceable(e) == ~LockMode /\ Known(e.pid) /\ processes[indexOf[e.pid]].queue_length > 0

\* Fault: the first tick after warm-up is not recorded.
RecordingStartsLate == tick > WarmupTicks

Recording == tick >= WarmupTicks

HandleService(e) ==
    LET i  == indexOf[e.pid]
        at == tick + (IF e.payload = 1 THEN SwitchCost ELSE 0)
    IN  /\ Pop(e, "Service")
        /\ Serviceable(e)
        /\ heap' = Popped(heap, e)
        /\ processes' = [processes EXCEPT ![i] = Service(@, at)]
        /\ offline' = IF Recording
                      THEN RecordWaits(offline, 1, ServiceWait(processes[i], at))
                      ELSE offline
        /\ served' = served + 1
        /\ UNCHANGED <<tick, pc, indexOf, last, prev, online, carried, lockingVars>>

\* Unknown service, empty queue, or lock mode (served by HandleSchedule).
IgnoreService(e) ==
    /\ Pop(e, "Service")
    /\ ~Serviceable(e)
    /\ heap' = Popped(heap, e)
    /\ UNCHANGED <<tick, pc, indexOf, processes, last, prev, online, offline,
                   lockingVars, history>>

HandleMetrics(e) ==
    /\ Pop(e, "Metrics")
    /\ heap' = Popped(heap, e)
    /\ online'  = OnlineUpdate(online, processes, last # NoPid)
    /\ offline' = IF Recording THEN RecordDecision(offline, last) ELSE offline
    /\ processes' = [i \in DOMAIN processes |->
                        IF i = last THEN processes[i] ELSE TickIdle(processes[i])]
    /\ UNCHANGED <<tick, pc, indexOf, last, prev, lockingVars, history>>

-----------------------------------------------------------------------------

EndTick ==
    /\ pc = "drain"
    /\ IsEmpty(heap)
    /\ tick' = tick + 1
    /\ pc' = IF tick + 1 < Ticks THEN "tick" ELSE "done"
    /\ served' = 0
    /\ UNCHANGED <<heap, indexOf, processes, last, prev, online, offline,
                   lockingVars, carried>>

Terminated == pc = "done" /\ UNCHANGED vars

Next ==
    \/ BeginTick
    \/ \E e \in Event : HandleArrival(e)
    \/ \E e \in Event : HandleLockAcquire(e)
    \/ \E e \in Event : IgnoreLockEvent(e)
    \/ \E e \in Event : HandleSchedule(e)
    \/ \E e \in Event : HandleService(e)
    \/ \E e \in Event : IgnoreService(e)
    \/ \E e \in Event : HandleMetrics(e)
    \/ EndTick
    \/ Terminated

Spec == Init /\ [][Next]_vars

FairSpec == Spec /\ WF_vars(Next)

-----------------------------------------------------------------------------
(* Properties.                                                             *)

TypeOK ==
    /\ tick \in 0 .. Ticks
    /\ pc \in {"tick", "drain", "done"}
    /\ IsHeap(heap)
    /\ indexOf \in [Services -> 0 .. Len(processes)]
    /\ processes \in Seq(ProcessRecord)
    /\ lockState \in Seq(LockStates) /\ Len(lockState) = Len(processes)
    /\ syncDebt \in Seq(Nat) /\ Len(syncDebt) = Len(processes)
    /\ carried \in Seq(Int) /\ Len(carried) = Len(processes)
    /\ LM!TypeOK
    /\ last \in 0 .. Len(processes)
    /\ prev \in 0 .. Len(processes)
    /\ served \in Nat

(***************************************************************************)
(* Each job queue is counted by queue_length and is in arrival order with  *)
(* no job from the future, so service(t) pops the job that waited longest  *)
(* and its clamp of the waiting time at zero never hides anything.         *)
(***************************************************************************)
QueueConsistent ==
    \A i \in DOMAIN processes :
        LET jobs == processes[i].jobs
        IN  /\ processes[i].queue_length = Len(jobs)
            /\ \A k \in DOMAIN jobs : jobs[k] <= tick
            /\ \A k, m \in DOMAIN jobs : k <= m => jobs[k] <= jobs[m]

(***************************************************************************)
(* The service map and the process vector describe the same registry:      *)
(* Service events carry raw ids and decisions carry indices, and the two   *)
(* name the same process however services were registered.                 *)
(***************************************************************************)
RegistryConsistent ==
    /\ \A s \in Services : Known(s) => /\ indexOf[s] \in DOMAIN processes
                                       /\ processes[indexOf[s]].id = s
    /\ \A i \in DOMAIN processes : /\ processes[i].id \in Services
                                   /\ indexOf[processes[i].id] = i

(***************************************************************************)
(* No job is lost or made up: for every process, the arrivals counted      *)
(* since the warm-up reset and the jobs then queued are the jobs completed *)
(* since and the jobs still queued.                                        *)
(***************************************************************************)
Accounting ==
    \A i \in DOMAIN processes :
        processes[i].arrival_count + carried[i]
            = processes[i].completed_jobs + processes[i].queue_length

BetweenTicks == pc \in {"tick", "done"}

TotalOf(field) == SumOver(processes, field)

(***************************************************************************)
(* OnlineMetrics counts valid decisions and never looks at a completion:   *)
(* with a synthetic source and no locks its counts of completed jobs and   *)
(* busy ticks are nevertheless those of the processes.                     *)
(***************************************************************************)
CompletionsAgree ==
    BetweenTicks => /\ online.total_completed = TotalOf("completed_jobs")
                    /\ online.busy_ticks      = TotalOf("completed_jobs")

(***************************************************************************)
(* After warm-up the waiting-time samples of OfflineMetrics are exactly    *)
(* the jobs the processes completed since the reset, they add up to the    *)
(* same waiting time, and it recorded each busy tick once.                 *)
(***************************************************************************)
OfflineAgrees ==
    BetweenTicks /\ tick > WarmupTicks =>
        /\ offline.waits          = TotalOf("completed_jobs")
        /\ offline.total_wait_sum = TotalOf("total_waiting_time")
        /\ offline.decision_count = online.busy_ticks

\* The tick at which the statistics were last reset.
StatisticsStart == IF tick > WarmupTicks THEN WarmupTicks ELSE 0

(***************************************************************************)
(* Between ticks the online snapshot is that of the tick just completed:   *)
(* V(t) counts the queues as the service left them, every arrival of the   *)
(* tick is counted, the rolling sum is the sum of its window, and one      *)
(* update was made for each tick since the reset.                          *)
(***************************************************************************)
OnlineAgrees ==
    BetweenTicks =>
        /\ online.tick_count = tick - StatisticsStart
        /\ online.current_v  = LyapunovV(processes)
        /\ online.total_arrived = TotalOf("arrival_count")
        /\ online.window_sum = SumFunction(online.ring)
        /\ online.window_sum <= online.busy_ticks
        /\ online.busy_ticks <= online.tick_count

(***************************************************************************)
(* ticks_since_last_service is the number of ticks since the process was   *)
(* last served or the statistics were reset, although it is maintained by  *)
(* three handlers; the maximum and the event count never fall behind it.   *)
(***************************************************************************)
IdleTimeExact ==
    BetweenTicks =>
        \A i \in DOMAIN processes :
            LET p     == processes[i]
                start == IF p.last_service_time >= StatisticsStart
                         THEN p.last_service_time + 1 ELSE StatisticsStart
            IN  /\ p.ticks_since_last_service = tick - start
                /\ p.max_starvation_ticks >= p.ticks_since_last_service
                /\ p.starvation_events > 0 => p.max_starvation_ticks >= StarvationThreshold

(***************************************************************************)
(* The loop implements the slotted single-server queueing system: arrivals *)
(* come before service, at most one job is served in a tick, oldest first, *)
(* and no tick ends idle while a job waits.                                *)
(***************************************************************************)
System == INSTANCE QueueingSystem
              WITH now   <- tick,
                   queue <- [s \in Services |->
                                IF Known(s) THEN processes[indexOf[s]].jobs ELSE <<>>],
                   busy  <- served > 0

ImplementsQueueingSystem == System!Spec

(***************************************************************************)
(* Every drain loop ends, whatever the handlers push, and so does run().   *)
(***************************************************************************)
RunCompletes == <>(pc = "done")

(***************************************************************************)
(* A process whose lock_state says it holds a lock is the owner of that    *)
(* lock in the lock manager.                                               *)
(***************************************************************************)
HolderOwnsLock ==
    \A i \in DOMAIN processes :
        lockState[i].holds_lock => /\ lockState[i].held_lock_id \in Locks
                                   /\ owner[lockState[i].held_lock_id] = i

(***************************************************************************)
(* A lock leaves its owner only when that owner is the process just        *)
(* scheduled and has now run its whole critical section of that lock.      *)
(***************************************************************************)
NoEarlyRelease ==
    [][\A l \in Locks :
          owner[l] \notin {NoPid, owner'[l]} =>
              LET i == owner[l]
              IN  /\ last' = i
                  /\ lockState[i].held_lock_id = l
                  /\ lockState[i].elapsed_cpu + 1 >= lockState[i].required_cpu]_vars

(***************************************************************************)
(* A process is never charged more synchronization debt than there are     *)
(* requests waiting for the locks it owns.                                 *)
(***************************************************************************)
DebtBounded ==
    \A i \in DOMAIN processes :
        syncDebt[i] <= SumFunctionOnSet([l \in Locks |-> Len(waiters[l])],
                                        {l \in Locks : owner[l] = i})

(***************************************************************************)
(* No lock is free while a process is queued for it: release() always      *)
(* promotes before it frees, and acquire() only queues behind an owner.    *)
(***************************************************************************)
NoWaiterOnFreeLock == LM!NoWaiterOnFreeLock

(***************************************************************************)
(* The handlers use the lock manager as it is meant to be used: they free  *)
(* held locks only, and whatever is requested, again by the owner or twice *)
(* by a waiter included, each lock serves its requests strictly in the     *)
(* order in which they were made; none is lost or invented.                *)
(***************************************************************************)
ServesInOrder == LM!ServesInOrder

-----------------------------------------------------------------------------
(* Statements of the documentation that the code does not keep.            *)

(***************************************************************************)
(* "Ticks added per context switch": when the decision changes, the        *)
(* Service event pushed for it carries the context-switch mark.            *)
(***************************************************************************)
ContextSwitchCharged ==
    [][prev # NoPid /\ prev' # prev =>
          \E e \in Event : e.type = "Service" /\ e.payload = 1 /\ heap'[e] > heap[e]]_vars

(***************************************************************************)
(* "Only one ServiceEvent executes per tick".                              *)
(***************************************************************************)
OneServicePerTick == served <= 1

(***************************************************************************)
(* holds_lock is "true while this process owns a lock".                    *)
(***************************************************************************)
OwnerHoldsLock ==
    \A l \in Locks : owner[l] # NoPid =>
        lockState[owner[l]].holds_lock /\ lockState[owner[l]].held_lock_id = l

(***************************************************************************)
(* Warm-up is a "number of ticks to ignore for steady-state metrics": no   *)
(* waiting time is sampled before it is over.                              *)
(***************************************************************************)
WarmupIgnored == tick < WarmupTicks => offline.waits = 0

=============================================================================
