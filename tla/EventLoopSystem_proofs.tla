----------------------- MODULE EventLoopSystem_proofs -----------------------
(***************************************************************************)
(* Proofs about EventLoop with a synthetic event source: every tick serves *)
(* at most one job, the loop implements QueueingSystem, and the counts of  *)
(* OnlineMetrics and the idle times are those of the processes.            *)
(***************************************************************************)
EXTENDS EventLoopMetrics_proofs

\* The event source of a synthetic workload without locks.
Synthetic == ~LockMode /\ SourceTypes \subseteq {"Arrival"}

Holds(type) == \E e \in Event : e.type = type /\ heap[e] > 0

-----------------------------------------------------------------------------
(* The three phases of a drain loop.                                       *)

\* Arrivals may be left; the Schedule event is still to come.
BeforeSchedule ==
    /\ heap[ScheduleEvent] = 1
    /\ ~Holds("Service")
    /\ served = 0

\* A job has been chosen, and its Service event is still to come.
ServicePending ==
    /\ ~Holds("Arrival") /\ ~Holds("Schedule")
    /\ served = 0
    /\ \E e \in Event :
          /\ e.type = "Service" /\ heap[e] = 1
          /\ \A f \in Event : f.type = "Service" /\ f # e => heap[f] = 0
          /\ Known(e.pid) /\ processes[indexOf[e.pid]].queue_length > 0

\* The job has been served, or there was none.
AfterService ==
    /\ ~Holds("Arrival") /\ ~Holds("Schedule") /\ ~Holds("Service")
    /\ \/ served = 1
       \/ served = 0 /\ \A i \in DOMAIN processes : processes[i].queue_length = 0

(***************************************************************************)
(* The inductive invariant: the heap is empty between ticks, never holds a *)
(* lock event, and goes through the three phases within a tick.            *)
(***************************************************************************)
PhaseInv ==
    /\ ~Holds("LockAcquire") /\ ~Holds("LockRelease")
    /\ pc # "drain" => served = 0 /\ \A e \in Event : heap[e] = 0
    /\ pc = "drain" => BeforeSchedule \/ ServicePending \/ AfterService

-----------------------------------------------------------------------------

LEMMA OnlyScheduleEvent ==
    ASSUME NEW e \in Event, e.type = "Schedule" PROVE e = ScheduleEvent
  BY DEF Event, ScheduleEvent

LEMMA InitPhase == Init => PhaseInv
  BY DEF Init, PhaseInv, Holds, EmptyHeap

LEMMA BeginTickPhase ==
    ASSUME Synthetic, Context, PhaseInv, BeginTick PROVE PhaseInv'
<1> PICK batch \in Batches :
            heap' = Push(Push(PushAll(heap, batch), ScheduleEvent), MetricsEvent)
  BY DEF BeginTick
<1>1. pc = "tick" /\ pc' = "drain" /\ served' = 0 /\ \A e \in Event : heap[e] = 0
  BY DEF BeginTick, PhaseInv
<1>2. ASSUME NEW e \in Event, e.type # "Arrival" PROVE PushAll(heap, batch)[e] = 0
  BY <1>1, <1>2, BatchTyped DEF Synthetic
<1>3. PushAll(heap, batch) \in [Event -> Nat]
  BY PushAllTyped DEF Context, RegistryInv, TypeOK, IsHeap, Batches
<1>4. \A e \in Event : e.type # "Arrival" =>
         heap'[e] = IF e \in {ScheduleEvent, MetricsEvent} THEN 1 ELSE 0
  BY <1>2, <1>3, EventTyped, TypesOfPipelineEvents DEF Push
<1>5. BeforeSchedule' /\ ~Holds("LockAcquire")' /\ ~Holds("LockRelease")'
  BY <1>1, <1>4, EventTyped, TypesOfPipelineEvents DEF BeforeSchedule, Holds
<1> QED BY <1>1, <1>5 DEF PhaseInv

LEMMA ArrivalPhase ==
    ASSUME Context, PhaseInv, NEW e \in Event, HandleArrival(e)
    PROVE  BeforeSchedule /\ PhaseInv'
<1>1. /\ heap \in [Event -> Nat] /\ heap[e] > 0 /\ pc = "drain" /\ e.type = "Arrival"
      /\ \A f \in Event : heap'[f] = IF f = e THEN heap[e] - 1 ELSE heap[f]
  BY PoppedHeap DEF HandleArrival
<1>2. BeforeSchedule
  BY <1>1 DEF PhaseInv, ServicePending, AfterService, Holds
<1>3. pc' = pc /\ served' = served
  BY DEF HandleArrival
<1>4. BeforeSchedule'
  BY <1>1, <1>2, <1>3, EventTyped, TypesOfPipelineEvents DEF BeforeSchedule, Holds
<1>5. ~Holds("LockAcquire")' /\ ~Holds("LockRelease")'
  BY <1>1 DEF PhaseInv, Holds
<1> QED BY <1>1, <1>2, <1>3, <1>4, <1>5 DEF PhaseInv

LEMMA SchedulePhase ==
    ASSUME Synthetic, Context, PhaseInv, NEW e \in Event, HandleSchedule(e)
    PROVE  PhaseInv'
<1> DEFINE popped == Popped(heap, e)
<1>1. /\ heap \in [Event -> Nat] /\ pc = "drain" /\ e = ScheduleEvent /\ heap[e] > 0
      /\ \A f \in Event : heap[f] > 0 => Rank(e.type) <= Rank(f.type)
      /\ \A f \in Event : popped[f] = IF f = e THEN heap[e] - 1 ELSE heap[f]
      /\ popped \in [Event -> Int]
  BY OnlyScheduleEvent
     DEF HandleSchedule, Schedule, Pop, Tops, Popped, Context, RegistryInv, TypeOK, IsHeap
<1>2. BeforeSchedule /\ ~Holds("Arrival")
  BY <1>1, TypesOfPipelineEvents
     DEF PhaseInv, ServicePending, AfterService, Holds, Rank
<1>3. \A f \in Event : f.type \in {"Arrival", "LockAcquire", "LockRelease",
                                   "Schedule", "Service"} => popped[f] = 0
  BY <1>1, <1>2, OnlyScheduleEvent DEF BeforeSchedule, PhaseInv, Holds
<1> HIDE DEF popped
<1>4. /\ pc' = "drain" /\ served' = 0
      /\ UNCHANGED <<processes, indexOf>>
  BY <1>1, <1>2 DEF HandleSchedule, Schedule, Synthetic, BeforeSchedule
<1> PICK i \in Decisions, cx \in BOOLEAN : heap' = HeapAfterSchedule(e, i, cx)
  BY DEF HandleSchedule, Schedule
<1>5. CASE i = NoPid
  <2>1. heap' = popped
    BY <1>5 DEF HeapAfterSchedule, popped
  <2>2. Candidates = {}
    BY <1>5 DEF Decisions, Candidates, Synthetic, Context, RegistryInv, TypeOK, NoPid
  <2>3. \A j \in DOMAIN processes : processes[j].queue_length = 0
    <3> SUFFICES ASSUME NEW j \in DOMAIN processes PROVE processes[j].queue_length = 0
      OBVIOUS
    <3>1. ~(processes[j].queue_length > 0)
      BY <2>2 DEF Candidates
    <3>2. processes[j].jobs \in Seq(Nat)
      <4>1. processes[j] \in ProcessRecord
        BY DEF Context, RegistryInv, TypeOK
      <4> QED BY <4>1 DEF ProcessRecord
    <3>3. processes[j].queue_length = Len(processes[j].jobs)
      BY DEF Context, AllSound, Sound, JobsConsistent
    <3> QED BY <3>1, <3>2, <3>3
  <2> QED BY <1>3, <1>4, <2>1, <2>3 DEF PhaseInv, AfterService, Holds
<1>6. CASE i # NoPid
  <2> DEFINE srv == ServiceEvent(processes[i].id, cx)
  <2>1. i \in DOMAIN processes /\ processes[i].queue_length > 0
    BY <1>6 DEF Decisions, Candidates
  <2>2. /\ processes[i].id \in Services /\ indexOf[processes[i].id] = i
    BY <2>1 DEF Context, RegistryInv, RegistryConsistent
  <2>3. srv \in Event /\ srv.type = "Service" /\ srv.pid = processes[i].id
    BY <2>2, EventTyped, TypesOfPipelineEvents
  <2> HIDE DEF srv
  <2>4. \A f \in Event : heap'[f] = IF f = srv THEN popped[f] + 1 ELSE popped[f]
    BY <1>1, <1>6, <2>3 DEF HeapAfterSchedule, Push, popped, srv
  <2>5. /\ heap'[srv] = 1
        /\ \A f \in Event : f.type \in {"Arrival", "LockAcquire", "LockRelease",
                                        "Schedule", "Service"} /\ f # srv => heap'[f] = 0
    BY <1>3, <2>3, <2>4
  <2>6. indexOf'[srv.pid] # NoPid /\ processes'[indexOf'[srv.pid]].queue_length > 0
    BY <1>4, <1>6, <2>1, <2>2, <2>3
  <2>7. ServicePending'
    BY <1>4, <2>3, <2>5, <2>6 DEF ServicePending, Holds, Known
  <2> QED BY <1>4, <2>3, <2>5, <2>7 DEF PhaseInv, Holds
<1> QED BY <1>5, <1>6

LEMMA ServicePhase ==
    ASSUME Context, PhaseInv, NEW e \in Event, HandleService(e)
    PROVE  ServicePending /\ PhaseInv'
<1>1. /\ heap \in [Event -> Nat] /\ heap[e] > 0 /\ pc = "drain" /\ e.type = "Service"
      /\ \A f \in Event : heap'[f] = IF f = e THEN heap[e] - 1 ELSE heap[f]
  BY PoppedHeap DEF HandleService
<1>2. ServicePending
  BY <1>1 DEF PhaseInv, BeforeSchedule, AfterService, Holds
<1>3. pc' = pc /\ served' = 1
  BY <1>2 DEF HandleService, ServicePending
<1>4. heap[e] = 1 /\ \A f \in Event : f.type = "Service" /\ f # e => heap[f] = 0
  BY <1>1, <1>2 DEF ServicePending
<1>5. AfterService' /\ ~Holds("LockAcquire")' /\ ~Holds("LockRelease")'
  BY <1>1, <1>2, <1>3, <1>4 DEF AfterService, ServicePending, Holds, PhaseInv
<1> QED BY <1>1, <1>2, <1>3, <1>5 DEF PhaseInv

LEMMA MetricsPhase ==
    ASSUME Context, PhaseInv, NEW e \in Event, HandleMetrics(e) PROVE PhaseInv'
<1>1. /\ heap \in [Event -> Nat] /\ pc = "drain" /\ e.type = "Metrics"
      /\ \A f \in Event : heap'[f] = IF f = e THEN heap[e] - 1 ELSE heap[f]
  BY PoppedHeap DEF HandleMetrics
<1>2. \A f \in Event : f.type # "Metrics" => heap'[f] = heap[f]
  BY <1>1
<1>3. UNCHANGED <<pc, indexOf, served>>
  BY DEF HandleMetrics, history
<1>4. /\ DOMAIN processes' = DOMAIN processes
      /\ \A i \in DOMAIN processes : processes'[i].queue_length = processes[i].queue_length
  <2>1. ASSUME NEW i \in DOMAIN processes
        PROVE  TickIdle(processes[i]).queue_length = processes[i].queue_length
    <3>1. processes[i] \in ProcessRecord
      BY DEF Context, RegistryInv, TypeOK
    <3> QED BY <3>1 DEF TickIdle, ProcessRecord
  <2> QED BY <2>1 DEF HandleMetrics
<1>5. BeforeSchedule => BeforeSchedule'
  BY <1>2, <1>3, EventTyped, TypesOfPipelineEvents DEF BeforeSchedule, Holds
<1>6. ServicePending => ServicePending'
  <2> SUFFICES ASSUME ServicePending PROVE ServicePending'
    OBVIOUS
  <2>1. PICK g \in Event : /\ g.type = "Service" /\ heap[g] = 1
                           /\ \A f \in Event : f.type = "Service" /\ f # g => heap[f] = 0
                           /\ Known(g.pid) /\ processes[indexOf[g.pid]].queue_length > 0
    BY DEF ServicePending
  <2>2. g.pid \in Services
    BY <2>1, EventTyped
  <2>3. indexOf[g.pid] \in DOMAIN processes
    BY <2>1, <2>2 DEF Context, RegistryInv, RegistryConsistent
  <2>4. indexOf'[g.pid] # NoPid /\ processes'[indexOf'[g.pid]].queue_length > 0
    BY <1>3, <1>4, <2>1, <2>3 DEF Known
  <2>5. ~Holds("Arrival")' /\ ~Holds("Schedule")'
    BY <1>2 DEF ServicePending, Holds
  <2>6. heap'[g] = 1 /\ \A f \in Event : f.type = "Service" /\ f # g => heap'[f] = 0
    BY <1>2, <2>1
  <2> QED BY <1>3, <2>1, <2>4, <2>5, <2>6 DEF ServicePending, Known
<1>7. AfterService => AfterService'
  BY <1>2, <1>3, <1>4 DEF AfterService, Holds
<1>8. ~Holds("LockAcquire")' /\ ~Holds("LockRelease")'
  BY <1>2 DEF PhaseInv, Holds
<1> QED BY <1>1, <1>3, <1>5, <1>6, <1>7, <1>8 DEF PhaseInv

\* No event of a synthetic run is ignored: a Service event always has a job.
LEMMA NothingIgnored ==
    ASSUME Synthetic, Context, PhaseInv, NEW e \in Event
    PROVE  ~HandleLockAcquire(e) /\ ~IgnoreLockEvent(e) /\ ~IgnoreService(e)
<1>1. ~HandleLockAcquire(e)
  BY DEF HandleLockAcquire, Synthetic
<1>2. ~IgnoreLockEvent(e)
  BY DEF IgnoreLockEvent, Pop, Tops, PhaseInv, Holds
<1>3. ASSUME IgnoreService(e) PROVE FALSE
  <2>1. /\ heap \in [Event -> Nat] /\ heap[e] > 0 /\ pc = "drain" /\ e.type = "Service"
    BY <1>3, PoppedHeap DEF IgnoreService
  <2>2. ServicePending
    BY <2>1 DEF PhaseInv, BeforeSchedule, AfterService, Holds
  <2>3. Known(e.pid) /\ processes[indexOf[e.pid]].queue_length > 0
    BY <2>1, <2>2 DEF ServicePending
  <2> QED BY <1>3, <2>3 DEF IgnoreService, Serviceable, Synthetic
<1> QED BY <1>1, <1>2, <1>3

LEMMA EndTickPhase ==
    ASSUME PhaseInv, EndTick PROVE AfterService /\ PhaseInv'
<1>1. pc = "drain" /\ \A e \in Event : heap[e] = 0
  BY DEF EndTick, IsEmpty
<1>2. AfterService
  BY <1>1, EventTyped DEF PhaseInv, BeforeSchedule, ServicePending
<1>3. pc' # "drain" /\ served' = 0 /\ heap' = heap
  BY DEF EndTick
<1> QED BY <1>1, <1>2, <1>3 DEF PhaseInv, Holds

LEMMA PhaseStep ==
    ASSUME Synthetic, Context, PhaseInv, [Next]_vars PROVE PhaseInv'
<1>1. ASSUME NEW e \in Event,
             HandleLockAcquire(e) \/ IgnoreLockEvent(e) \/ IgnoreService(e)
      PROVE  FALSE
  BY <1>1, NothingIgnored
<1>2. CASE BeginTick
  BY <1>2, BeginTickPhase
<1>3. ASSUME NEW e \in Event, HandleArrival(e) PROVE PhaseInv'
  BY <1>3, ArrivalPhase
<1>4. ASSUME NEW e \in Event, HandleSchedule(e) PROVE PhaseInv'
  BY <1>4, SchedulePhase
<1>5. ASSUME NEW e \in Event, HandleService(e) PROVE PhaseInv'
  BY <1>5, ServicePhase
<1>6. ASSUME NEW e \in Event, HandleMetrics(e) PROVE PhaseInv'
  BY <1>6, MetricsPhase
<1>7. CASE EndTick
  BY <1>7, EndTickPhase
<1>8. CASE Terminated \/ UNCHANGED vars
  BY <1>8 DEF Terminated, vars, loopVars, history, PhaseInv, Holds, BeforeSchedule,
              ServicePending, AfterService, Known
<1> QED BY <1>1, <1>2, <1>3, <1>4, <1>5, <1>6, <1>7, <1>8 DEF Next

LEMMA PhaseInvariant == ASSUME Synthetic PROVE Spec => [](Context /\ PhaseInv)
<1>1. Context /\ PhaseInv /\ [Next]_vars => PhaseInv'
  BY PhaseStep
<1> QED BY <1>1, InitPhase, ContextInvariant, PTL DEF Spec

(***************************************************************************)
(* With a synthetic source and no locks, a tick completes at most one job, *)
(* as the documentation says of every run.                                 *)
(***************************************************************************)
THEOREM OneServiceInSyntheticRuns == ASSUME Synthetic PROVE Spec => []OneServicePerTick
<1>1. PhaseInv => OneServicePerTick
  BY DEF PhaseInv, BeforeSchedule, ServicePending, AfterService, OneServicePerTick
<1> QED BY <1>1, PhaseInvariant, PTL

-----------------------------------------------------------------------------
(* The decision of a tick and the job it serves.                           *)

\* Once the scheduler has run, last is the process the Service event names,
\* then the one that was served, and no process if there was no job.
ChoiceInv ==
    pc = "drain" /\ heap[ScheduleEvent] = 0 =>
        /\ \A e \in Event : e.type = "Service" /\ heap[e] > 0 =>
              indexOf[e.pid] = last /\ e.payload = 0
        /\ served = 1 => last # NoPid
        /\ served = 0 /\ ~Holds("Service") => last = NoPid

LEMMA ScheduleChoice ==
    ASSUME Synthetic, Context, PhaseInv, NEW e \in Event, HandleSchedule(e)
    PROVE  ChoiceInv'
<1>1. Pop(e, "Schedule")
  BY DEF HandleSchedule, Schedule
<1>2. e = ScheduleEvent /\ BeforeSchedule
  <2>1. heap \in [Event -> Nat] /\ heap[e] > 0 /\ pc = "drain" /\ e.type = "Schedule"
    BY <1>1, PoppedHeap
  <2> QED BY <2>1, OnlyScheduleEvent DEF PhaseInv, ServicePending, AfterService, Holds
<1>3. \A f \in Event : f.type = "Service" => Popped(heap, e)[f] = 0
  <2>1. \A f \in Event : Popped(heap, e)[f] = IF f = e THEN heap[e] - 1 ELSE heap[f]
    BY <1>1, PoppedHeap
  <2>2. heap \in [Event -> Nat]
    BY ContextTypes
  <2> QED BY <1>2, <2>1, <2>2, TypesOfPipelineEvents DEF BeforeSchedule, Holds
<1>4. served' = 0 /\ UNCHANGED indexOf
  BY <1>2 DEF HandleSchedule, Schedule, Synthetic, BeforeSchedule
<1> PICK i \in Decisions :
            /\ last' = i /\ prev' = IF i = NoPid THEN prev ELSE i
            /\ heap' = HeapAfterSchedule(e, i, prev' # NoPid /\ i # prev')
  BY DEF HandleSchedule, Schedule
<1>5. CASE i = NoPid
  BY <1>3, <1>4, <1>5 DEF HeapAfterSchedule, ChoiceInv
<1>6. CASE i # NoPid
  <2> DEFINE srv == ServiceEvent(processes[i].id, FALSE)
  <2>1. i \in DOMAIN processes
    BY <1>6 DEF Decisions, Candidates
  <2>2. processes[i].id \in Services /\ indexOf[processes[i].id] = i
    BY <2>1 DEF Context, RegistryInv, RegistryConsistent
  <2>3. srv \in Event /\ srv.type = "Service" /\ srv.pid = processes[i].id /\ srv.payload = 0
    BY <2>2, EventTyped, TypesOfPipelineEvents DEF ServiceEvent
  <2>4. heap' = Push(Popped(heap, e), srv)
    BY <1>6 DEF HeapAfterSchedule
  <2> HIDE DEF srv
  <2>5. Popped(heap, e) \in [Event -> Nat]
    BY <1>1, PoppedHeap
  <2>6. heap'[srv] = 1 /\ \A f \in Event : f.type = "Service" /\ f # srv => heap'[f] = 0
    BY <1>3, <2>3, <2>4, <2>5 DEF Push
  <2> QED BY <1>4, <1>6, <2>2, <2>3, <2>6 DEF ChoiceInv, Holds
<1> QED BY <1>5, <1>6

LEMMA ChoiceStep ==
    ASSUME Synthetic, Context, DrainInv, PhaseInv, PhaseInv', ChoiceInv, [Next]_vars
    PROVE  ChoiceInv'
<1>1. ASSUME NEW e \in Event,
             HandleLockAcquire(e) \/ IgnoreLockEvent(e) \/ IgnoreService(e)
      PROVE  FALSE
  BY <1>1, NothingIgnored
<1>2. ASSUME BeforeSchedule' PROVE ChoiceInv'
  BY <1>2 DEF BeforeSchedule, ChoiceInv
<1>3. CASE BeginTick
  <2>1. pc' = "drain" /\ served' = 0
    BY <1>3 DEF BeginTick, PhaseInv
  <2>2. heap'[ScheduleEvent] = 1
    <3> PICK batch \in Batches :
                heap' = Push(Push(PushAll(heap, batch), ScheduleEvent), MetricsEvent)
      BY <1>3 DEF BeginTick
    <3>1. heap[ScheduleEvent] = 0
      BY <1>3, EventTyped DEF BeginTick, PhaseInv
    <3>2. PushAll(heap, batch)[ScheduleEvent] = 0
      BY <3>1, EventTyped, TypesOfPipelineEvents, BatchTyped DEF Synthetic
    <3>3. PushAll(heap, batch) \in [Event -> Nat]
      BY PushAllTyped DEF Context, RegistryInv, TypeOK, IsHeap, Batches
    <3> QED BY <3>2, <3>3, EventTyped, TypesOfPipelineEvents DEF Push
  <2> QED BY <2>2 DEF ChoiceInv
<1>4. ASSUME NEW e \in Event, HandleArrival(e) PROVE ChoiceInv'
  <2>1. BeforeSchedule /\ Pop(e, "Arrival") /\ heap' = Popped(heap, e)
    BY <1>4, ArrivalPhase DEF HandleArrival
  <2>2. heap'[ScheduleEvent] = 1
    <3>1. /\ e.type = "Arrival"
          /\ \A f \in Event : Popped(heap, e)[f] = IF f = e THEN heap[e] - 1 ELSE heap[f]
      BY <2>1, PoppedHeap
    <3> QED BY <2>1, <3>1, EventTyped, TypesOfPipelineEvents DEF BeforeSchedule
  <2> QED BY <2>2 DEF ChoiceInv
<1>5. ASSUME NEW e \in Event, HandleSchedule(e) PROVE ChoiceInv'
  BY <1>5, ScheduleChoice
<1>6. ASSUME NEW e \in Event, HandleService(e) PROVE ChoiceInv'
  <2>1. /\ ServicePending /\ Pop(e, "Service") /\ heap' = Popped(heap, e)
        /\ served' = 1 /\ UNCHANGED <<pc, last, indexOf>>
    <3>1. ServicePending
      BY <1>6, ServicePhase
    <3> QED BY <1>6, <3>1 DEF HandleService, ServicePending
  <2>2. /\ heap \in [Event -> Nat] /\ heap[e] > 0 /\ pc = "drain" /\ e.type = "Service"
        /\ \A f \in Event : heap'[f] = IF f = e THEN heap[e] - 1 ELSE heap[f]
    BY <2>1, PoppedHeap
  <2>3. heap[ScheduleEvent] = 0
    BY <2>1, <2>2, EventTyped, TypesOfPipelineEvents DEF ServicePending, Holds
  <2>4. last # NoPid
    <3>1. indexOf[e.pid] = last
      BY <2>2, <2>3 DEF ChoiceInv
    <3>2. Known(e.pid)
      BY <1>6 DEF HandleService, Serviceable
    <3> QED BY <3>1, <3>2 DEF Known
  <2>5. \A f \in Event : f.type = "Service" => heap'[f] = 0
    BY <2>1, <2>2 DEF ServicePending
  <2> QED BY <2>1, <2>4, <2>5 DEF ChoiceInv
<1>7. ASSUME NEW e \in Event, HandleMetrics(e) PROVE ChoiceInv'
  <2>1. Pop(e, "Metrics") /\ heap' = Popped(heap, e) /\ UNCHANGED <<pc, last, indexOf, served>>
    BY <1>7 DEF HandleMetrics, history
  <2>2. /\ e.type = "Metrics"
        /\ \A f \in Event : heap'[f] = IF f = e THEN heap[e] - 1 ELSE heap[f]
    BY <2>1, PoppedHeap
  <2>3. \A f \in Event : f.type # "Metrics" => heap'[f] = heap[f]
    BY <2>2
  <2> QED BY <2>1, <2>3, EventTyped, TypesOfPipelineEvents DEF ChoiceInv, Holds
<1>8. CASE EndTick
  BY <1>8 DEF EndTick, ChoiceInv
<1>9. CASE Terminated \/ UNCHANGED vars
  BY <1>9 DEF Terminated, vars, loopVars, history, ChoiceInv, Holds
<1> QED BY <1>1, <1>3, <1>4, <1>5, <1>6, <1>7, <1>8, <1>9 DEF Next

\* The invariants of a synthetic run so far.
RunInv == Context /\ DrainInv /\ OnlineInv /\ PhaseInv /\ ChoiceInv

LEMMA RunInvariant == ASSUME Synthetic PROVE Spec => []RunInv
<1>1. Init => ChoiceInv
  BY DEF Init, ChoiceInv
<1>2. Context /\ DrainInv /\ PhaseInv /\ PhaseInv' /\ ChoiceInv /\ [Next]_vars => ChoiceInv'
  BY ChoiceStep
<1>3. Spec => [](Context /\ PhaseInv)
  BY PhaseInvariant
<1> QED BY <1>1, <1>2, <1>3, DrainInvariant, OnlineInvariant, PTL DEF Spec, RunInv

\* When the tick is measured its service is over, and last is the one served.
LEMMA MetricsChoice ==
    ASSUME RunInv, NEW e \in Event, HandleMetrics(e)
    PROVE  /\ served \in {0, 1} /\ (served = 1 <=> last # NoPid)
           /\ MetricsPending /\ Measured' /\ ~MetricsPending'
<1>1. Pop(e, "Metrics")
  BY DEF HandleMetrics
<1>2. pc = "drain" /\ e.type = "Metrics" /\ heap \in [Event -> Nat]
  BY <1>1, PoppedHeap DEF RunInv
<1>3. ASSUME NEW f \in Event, heap[f] > 0 PROVE f.type \notin {"Schedule", "Service"}
  <2>1. Rank(e.type) <= Rank(f.type)
    BY <1>1, <1>3 DEF Pop, Tops
  <2> QED BY <1>2, <2>1 DEF Rank
<1>4. heap[ScheduleEvent] = 0 /\ ~Holds("Service")
  BY <1>2, <1>3, EventTyped, TypesOfPipelineEvents DEF Holds
<1>5. AfterService
  BY <1>2, <1>4 DEF RunInv, PhaseInv, BeforeSchedule, ServicePending, Holds
<1>6. served \in {0, 1} /\ (served = 1 => last # NoPid) /\ (served = 0 => last = NoPid)
  BY <1>2, <1>4, <1>5 DEF RunInv, ChoiceInv, AfterService
<1>7. MetricsPending /\ Measured' /\ ~MetricsPending'
  BY MetricsDrain DEF RunInv
<1> QED BY <1>6, <1>7

-----------------------------------------------------------------------------
(* OnlineMetrics never looks at a completion, and counts them right.       *)

CompletionsInv ==
    /\ online.total_completed = online.busy_ticks
    /\ online.busy_ticks + (IF MetricsPending THEN served ELSE 0) = TotalOf("completed_jobs")

LEMMA CompletionsStep ==
    ASSUME Synthetic, RunInv, Context', CompletionsInv, [Next]_vars PROVE CompletionsInv'
<1>1. Context /\ DrainInv /\ PhaseInv /\ online.busy_ticks \in Nat
  BY DEF RunInv, OnlineInv, OnlineCounts
<1>2. ASSUME NEW e \in Event,
             HandleLockAcquire(e) \/ IgnoreLockEvent(e) \/ IgnoreService(e)
      PROVE  FALSE
  BY <1>1, <1>2, NothingIgnored
<1>3. CASE BeginTick
  <2>1. ~MetricsPending /\ served' = 0
    BY <1>1, <1>3 DEF BeginTick, PhaseInv, MetricsPending
  <2>2. CASE tick = WarmupTicks
    <3>1. online'.total_completed = 0 /\ online'.busy_ticks = 0
      BY <1>3, <2>2 DEF BeginTick, OnlineReset
    <3>2. TotalOf("completed_jobs")' = 0
      BY <1>1, <1>3, <2>2, WarmupTotals DEF Counters
    <3> QED BY <2>1, <3>1, <3>2 DEF CompletionsInv
  <2>3. CASE tick # WarmupTicks
    <3>1. UNCHANGED <<online, processes>>
      BY <1>3, <2>3 DEF BeginTick
    <3> QED BY <1>1, <2>1, <3>1 DEF CompletionsInv, TotalOf
  <2> QED BY <2>2, <2>3
<1>4. ASSUME NEW e \in Event, HandleArrival(e) \/ HandleSchedule(e) PROVE CompletionsInv'
  <2>1. MetricsPending /\ MetricsPending' /\ UNCHANGED <<online, served>>
    <3>1. MetricsPending /\ MetricsPending'
      BY <1>1, <1>4, HandlerDrain
    <3> QED BY <1>4, <3>1 DEF HandleArrival, HandleSchedule, Schedule, Synthetic
  <2>2. TotalOf("completed_jobs")' = TotalOf("completed_jobs")
    <3>1. CASE HandleArrival(e)
      BY <1>1, <3>1, ArrivalTotals
    <3>2. CASE HandleSchedule(e)
      BY <3>2 DEF HandleSchedule, Schedule, Synthetic, TotalOf
    <3> QED BY <1>4, <3>1, <3>2
  <2> QED BY <2>1, <2>2 DEF CompletionsInv
<1>5. ASSUME NEW e \in Event, HandleService(e) PROVE CompletionsInv'
  <2>1. MetricsPending /\ MetricsPending'
    BY <1>1, <1>5, HandlerDrain
  <2>2. served = 0 /\ served' = 1 /\ UNCHANGED online
    <3>1. served = 0
      BY <1>1, <1>5, ServicePhase DEF ServicePending
    <3> QED BY <1>5, <3>1 DEF HandleService
  <2>3. TotalOf("completed_jobs")' = TotalOf("completed_jobs") + 1
    BY <1>1, <1>5, ServiceTotals
  <2> QED BY <1>1, <2>1, <2>2, <2>3 DEF CompletionsInv
<1>6. ASSUME NEW e \in Event, HandleMetrics(e) PROVE CompletionsInv'
  <2>1. /\ served \in {0, 1} /\ (served = 1 <=> last # NoPid)
        /\ MetricsPending /\ ~MetricsPending'
    BY <1>6, MetricsChoice
  <2>2. /\ online'.busy_ticks = online.busy_ticks + (IF last # NoPid THEN 1 ELSE 0)
        /\ online'.total_completed = online.total_completed + (IF last # NoPid THEN 1 ELSE 0)
    BY <1>6 DEF HandleMetrics, OnlineUpdate
  <2>3. TotalOf("completed_jobs")' = TotalOf("completed_jobs")
    <3>1. /\ processes \in Seq(ProcessRecord) /\ processes' \in Seq(ProcessRecord)
          /\ Len(processes') = Len(processes)
      BY <1>1, <1>6, ContextTypes, MetricsKeeps
    <3>2. \A i \in DOMAIN processes :
             processes'[i]["completed_jobs"] = processes[i]["completed_jobs"]
      BY <1>1, <1>6, MetricsKeeps DEF Counters
    <3>3. SumOver(processes', "completed_jobs") = SumOver(processes, "completed_jobs")
      BY <3>1, <3>2, TotalSame
    <3> QED BY <3>3 DEF TotalOf
  <2> QED BY <1>1, <2>1, <2>2, <2>3 DEF CompletionsInv
<1>7. CASE EndTick
  <2>1. ~MetricsPending /\ ~MetricsPending' /\ UNCHANGED <<online, processes>>
    <3>1. ~MetricsPending /\ pc' # "drain"
      BY <1>7, EndTickDrain
    <3> QED BY <1>7, <3>1 DEF EndTick, MetricsPending
  <2> QED BY <2>1 DEF CompletionsInv, TotalOf
<1>8. CASE Terminated \/ UNCHANGED vars
  BY <1>8 DEF Terminated, vars, loopVars, history, CompletionsInv, MetricsPending, TotalOf
<1> QED BY <1>2, <1>3, <1>4, <1>5, <1>6, <1>7, <1>8 DEF Next

(***************************************************************************)
(* With a synthetic source and no locks the completed jobs and busy ticks  *)
(* that OnlineMetrics counts from valid decisions alone are those of the   *)
(* processes: every valid decision of a tick is followed by one service.   *)
(***************************************************************************)
THEOREM CompletionsCounted == ASSUME Synthetic PROVE Spec => []CompletionsAgree
<1>1. Init => CompletionsInv
  <2> SUFFICES ASSUME Init PROVE CompletionsInv
    OBVIOUS
  <2>1. /\ processes \in Seq(ProcessRecord)
        /\ \A i \in DOMAIN processes : processes[i]["completed_jobs"] = 0
    BY InitTypes DEF Init, NewProcess, TypeOK
  <2>2. SumOver(processes, "completed_jobs") = 0
    BY <2>1, TotalZero DEF Counters
  <2> QED BY <2>2 DEF Init, OnlineReset, CompletionsInv, TotalOf
<1>2. RunInv /\ RunInv' /\ CompletionsInv /\ [Next]_vars => CompletionsInv'
  BY CompletionsStep DEF RunInv
<1>3. RunInv /\ CompletionsInv => CompletionsAgree
  <2> SUFFICES ASSUME RunInv, CompletionsInv, BetweenTicks PROVE CompletionsAgree
    BY DEF CompletionsAgree
  <2>1. ~MetricsPending /\ online.busy_ticks \in Nat
    BY DEF BetweenTicks, MetricsPending, RunInv, OnlineInv, OnlineCounts
  <2> QED BY <2>1 DEF CompletionsInv, CompletionsAgree
<1> QED BY <1>1, <1>2, <1>3, RunInvariant, PTL DEF Spec

-----------------------------------------------------------------------------
(* Idle times, which three handlers maintain.                              *)

\* The ticks before "now" since p was last served or the statistics reset.
IdleSince(p, now) ==
    now - (IF p.last_service_time >= CountStart THEN p.last_service_time + 1 ELSE CountStart)

\* A starvation event was counted at its threshold.
EventsReached(p) == p.starvation_events > 0 => p.max_starvation_ticks >= StarvationThreshold

IdleExact(p, now) ==
    /\ p.ticks_since_last_service = IdleSince(p, now)
    /\ p.max_starvation_ticks >= p.ticks_since_last_service
    /\ p.last_service_time < now
    /\ EventsReached(p)

JustServed(p) ==
    /\ p.ticks_since_last_service = 0
    /\ p.last_service_time = tick
    /\ EventsReached(p)

\* Process i was served in this tick, which is not measured yet.
ServedNow(i) == MetricsPending /\ served = 1 /\ i = last

MeasuredTicks == IF Measured THEN tick + 1 ELSE tick

IdleInv ==
    /\ \A s \in Services : Known(s)
    /\ \A i \in DOMAIN processes :
          IF ServedNow(i) THEN JustServed(processes[i])
                          ELSE IdleExact(processes[i], MeasuredTicks)

IdleFields == {"last_service_time", "ticks_since_last_service", "max_starvation_ticks",
               "starvation_events"}

LEMMA CountStartBound ==
    ASSUME Context PROVE tick \in Nat /\ CountStart \in Nat /\ CountStart <= tick
  BY ContextTypes, EventLoopAssumption DEF CountStart, Started

LEMMA ProcessTypes ==
    ASSUME NEW p \in ProcessRecord
    PROVE  /\ p.last_service_time \in Int /\ p.ticks_since_last_service \in Nat
           /\ p.max_starvation_ticks \in Nat /\ p.starvation_events \in Nat
  BY DEF ProcessRecord

\* The idle tick of a process that was not served.
LEMMA TickIdleExact ==
    ASSUME Context, NEW p \in ProcessRecord, IdleExact(p, tick)
    PROVE  IdleExact(TickIdle(p), tick + 1)
<1> DEFINE since == p.ticks_since_last_service + 1
           q     == TickIdle(p)
           start == IF p.last_service_time >= CountStart
                    THEN p.last_service_time + 1 ELSE CountStart
<1>1. /\ p.last_service_time \in Int /\ p.ticks_since_last_service \in Nat
      /\ p.max_starvation_ticks \in Nat /\ p.starvation_events \in Nat
      /\ tick \in Nat /\ CountStart \in Nat
      /\ StarvationThreshold \in Nat
  BY ProcessTypes, CountStartBound, StarvationThresholdAssumption
<1>2. /\ q.last_service_time = p.last_service_time
      /\ q.ticks_since_last_service = since
      /\ q.max_starvation_ticks = IF since > p.max_starvation_ticks
                                  THEN since ELSE p.max_starvation_ticks
      /\ q.starvation_events = IF since = StarvationThreshold /\ p.queue_length > 0
                               THEN p.starvation_events + 1 ELSE p.starvation_events
  BY DEF TickIdle, ProcessRecord
<1>3. since = (tick + 1) - start
  <2>1. p.ticks_since_last_service = tick - start /\ start \in Int
    BY <1>1 DEF IdleExact, IdleSince
  <2> HIDE DEF start
  <2> QED BY <1>1, <2>1
<1>4. since \in Nat
  BY <1>1
<1> HIDE DEF q, since
<1>5. q.ticks_since_last_service = IdleSince(q, tick + 1)
  BY <1>2, <1>3 DEF IdleSince
<1>6. q.max_starvation_ticks >= q.ticks_since_last_service
  BY <1>1, <1>2, <1>4
<1>7. q.last_service_time < tick + 1
  BY <1>1, <1>2 DEF IdleExact
<1>8. EventsReached(q)
  <2>1. EventsReached(p)
    BY DEF IdleExact
  <2>2. CASE since = StarvationThreshold
    BY <1>1, <1>2, <1>4, <2>2 DEF EventsReached
  <2>3. CASE since # StarvationThreshold
    BY <1>1, <1>2, <1>4, <2>1, <2>3 DEF EventsReached
  <2> QED BY <2>2, <2>3
<1> QED BY <1>5, <1>6, <1>7, <1>8 DEF IdleExact, q

\* The tick of the process that was served is not idle.
LEMMA ServedExact ==
    ASSUME Context, NEW p \in ProcessRecord, JustServed(p)
    PROVE  IdleExact(p, tick + 1)
<1>1. /\ p.last_service_time = tick /\ p.ticks_since_last_service = 0
      /\ p.max_starvation_ticks \in Nat /\ EventsReached(p)
  BY ProcessTypes DEF JustServed
<1>2. tick \in Nat /\ CountStart \in Nat /\ CountStart <= tick
  BY CountStartBound
<1> QED BY <1>1, <1>2 DEF IdleExact, IdleSince

LEMMA ResetExact ==
    ASSUME NEW p \in ProcessRecord, NEW now \in Nat, NEW start, start = now,
           p.last_service_time < now
    PROVE  LET q == WarmupReset(p)
           IN  /\ q.ticks_since_last_service =
                     now - (IF q.last_service_time >= start THEN q.last_service_time + 1 ELSE start)
               /\ q.max_starvation_ticks >= q.ticks_since_last_service
               /\ q.last_service_time < now
               /\ EventsReached(q)
<1>1. /\ WarmupReset(p).ticks_since_last_service = 0
      /\ WarmupReset(p).max_starvation_ticks = 0
      /\ WarmupReset(p).starvation_events = 0
      /\ WarmupReset(p).last_service_time = p.last_service_time
      /\ p.last_service_time \in Int
  BY DEF WarmupReset, ProcessRecord
<1> QED BY <1>1 DEF EventsReached

LEMMA ServiceJust ==
    ASSUME Context, NEW p \in ProcessRecord, HasJob(p), EventsReached(p)
    PROVE  JustServed(Service(p, tick))
<1>1. /\ Service(p, tick).ticks_since_last_service = 0
      /\ Service(p, tick).last_service_time = tick
      /\ Service(p, tick).max_starvation_ticks = p.max_starvation_ticks
      /\ Service(p, tick).starvation_events = p.starvation_events
  BY DEF Service, ProcessRecord
<1> QED BY <1>1 DEF JustServed, EventsReached

\* A step within a tick that leaves the idle times of every process alone.
LEMMA IdleKept ==
    ASSUME IdleInv, UNCHANGED <<indexOf, tick, pc>>, ~Measured, ~Measured',
           served = 0, served' = 0, DOMAIN processes' = DOMAIN processes,
           \A i \in DOMAIN processes : \A f \in IdleFields : processes'[i][f] = processes[i][f]
    PROVE  IdleInv'
<1>1. CountStart' = CountStart
  BY DEF CountStart, Started
<1>2. ASSUME NEW i \in DOMAIN processes PROVE IdleExact(processes[i], tick)'
  <2>1. IdleExact(processes[i], tick)
    BY DEF IdleInv, ServedNow, MeasuredTicks
  <2>2. /\ processes'[i].last_service_time = processes[i].last_service_time
        /\ processes'[i].ticks_since_last_service = processes[i].ticks_since_last_service
        /\ processes'[i].max_starvation_ticks = processes[i].max_starvation_ticks
        /\ processes'[i].starvation_events = processes[i].starvation_events
    BY DEF IdleFields
  <2> QED BY <1>1, <2>1, <2>2 DEF IdleExact, IdleSince, EventsReached
<1> QED BY <1>2 DEF IdleInv, Known, ServedNow, MeasuredTicks

LEMMA ArrivalIdle ==
    ASSUME RunInv, Context', IdleInv, NEW e \in Event, HandleArrival(e) PROVE IdleInv'
<1>1. Context /\ DrainInv /\ PhaseInv
  BY DEF RunInv
<1>2. /\ e.pid \in Services /\ Register(e.pid) /\ Known(e.pid)
      /\ UNCHANGED <<tick, pc, served, indexOf>>
  BY EventTyped DEF HandleArrival, Pop, IdleInv, Register
<1>3. MetricsPending /\ MetricsPending' /\ served = 0
  <2>1. MetricsPending /\ MetricsPending'
    BY <1>1, HandlerDrain
  <2> QED BY <1>1, <2>1, ArrivalPhase DEF BeforeSchedule
<1>4. ~Measured /\ ~Measured'
  BY <1>3, EventTyped DEF MetricsPending, Measured, IsEmpty
<1>5. processes' = [processes EXCEPT ![indexOf[e.pid]] = Arrival(@, tick)]
  BY <1>2 DEF HandleArrival, Extended
<1>6. ASSUME NEW i \in DOMAIN processes, NEW f \in IdleFields
      PROVE  processes'[i][f] = processes[i][f]
  <2>1. processes[i] \in ProcessRecord
    BY <1>1, ContextTypes
  <2>2. Arrival(processes[i], tick)[f] = processes[i][f]
    BY <2>1 DEF Arrival, ProcessRecord, IdleFields
  <2> QED BY <1>5, <2>2
<1>7. DOMAIN processes' = DOMAIN processes
  BY <1>5
<1> QED BY <1>2, <1>3, <1>4, <1>6, <1>7, IdleKept

LEMMA ServiceIdle ==
    ASSUME RunInv, IdleInv, NEW e \in Event, HandleService(e) PROVE IdleInv'
<1>1. Context /\ DrainInv /\ PhaseInv
  BY DEF RunInv
<1>2. MetricsPending /\ MetricsPending'
  BY <1>1, HandlerDrain
<1>3. ~Measured /\ ~Measured'
  BY <1>2, EventTyped DEF MetricsPending, Measured, IsEmpty
<1>4. served = 0 /\ served' = 1 /\ UNCHANGED <<tick, pc, indexOf, last>>
  <2>1. served = 0
    BY <1>1, ServicePhase DEF ServicePending
  <2> QED BY <2>1 DEF HandleService
<1>5. indexOf[e.pid] = last /\ e.payload = 0
  <2>1. pc = "drain" /\ e.type = "Service" /\ heap[e] > 0
    BY <1>1, PoppedHeap DEF HandleService
  <2>2. heap[ScheduleEvent] = 0
    <3>1. ServicePending /\ heap \in [Event -> Nat]
      BY <1>1, ServicePhase, ContextTypes
    <3> QED BY <3>1, EventTyped, TypesOfPipelineEvents DEF ServicePending, Holds
  <2> QED BY <2>1, <2>2 DEF RunInv, ChoiceInv
<1>6. processes' = [processes EXCEPT ![last] = Service(@, tick)]
  <2>1. processes' = [processes EXCEPT ![indexOf[e.pid]] =
                         Service(processes[indexOf[e.pid]],
                                 tick + (IF e.payload = 1 THEN SwitchCost ELSE 0))]
    BY DEF HandleService
  <2>2. tick + (IF e.payload = 1 THEN SwitchCost ELSE 0) = tick
    <3>1. tick \in Nat
      BY <1>1, ContextTypes
    <3> QED BY <1>5, <3>1
  <2> QED BY <1>5, <2>1, <2>2
<1>7. last \in DOMAIN processes /\ processes[last].queue_length > 0
  <2>1. e.pid \in Services /\ Known(e.pid) /\ processes[last].queue_length > 0
    BY <1>5, EventTyped DEF HandleService, Pop, Serviceable
  <2> QED BY <1>1, <1>5, <2>1 DEF Context, RegistryInv, RegistryConsistent
<1>8. \A i \in DOMAIN processes : IdleExact(processes[i], tick)
  BY <1>3, <1>4 DEF IdleInv, ServedNow, MeasuredTicks
<1>9. JustServed(Service(processes[last], tick))
  <2>1. processes[last] \in ProcessRecord /\ HasJob(processes[last])
    BY <1>1, <1>7, QueueNonEmpty
  <2>2. EventsReached(processes[last])
    BY <1>7, <1>8 DEF IdleExact
  <2> QED BY <1>1, <2>1, <2>2, ServiceJust
<1>10. ASSUME NEW i \in DOMAIN processes
       PROVE  (IF ServedNow(i) THEN JustServed(processes[i])
                               ELSE IdleExact(processes[i], MeasuredTicks))'
  <2>1. CASE i = last
    <3>1. processes'[i] = Service(processes[last], tick)
      BY <1>6, <1>7, <2>1
    <3>2. JustServed(processes[i])'
      BY <1>4, <1>9, <3>1 DEF JustServed, EventsReached
    <3> QED BY <1>2, <1>4, <2>1, <3>2 DEF ServedNow
  <2>2. CASE i # last
    <3>1. processes'[i] = processes[i]
      BY <1>6, <2>2
    <3>2. CountStart' = CountStart
      BY <1>4 DEF CountStart, Started
    <3>3. IdleExact(processes[i], tick)'
      BY <1>4, <1>8, <3>1, <3>2 DEF IdleExact, IdleSince, EventsReached
    <3> QED BY <1>3, <1>4, <2>2, <3>3 DEF ServedNow, MeasuredTicks
  <2> QED BY <2>1, <2>2
<1>11. DOMAIN processes' = DOMAIN processes
  BY <1>6
<1> QED BY <1>4, <1>10, <1>11 DEF IdleInv, Known

LEMMA MetricsIdle ==
    ASSUME RunInv, IdleInv, NEW e \in Event, HandleMetrics(e) PROVE IdleInv'
<1>1. Context /\ processes \in Seq(ProcessRecord) /\ tick \in Nat
  BY ContextTypes DEF RunInv
<1>2. /\ served \in {0, 1} /\ (served = 1 <=> last # NoPid)
      /\ MetricsPending /\ Measured' /\ ~MetricsPending'
  BY MetricsChoice
<1>3. UNCHANGED <<tick, pc, indexOf>> /\ CountStart' = CountStart
  BY DEF HandleMetrics, CountStart, Started
<1>4. ~Measured
  BY <1>2, EventTyped DEF MetricsPending, Measured, IsEmpty
<1>5. /\ DOMAIN processes' = DOMAIN processes
      /\ \A i \in DOMAIN processes :
            processes'[i] = IF i = last THEN processes[i] ELSE TickIdle(processes[i])
  BY <1>1, MetricsKeeps
<1>6. ASSUME NEW i \in DOMAIN processes PROVE IdleExact(processes'[i], tick + 1)
  <2>1. processes[i] \in ProcessRecord /\ i # NoPid
    BY <1>1 DEF NoPid
  <2>2. CASE i = last
    <3>1. JustServed(processes[i])
      BY <1>2, <2>1, <2>2 DEF IdleInv, ServedNow
    <3>2. IdleExact(processes[i], tick + 1)
      BY <1>1, <2>1, <3>1, ServedExact
    <3> QED BY <1>5, <2>2, <3>2
  <2>3. CASE i # last
    <3>1. IdleExact(processes[i], tick)
      BY <1>4, <2>3 DEF IdleInv, ServedNow, MeasuredTicks
    <3>2. IdleExact(TickIdle(processes[i]), tick + 1)
      BY <1>1, <2>1, <3>1, TickIdleExact
    <3> QED BY <1>5, <2>3, <3>2
  <2> QED BY <2>2, <2>3
<1>7. ASSUME NEW i \in DOMAIN processes PROVE IdleExact(processes[i], tick + 1)'
  <2>1. IdleExact(processes'[i], tick + 1)
    BY <1>6
  <2> QED BY <1>3, <2>1 DEF IdleExact, IdleSince, EventsReached
<1> QED BY <1>2, <1>3, <1>5, <1>7 DEF IdleInv, Known, ServedNow, MeasuredTicks

LEMMA BeginTickIdle ==
    ASSUME RunInv, IdleInv, BeginTick PROVE IdleInv'
<1>1. Context /\ processes \in Seq(ProcessRecord) /\ tick \in Nat
  BY ContextTypes DEF RunInv
<1>2. /\ pc = "tick" /\ pc' = "drain" /\ served = 0 /\ served' = 0
      /\ UNCHANGED <<tick, indexOf>>
  BY DEF BeginTick, RunInv, PhaseInv
<1>3. ~Measured /\ ~Measured'
  <2>1. MetricsPending'
    BY BeginTickDrain DEF RunInv
  <2> QED BY <1>2, <2>1, EventTyped DEF MetricsPending, Measured, IsEmpty
<1>4. ASSUME NEW i \in DOMAIN processes
      PROVE  processes[i] \in ProcessRecord /\ IdleExact(processes[i], tick)
  BY <1>1, <1>2, <1>3 DEF IdleInv, ServedNow, MeasuredTicks
<1>5. /\ DOMAIN processes' = DOMAIN processes
      /\ \A i \in DOMAIN processes : IdleExact(processes[i], tick)'
  <2>1. CASE tick = WarmupTicks
    <3>1. CountStart' = tick
      BY <1>2, <2>1 DEF CountStart, Started
    <3>2. processes' = [i \in DOMAIN processes |-> WarmupReset(processes[i])]
      BY <2>1 DEF BeginTick
    <3>3. ASSUME NEW i \in DOMAIN processes PROVE IdleExact(processes[i], tick)'
      <4> DEFINE q == WarmupReset(processes[i])
      <4>1. processes[i] \in ProcessRecord /\ processes[i].last_service_time < tick
        BY <1>4 DEF IdleExact
      <4>2. /\ q.ticks_since_last_service =
                  tick - (IF q.last_service_time >= CountStart'
                          THEN q.last_service_time + 1 ELSE CountStart')
            /\ q.max_starvation_ticks >= q.ticks_since_last_service
            /\ q.last_service_time < tick
            /\ EventsReached(q)
        BY <1>1, <3>1, <4>1, ResetExact
      <4>3. processes'[i] = q
        BY <3>2
      <4> HIDE DEF q
      <4> QED BY <1>2, <4>2, <4>3 DEF IdleExact, IdleSince, EventsReached
    <3> QED BY <3>2, <3>3
  <2>2. CASE tick # WarmupTicks
    <3>1. UNCHANGED processes /\ CountStart' = CountStart
      BY <1>2, <2>2 DEF BeginTick, CountStart, Started
    <3> QED BY <1>2, <1>4, <3>1 DEF IdleExact, IdleSince, EventsReached
  <2> QED BY <2>1, <2>2
<1> QED BY <1>2, <1>3, <1>5 DEF IdleInv, Known, ServedNow, MeasuredTicks

LEMMA EndTickIdle ==
    ASSUME RunInv, IdleInv, EndTick PROVE IdleInv'
<1>1. Measured /\ ~MetricsPending /\ ~MetricsPending' /\ ~Measured'
  <2>1. Measured /\ ~MetricsPending /\ pc' # "drain"
    BY EndTickDrain
  <2> QED BY <2>1 DEF MetricsPending, Measured
<1>2. /\ tick' = tick + 1 /\ tick \in Nat /\ pc = "drain" /\ pc' # "drain"
      /\ UNCHANGED <<processes, indexOf>>
  BY <1>1, ContextTypes DEF EndTick, Measured, RunInv
<1>3. CountStart' = CountStart
  BY <1>2, EventLoopAssumption DEF CountStart, Started
<1>4. ASSUME NEW i \in DOMAIN processes PROVE IdleExact(processes[i], tick)'
  <2>1. IdleExact(processes[i], tick + 1)
    BY <1>1 DEF IdleInv, ServedNow, MeasuredTicks
  <2> QED BY <1>2, <1>3, <2>1 DEF IdleExact, IdleSince, EventsReached
<1> QED BY <1>1, <1>2, <1>4 DEF IdleInv, Known, ServedNow, MeasuredTicks

(***************************************************************************)
(* In a synthetic run, whose source names configured services only, idle   *)
(* times are exact: ticks_since_last_service counts the ticks since the    *)
(* last service or the reset, and neither the maximum nor the starvation   *)
(* events ever fall behind it.                                             *)
(***************************************************************************)
THEOREM IdleTimesExact ==
    ASSUME Synthetic, Services = InitialServices PROVE Spec => []IdleTimeExact
<1>1. Init => IdleInv
  <2> SUFFICES ASSUME Init PROVE IdleInv
    OBVIOUS
  <2>1. tick = 0 /\ CountStart = 0 /\ ~Measured /\ ~MetricsPending
    BY EventLoopAssumption DEF Init, CountStart, Started, Measured, MetricsPending
  <2>2. ASSUME NEW s \in Services PROVE Known(s)
    <3>1. indexOf[s] = s + 1 /\ s \in Nat
      BY EventQueueAssumption DEF Init
    <3> QED BY <3>1 DEF Known, NoPid
  <2>3. ASSUME NEW i \in DOMAIN processes PROVE IdleExact(processes[i], 0)
    <3>1. /\ processes[i].last_service_time = -1
          /\ processes[i].ticks_since_last_service = 0
          /\ processes[i].max_starvation_ticks = 0
          /\ processes[i].starvation_events = 0
      BY DEF Init, NewProcess
    <3> QED BY <2>1, <3>1 DEF IdleExact, IdleSince, EventsReached
  <2> QED BY <2>1, <2>2, <2>3 DEF IdleInv, ServedNow, MeasuredTicks
<1>2. RunInv /\ RunInv' /\ IdleInv /\ [Next]_vars => IdleInv'
  <2> SUFFICES ASSUME RunInv, RunInv', IdleInv, [Next]_vars PROVE IdleInv'
    OBVIOUS
  <2>1. Context /\ Context' /\ DrainInv /\ PhaseInv
    BY DEF RunInv
  <2>2. ASSUME NEW e \in Event,
               HandleLockAcquire(e) \/ IgnoreLockEvent(e) \/ IgnoreService(e)
        PROVE  FALSE
    BY <2>1, <2>2, NothingIgnored
  <2>3. CASE BeginTick
    BY <2>3, BeginTickIdle
  <2>4. ASSUME NEW e \in Event, HandleArrival(e) PROVE IdleInv'
    BY <2>1, <2>4, ArrivalIdle
  <2>5. ASSUME NEW e \in Event, HandleSchedule(e) PROVE IdleInv'
    <3>1. MetricsPending /\ MetricsPending'
      BY <2>1, <2>5, HandlerDrain
    <3>2. ~Measured /\ ~Measured'
      BY <3>1, EventTyped DEF MetricsPending, Measured, IsEmpty
    <3>3. served = 0
      <4>1. /\ pc = "drain" /\ e.type = "Schedule" /\ heap[e] > 0
        BY <2>1, <2>5, PoppedHeap DEF HandleSchedule, Schedule
      <4> QED BY <2>1, <4>1 DEF PhaseInv, BeforeSchedule, ServicePending, AfterService, Holds
    <3>4. UNCHANGED <<tick, pc, indexOf, processes, served>>
      BY <2>5 DEF HandleSchedule, Schedule, Synthetic
    <3> QED BY <3>2, <3>3, <3>4, IdleKept
  <2>6. ASSUME NEW e \in Event, HandleService(e) PROVE IdleInv'
    BY <2>6, ServiceIdle
  <2>7. ASSUME NEW e \in Event, HandleMetrics(e) PROVE IdleInv'
    BY <2>7, MetricsIdle
  <2>8. CASE EndTick
    BY <2>8, EndTickIdle
  <2>9. CASE Terminated \/ UNCHANGED vars
    <3>1. UNCHANGED <<tick, pc, heap, indexOf, processes, last, served>>
      BY <2>9 DEF Terminated, vars, loopVars, history
    <3>2. CountStart' = CountStart /\ MeasuredTicks' = MeasuredTicks
      BY <3>1 DEF CountStart, Started, MeasuredTicks, Measured, IsEmpty
    <3> QED BY <3>1, <3>2
            DEF IdleInv, ServedNow, JustServed, IdleExact, IdleSince, EventsReached, Known,
                MetricsPending
  <2> QED BY <2>2, <2>3, <2>4, <2>5, <2>6, <2>7, <2>8, <2>9 DEF Next
<1>3. IdleInv => IdleTimeExact
  <2> SUFFICES ASSUME IdleInv, BetweenTicks, NEW i \in DOMAIN processes
               PROVE  /\ processes[i].ticks_since_last_service
                           = tick - (IF processes[i].last_service_time >= StatisticsStart
                                     THEN processes[i].last_service_time + 1 ELSE StatisticsStart)
                      /\ processes[i].max_starvation_ticks >= processes[i].ticks_since_last_service
                      /\ EventsReached(processes[i])
    BY DEF IdleTimeExact, EventsReached
  <2>1. ~Measured /\ ~MetricsPending /\ CountStart = StatisticsStart
    BY DEF BetweenTicks, Measured, MetricsPending, CountStart, Started, StatisticsStart
  <2>2. IdleExact(processes[i], tick)
    BY <2>1 DEF IdleInv, ServedNow, MeasuredTicks
  <2> QED BY <2>1, <2>2 DEF IdleExact, IdleSince
<1> QED BY <1>1, <1>2, <1>3, RunInvariant, PTL DEF Spec

-----------------------------------------------------------------------------
(* Refinement.                                                             *)

QueueOf(s) == IF Known(s) THEN processes[indexOf[s]].jobs ELSE <<>>

LEMMA InitSystem == Init => System!Init
<1> SUFFICES ASSUME Init PROVE System!Init
  OBVIOUS
<1>1. NumProcs \in Nat
  BY OnlineMetricsAssumption
<1>2. ASSUME NEW s \in Services PROVE QueueOf(s) = <<>>
  <2>1. CASE s \in InitialServices
    <3>1. indexOf[s] = s + 1 /\ s + 1 \in 1 .. NumProcs
      BY <1>1, <1>2, <2>1 DEF Init, InitialServices
    <3>2. \E raw : processes[indexOf[s]] = NewProcess(raw)
      <4>1. \A i \in 1 .. NumProcs : processes[i] = NewProcess(i - 1)
        BY DEF Init
      <4> QED BY <3>1, <4>1
    <3> QED BY <3>2 DEF QueueOf, NewProcess
  <2>2. CASE s \notin InitialServices
    BY <1>2, <2>2 DEF Init, QueueOf, Known, NoPid
  <2> QED BY <2>1, <2>2
<1>3. tick = 0 /\ ~(served > 0)
  BY DEF Init
<1> QED BY <1>2, <1>3 DEF System!Init, QueueOf

\* A step that changes no job queue and no index changes no abstract queue.
LEMMA QueuesKept ==
    ASSUME Context, UNCHANGED indexOf,
           \A i \in DOMAIN processes : processes'[i].jobs = processes[i].jobs
    PROVE  \A s \in Services : QueueOf(s)' = QueueOf(s)
  BY DEF QueueOf, Known, Context, RegistryInv, RegistryConsistent

LEMMA ArrivalIsArrive ==
    ASSUME Context, Context', PhaseInv, NEW e \in Event, HandleArrival(e)
    PROVE  System!Arrive(e.pid) /\ e.pid \in Services
<1> DEFINE raw == e.pid
           ps  == Extended(processes, raw, NewProcess(raw))
           i   == indexOf'[raw]
<1>1. raw \in Services /\ Register(raw)
  BY EventTyped DEF HandleArrival, Pop
<1>2. served = 0 /\ UNCHANGED <<tick, served>>
  BY ArrivalPhase DEF HandleArrival, BeforeSchedule
<1>3. ps \in Seq(ProcessRecord) /\ i \in 1 .. Len(ps)
  BY <1>1, RegisterTyped DEF Context, RegistryInv
<1>4. processes \in Seq(ProcessRecord) /\ indexOf \in [Services -> 0 .. Len(processes)]
  BY DEF Context, RegistryInv, TypeOK
<1>5. processes' = [ps EXCEPT ![i] = Arrival(ps[i], tick)]
  BY DEF HandleArrival
<1>6. ps[i].jobs = QueueOf(raw)
  <2>1. CASE Known(raw)
    BY <1>1, <2>1 DEF QueueOf, Extended, Register
  <2>2. CASE ~Known(raw)
    <3>1. i = Len(processes) + 1
      BY <1>1, <1>4, <2>2 DEF Register
    <3>2. ps[i] = NewProcess(raw)
      BY <1>4, <2>2, <3>1 DEF Extended
    <3> QED BY <2>2, <3>2 DEF QueueOf, NewProcess
  <2> QED BY <2>1, <2>2
<1>7. QueueOf(raw)' = Append(QueueOf(raw), tick)
  <2>1. ps[i] \in ProcessRecord
    BY <1>3
  <2>2. processes'[i] = Arrival(ps[i], tick)
    BY <1>3, <1>5
  <2>3. Arrival(ps[i], tick).jobs = Append(ps[i].jobs, tick)
    BY <2>1 DEF Arrival, ProcessRecord
  <2>4. i # NoPid
    BY <1>3 DEF NoPid
  <2> QED BY <1>6, <2>2, <2>3, <2>4 DEF QueueOf, Known, HandleArrival
<1>8. ASSUME NEW s \in Services, s # raw PROVE QueueOf(s)' = QueueOf(s)
  <2>1. indexOf'[s] = indexOf[s]
    BY <1>1, <1>4, <1>8 DEF Register
  <2>2. CASE ~Known(s)
    BY <2>1, <2>2 DEF QueueOf, Known
  <2>3. CASE Known(s)
    <3>1. indexOf[s] \in DOMAIN processes /\ processes[indexOf[s]].id = s
      BY <1>8, <2>3 DEF Context, RegistryInv, RegistryConsistent
    <3>2. indexOf[s] # i
      <4>1. processes'[i].id = raw
        BY <1>1, <1>3 DEF Context, RegistryInv, RegistryConsistent, Known, NoPid
      <4>2. processes'[indexOf'[s]].id = s
        BY <1>8, <2>1, <2>3 DEF Context, RegistryInv, RegistryConsistent, Known
      <4> QED BY <1>8, <2>1, <4>1, <4>2
    <3>3. ps[indexOf[s]] = processes[indexOf[s]] /\ indexOf[s] \in DOMAIN ps
      BY <1>4, <3>1 DEF Extended
    <3>4. processes'[indexOf[s]] = processes[indexOf[s]]
      BY <1>5, <3>2, <3>3
    <3> QED BY <2>1, <2>3, <3>4 DEF QueueOf, Known
  <2> QED BY <2>2, <2>3
<1>9. [s \in Services |-> QueueOf(s)]'
        = [[s \in Services |-> QueueOf(s)] EXCEPT ![raw] = Append(@, tick)]
  BY <1>1, <1>7, <1>8
<1> QED BY <1>1, <1>2, <1>9 DEF System!Arrive, QueueOf

LEMMA ServiceIsServe ==
    ASSUME Context, Context', PhaseInv, NEW e \in Event, HandleService(e)
    PROVE  System!Serve(e.pid) /\ e.pid \in Services
<1> DEFINE raw == e.pid
           i   == indexOf[raw]
<1>1. raw \in Services
  BY EventTyped DEF HandleService, Pop
<1>2. /\ Known(raw) /\ processes[i].queue_length > 0
      /\ served = 0 /\ served' = 1 /\ UNCHANGED <<tick, indexOf>>
  <2>1. served = 0
    BY ServicePhase DEF ServicePending
  <2> QED BY <2>1 DEF HandleService, Serviceable
<1>3. i \in DOMAIN processes /\ processes[i].id = raw
  BY <1>1, <1>2 DEF Context, RegistryInv, RegistryConsistent
<1>4. processes[i] \in ProcessRecord
  BY <1>3 DEF Context, RegistryInv, TypeOK
<1>5. HasJob(processes[i])
  <2>1. processes[i].queue_length = Len(processes[i].jobs)
    BY <1>3 DEF Context, AllSound, Sound, JobsConsistent
  <2> QED BY <1>2, <2>1 DEF HasJob
<1>6. PICK at : processes' = [processes EXCEPT ![i] = Service(processes[i], at)]
  BY DEF HandleService
<1>7. /\ processes'[i].jobs = Tail(processes[i].jobs)
      /\ processes[i].jobs # <<>>
  <2>1. Service(processes[i], at).jobs = Tail(processes[i].jobs)
    BY <1>4, <1>5 DEF Service, ProcessRecord
  <2> QED BY <1>3, <1>5, <1>6, <2>1 DEF HasJob
<1>8. QueueOf(raw)' = Tail(QueueOf(raw)) /\ QueueOf(raw) # <<>>
  BY <1>2, <1>7 DEF QueueOf, Known
<1>9. ASSUME NEW s \in Services, s # raw PROVE QueueOf(s)' = QueueOf(s)
  <2>1. CASE Known(s)
    <3>1. indexOf[s] \in DOMAIN processes /\ indexOf[s] # i
      BY <1>3, <1>9, <2>1 DEF Context, RegistryInv, RegistryConsistent
    <3>2. processes'[indexOf[s]] = processes[indexOf[s]]
      BY <1>6, <3>1
    <3> QED BY <1>2, <2>1, <3>2 DEF QueueOf, Known
  <2>2. CASE ~Known(s)
    BY <1>2, <2>2 DEF QueueOf, Known
  <2> QED BY <2>1, <2>2
<1>10. [s \in Services |-> QueueOf(s)]'
         = [[s \in Services |-> QueueOf(s)] EXCEPT ![raw] = Tail(@)]
  BY <1>1, <1>8, <1>9
<1> QED BY <1>1, <1>2, <1>8, <1>10 DEF System!Serve, QueueOf

LEMMA EndTickIsAdvance ==
    ASSUME Context, PhaseInv, EndTick PROVE System!Advance
<1>1. /\ tick' = tick + 1 /\ served' = 0 /\ UNCHANGED <<indexOf, processes>>
      /\ AfterService
  BY EndTickPhase DEF EndTick
<1>2. served > 0 \/ \A s \in Services : QueueOf(s) = <<>>
  <2> SUFFICES ASSUME ~(served > 0), NEW s \in Services, Known(s)
               PROVE  processes[indexOf[s]].jobs = <<>>
    BY DEF QueueOf
  <2>1. indexOf[s] \in DOMAIN processes
    BY DEF Context, RegistryInv, RegistryConsistent
  <2>2. processes[indexOf[s]].queue_length = 0
    BY <1>1, <2>1 DEF AfterService
  <2>3. processes[indexOf[s]].queue_length = Len(processes[indexOf[s]].jobs)
    BY <2>1 DEF Context, AllSound, Sound, JobsConsistent
  <2>4. processes[indexOf[s]].jobs \in Seq(Nat)
    <3>1. processes[indexOf[s]] \in ProcessRecord
      BY <2>1 DEF Context, RegistryInv, TypeOK
    <3> QED BY <3>1 DEF ProcessRecord
  <2> QED BY <2>2, <2>3, <2>4
<1>3. \A s \in Services : QueueOf(s)' = QueueOf(s)
  BY <1>1 DEF QueueOf, Known
<1> QED BY <1>1, <1>2, <1>3 DEF System!Advance, QueueOf

\* Every other step leaves the abstract system alone.
LEMMA OtherStepsStutter ==
    ASSUME Synthetic, Context, PhaseInv,
           \/ BeginTick
           \/ \E e \in Event : HandleSchedule(e) \/ HandleMetrics(e)
           \/ Terminated \/ UNCHANGED vars
    PROVE  UNCHANGED <<tick, served>> /\ \A s \in Services : QueueOf(s)' = QueueOf(s)
<1>1. CASE BeginTick
  <2>1. UNCHANGED <<tick, served, indexOf>>
    BY <1>1 DEF BeginTick
  <2>2. \A i \in DOMAIN processes : processes'[i].jobs = processes[i].jobs
    <3> SUFFICES ASSUME NEW i \in DOMAIN processes
                 PROVE  processes'[i].jobs = processes[i].jobs
      OBVIOUS
    <3>1. processes[i] \in ProcessRecord
      BY DEF Context, RegistryInv, TypeOK
    <3>2. WarmupReset(processes[i]).jobs = processes[i].jobs
      BY <3>1 DEF WarmupReset, ProcessRecord
    <3> QED BY <1>1, <3>2 DEF BeginTick
  <2> QED BY <2>1, <2>2, QueuesKept
<1>2. ASSUME NEW e \in Event, HandleSchedule(e)
      PROVE  UNCHANGED <<tick, served>> /\ \A s \in Services : QueueOf(s)' = QueueOf(s)
  <2>1. UNCHANGED <<tick, served, indexOf, processes>>
    BY <1>2 DEF HandleSchedule, Schedule, Synthetic
  <2> QED BY <2>1, QueuesKept
<1>3. ASSUME NEW e \in Event, HandleMetrics(e)
      PROVE  UNCHANGED <<tick, served>> /\ \A s \in Services : QueueOf(s)' = QueueOf(s)
  <2>1. UNCHANGED <<tick, served, indexOf>>
    BY <1>3 DEF HandleMetrics, history
  <2>2. \A i \in DOMAIN processes : processes'[i].jobs = processes[i].jobs
    <3> SUFFICES ASSUME NEW i \in DOMAIN processes
                 PROVE  processes'[i].jobs = processes[i].jobs
      OBVIOUS
    <3>1. processes[i] \in ProcessRecord
      BY DEF Context, RegistryInv, TypeOK
    <3>2. TickIdle(processes[i]).jobs = processes[i].jobs
      BY <3>1 DEF TickIdle, ProcessRecord
    <3> QED BY <1>3, <3>2 DEF HandleMetrics
  <2> QED BY <2>1, <2>2, QueuesKept
<1>4. CASE Terminated \/ UNCHANGED vars
  <2>1. UNCHANGED <<tick, served, indexOf, processes>>
    BY <1>4 DEF Terminated, vars, loopVars, history
  <2> QED BY <2>1, QueuesKept
<1> QED BY <1>1, <1>2, <1>3, <1>4

(***************************************************************************)
(* With a synthetic source and no locks the loop implements the slotted    *)
(* single-server FIFO system, for every policy that honours Decisions and  *)
(* any number of processes, arrivals per tick and ticks.                   *)
(***************************************************************************)
THEOREM LoopImplementsSystem == ASSUME Synthetic PROVE Spec => ImplementsQueueingSystem
<1>1. ASSUME Context, Context', PhaseInv, [Next]_vars
      PROVE  System!Next \/ UNCHANGED System!systemVars
  <2>1. ASSUME NEW e \in Event,
               HandleLockAcquire(e) \/ IgnoreLockEvent(e) \/ IgnoreService(e)
        PROVE  FALSE
    BY <1>1, <2>1, NothingIgnored
  <2>2. ASSUME NEW e \in Event, HandleArrival(e) PROVE System!Next
    BY <1>1, <2>2, ArrivalIsArrive DEF System!Next
  <2>3. ASSUME NEW e \in Event, HandleService(e) PROVE System!Next
    BY <1>1, <2>3, ServiceIsServe DEF System!Next
  <2>4. CASE EndTick
    BY <1>1, <2>4, EndTickIsAdvance DEF System!Next
  <2>5. CASE \/ BeginTick
             \/ \E e \in Event : HandleSchedule(e) \/ HandleMetrics(e)
             \/ Terminated \/ UNCHANGED vars
    <3>1. UNCHANGED <<tick, served>> /\ \A s \in Services : QueueOf(s)' = QueueOf(s)
      BY <1>1, <2>5, OtherStepsStutter
    <3> QED BY <3>1 DEF System!systemVars, QueueOf
  <2> QED BY <1>1, <2>1, <2>2, <2>3, <2>4, <2>5 DEF Next
<1>2. Context /\ PhaseInv /\ Context' /\ [Next]_vars => [System!Next]_(System!systemVars)
  BY <1>1
<1> QED BY <1>2, InitSystem, PhaseInvariant, PTL
        DEF Spec, ImplementsQueueingSystem, System!Spec

=============================================================================
