----------------------- MODULE EventLoopMetrics_proofs -----------------------
(***************************************************************************)
(* Proofs about the statistics of EventLoop: the online snapshot is that   *)
(* of the tick just completed, in every mode; without locks the samples of *)
(* the offline statistics are the jobs the processes completed.            *)
(***************************************************************************)
EXTENDS EventLoop_proofs

\* What the earlier invariants contribute.
Context == RegistryInv /\ AllSound

LEMMA ContextInvariant == Spec => []Context
BY RegistryInvariant, SoundInvariant, PTL DEF Context

LEMMA ContextTypes ==
    ASSUME Context
    PROVE  /\ processes \in Seq(ProcessRecord) /\ tick \in Nat
           /\ heap \in [Event -> Nat] /\ last \in 0 .. Len(processes)
  BY EventLoopAssumption DEF Context, RegistryInv, TypeOK, IsHeap

-----------------------------------------------------------------------------
(* Counters summed over the processes.                                     *)

Counters == {"arrival_count", "completed_jobs", "total_waiting_time"}

LEMMA CounterTyped ==
    ASSUME NEW ps \in Seq(ProcessRecord), NEW field \in Counters, NEW i \in DOMAIN ps
    PROVE  ps[i][field] \in Nat
<1>1. ps[i] \in ProcessRecord
  OBVIOUS
<1> QED BY <1>1 DEF ProcessRecord, Counters

LEMMA TotalSums ==
    ASSUME NEW ps \in Seq(ProcessRecord), NEW field \in Counters
    PROVE  LET c == [i \in DOMAIN ps |-> ps[i][field]]
           IN  /\ SumOver(ps, field) = SumFunctionOnSet(c, DOMAIN ps)
               /\ SumOver(ps, field) \in Nat
               /\ Summable(c, DOMAIN ps)
<1> DEFINE c == [i \in DOMAIN ps |-> ps[i][field]]
<1>1. SumOver(ps, field) = SumFunctionOnSet(c, DOMAIN ps)
  BY DEF SumOver, SumFunction
<1>2. IsFiniteSet(DOMAIN ps)
  <2>1. DOMAIN ps = 1 .. Len(ps) /\ Len(ps) \in Nat
    OBVIOUS
  <2> QED BY <2>1, FS_Interval
<1>3. \A i \in DOMAIN ps : c[i] \in Nat
  BY CounterTyped
<1> HIDE DEF c
<1>4. SumFunctionOnSet(c, DOMAIN ps) \in Nat /\ Summable(c, DOMAIN ps)
  BY <1>2, <1>3, SumNatural DEF Summable
<1> QED BY <1>1, <1>4 DEF c

LEMMA TotalSame ==
    ASSUME NEW ps \in Seq(ProcessRecord), NEW qs \in Seq(ProcessRecord), NEW field,
           Len(qs) = Len(ps), \A i \in DOMAIN ps : qs[i][field] = ps[i][field]
    PROVE  SumOver(qs, field) = SumOver(ps, field)
<1>1. DOMAIN qs = DOMAIN ps
  OBVIOUS
<1>2. [i \in DOMAIN qs |-> qs[i][field]] = [i \in DOMAIN ps |-> ps[i][field]]
  BY <1>1
<1> QED BY <1>2 DEF SumOver

LEMMA TotalZero ==
    ASSUME NEW ps \in Seq(ProcessRecord), NEW field \in Counters,
           \A i \in DOMAIN ps : ps[i][field] = 0
    PROVE  SumOver(ps, field) = 0
<1> DEFINE c == [i \in DOMAIN ps |-> ps[i][field]]
<1>1. SumOver(ps, field) = SumFunctionOnSet(c, DOMAIN ps) /\ Summable(c, DOMAIN ps)
  BY TotalSums
<1>2. \A i \in DOMAIN ps : c[i] = 0
  OBVIOUS
<1> HIDE DEF c
<1> QED BY <1>1, <1>2, SumZero DEF Summable

LEMMA TotalChange ==
    ASSUME NEW ps \in Seq(ProcessRecord), NEW field \in Counters,
           NEW i \in DOMAIN ps, NEW q \in ProcessRecord
    PROVE  SumOver([ps EXCEPT ![i] = q], field) = SumOver(ps, field) + (q[field] - ps[i][field])
<1> DEFINE qs == [ps EXCEPT ![i] = q]
           c  == [j \in DOMAIN ps |-> ps[j][field]]
           d  == [j \in DOMAIN qs |-> qs[j][field]]
<1>1. qs \in Seq(ProcessRecord) /\ DOMAIN qs = DOMAIN ps
  OBVIOUS
<1>2. SumOver(ps, field) = SumFunctionOnSet(c, DOMAIN ps) /\ Summable(c, DOMAIN ps)
  BY TotalSums
<1>3. c[i] = ps[i][field] /\ d[i] = q[field] /\ \A j \in DOMAIN ps \ {i} : d[j] = c[j]
  OBVIOUS
<1> HIDE DEF qs
<1>4. SumOver(qs, field) = SumFunctionOnSet(d, DOMAIN ps) /\ Summable(d, DOMAIN ps)
  BY <1>1, TotalSums
<1> HIDE DEF c, d
<1>5. SumFunctionOnSet(d, DOMAIN ps) = SumFunctionOnSet(c, DOMAIN ps) + (d[i] - c[i])
  BY <1>2, <1>3, <1>4, SumChange
<1> QED BY <1>2, <1>3, <1>4, <1>5 DEF qs

LEMMA TotalAppend ==
    ASSUME NEW ps \in Seq(ProcessRecord), NEW field \in Counters,
           NEW q \in ProcessRecord, q[field] = 0
    PROVE  SumOver(Append(ps, q), field) = SumOver(ps, field)
<1> DEFINE qs == Append(ps, q)
           n  == Len(ps) + 1
           c  == [j \in DOMAIN ps |-> ps[j][field]]
           d  == [j \in DOMAIN qs |-> qs[j][field]]
<1>1. /\ qs \in Seq(ProcessRecord) /\ DOMAIN qs = DOMAIN ps \cup {n}
      /\ n \notin DOMAIN ps
  OBVIOUS
<1>2. /\ SumOver(ps, field) = SumFunctionOnSet(c, DOMAIN ps) /\ Summable(c, DOMAIN ps)
      /\ SumOver(ps, field) \in Nat
  BY TotalSums
<1>3. d[n] = 0 /\ \A j \in DOMAIN ps : d[j] = c[j]
  <2>1. qs[n] = q /\ \A j \in DOMAIN ps : qs[j] = ps[j]
    OBVIOUS
  <2> HIDE DEF qs, n
  <2> QED BY <1>1, <2>1
<1> HIDE DEF qs, n
<1>4. SumOver(qs, field) = SumFunctionOnSet(d, DOMAIN ps \cup {n})
  BY <1>1, TotalSums
<1> HIDE DEF c, d
<1>5. SumFunctionOnSet(d, DOMAIN ps \cup {n}) = SumFunctionOnSet(c, DOMAIN ps) + d[n]
  <2>1. d[n] \in Int
    BY <1>3
  <2> QED BY <1>1, <1>2, <1>3, <2>1, SumAdd
<1> QED BY <1>2, <1>3, <1>4, <1>5 DEF qs

\* Registering a service adds nothing to a total.
LEMMA TotalExtended ==
    ASSUME Context, NEW raw \in Services, NEW field \in Counters
    PROVE  SumOver(Extended(processes, raw, NewProcess(raw)), field) = TotalOf(field)
<1>1. processes \in Seq(ProcessRecord) /\ NewProcess(raw) \in ProcessRecord
  BY ContextTypes, NewProcessTyped, EventQueueAssumption
<1>2. NewProcess(raw)[field] = 0
  BY DEF NewProcess, Counters
<1> QED BY <1>1, <1>2, TotalAppend DEF Extended, TotalOf

-----------------------------------------------------------------------------
(* The drain loop: one Metrics event is on the heap until it is handled,   *)
(* and it is the last event handled.                                       *)

MetricsPending == pc = "drain" /\ heap[MetricsEvent] = 1

Measured == pc = "drain" /\ IsEmpty(heap)

DrainInv == IF pc = "drain" THEN MetricsPending \/ Measured ELSE IsEmpty(heap)

LEMMA TypesOfPipelineEvents ==
    /\ ScheduleEvent.type = "Schedule" /\ MetricsEvent.type = "Metrics"
    /\ \A raw \in Services, cx \in BOOLEAN : /\ ServiceEvent(raw, cx).type = "Service"
                                             /\ ServiceEvent(raw, cx).pid = raw
  BY DEF ScheduleEvent, MetricsEvent, ServiceEvent

LEMMA OnlyMetricsEvent ==
    ASSUME NEW e \in Event, e.type = "Metrics" PROVE e = MetricsEvent
  BY DEF Event, MetricsEvent

\* A batch holds events of the types of the source only.
LEMMA BatchTyped ==
    ASSUME NEW batch \in Batches,
           NEW e \in Event, e.type \notin SourceTypes, heap[e] = 0
    PROVE  PushAll(heap, batch)[e] = 0
<1>1. PICK n \in 0 .. MaxBatch : batch \in [1 .. n -> SourceEvent]
  BY DEF Batches, BoundedSeq, SeqOf
<1>2. \A k \in DOMAIN batch : batch[k] # e
  BY <1>1 DEF SourceEvent
<1>3. {k \in DOMAIN batch : batch[k] = e} = {}
  BY <1>2
<1> QED BY <1>3, FS_EmptySet DEF PushAll

\* The heap after a pop, event by event.
LEMMA PoppedHeap ==
    ASSUME Context, NEW e \in Event, NEW type, Pop(e, type)
    PROVE  /\ heap \in [Event -> Nat] /\ heap[e] > 0 /\ pc = "drain" /\ e.type = type
           /\ Popped(heap, e) \in [Event -> Nat]
           /\ \A f \in Event : Popped(heap, e)[f] = IF f = e THEN heap[e] - 1 ELSE heap[f]
  BY DEF Context, RegistryInv, TypeOK, IsHeap, Pop, Popped, Tops

\* Whatever is popped, the Metrics event was still to come; it comes last.
LEMMA PoppedMetrics ==
    ASSUME Context, DrainInv, NEW e \in Event, NEW type, Pop(e, type)
    PROVE  /\ MetricsPending
           /\ type # "Metrics" => Popped(heap, e)[MetricsEvent] = 1
           /\ type = "Metrics" => IsEmpty(Popped(heap, e))
<1>1. /\ heap \in [Event -> Nat] /\ heap[e] > 0 /\ pc = "drain" /\ e.type = type
      /\ \A f \in Event : Popped(heap, e)[f] = IF f = e THEN heap[e] - 1 ELSE heap[f]
  BY PoppedHeap
<1>2. MetricsPending
  BY <1>1 DEF DrainInv, Measured, IsEmpty
<1>3. ASSUME type # "Metrics" PROVE Popped(heap, e)[MetricsEvent] = 1
  BY <1>1, <1>2, <1>3, EventTyped, TypesOfPipelineEvents DEF MetricsPending
<1>4. ASSUME type = "Metrics" PROVE IsEmpty(Popped(heap, e))
  <2>1. e = MetricsEvent
    BY <1>1, <1>4, OnlyMetricsEvent
  <2>2. ASSUME NEW f \in Event, heap[f] > 0 PROVE f = MetricsEvent
    <3>1. Rank(e.type) <= Rank(f.type)
      BY <2>2 DEF Pop, Tops
    <3>2. f.type = "Metrics"
      <4>1. f.type \in {"Arrival", "LockAcquire", "LockRelease", "Schedule", "Service", "Metrics"}
        BY DEF Event
      <4> QED BY <1>1, <1>4, <3>1, <4>1 DEF Rank
    <3> QED BY <3>2, OnlyMetricsEvent
  <2>3. \A f \in Event : f # e => heap[f] = 0
    BY <1>1, <2>1, <2>2
  <2>4. heap[e] = 1
    BY <1>2, <2>1 DEF MetricsPending
  <2> QED BY <1>1, <2>3, <2>4 DEF IsEmpty
<1> QED BY <1>2, <1>3, <1>4

LEMMA BeginTickDrain ==
    ASSUME Context, DrainInv, BeginTick PROVE MetricsPending'
<1> PICK batch \in Batches :
            heap' = Push(Push(PushAll(heap, batch), ScheduleEvent), MetricsEvent)
  BY DEF BeginTick
<1>1. pc = "tick" /\ pc' = "drain" /\ \A e \in Event : heap[e] = 0
  BY DEF BeginTick, DrainInv, IsEmpty
<1>2. PushAll(heap, batch)[MetricsEvent] = 0
  BY <1>1, EventTyped, TypesOfPipelineEvents, BatchTyped, EventLoopAssumption
<1>3. PushAll(heap, batch) \in [Event -> Nat]
  BY PushAllTyped DEF Context, RegistryInv, TypeOK, IsHeap, Batches
<1>4. heap'[MetricsEvent] = 1
  BY <1>2, <1>3, EventTyped, TypesOfPipelineEvents DEF Push
<1> QED BY <1>1, <1>4 DEF MetricsPending

\* A handler other than that of the Metrics event leaves it on the heap.
LEMMA HandlerDrain ==
    ASSUME Context, DrainInv, NEW e \in Event,
           \/ HandleArrival(e) \/ HandleLockAcquire(e) \/ IgnoreLockEvent(e)
           \/ HandleSchedule(e) \/ HandleService(e) \/ IgnoreService(e)
    PROVE  MetricsPending /\ MetricsPending'
<1>1. ASSUME NEW type, Pop(e, type), type # "Metrics", heap' = Popped(heap, e), pc' = pc
      PROVE  MetricsPending /\ MetricsPending'
  BY <1>1, PoppedMetrics DEF MetricsPending
<1>2. CASE HandleSchedule(e)
  <2> PICK i \in Decisions, cx \in BOOLEAN : heap' = HeapAfterSchedule(e, i, cx)
    BY <1>2 DEF HandleSchedule, Schedule
  <2>1. Pop(e, "Schedule") /\ pc' = pc
    BY <1>2 DEF HandleSchedule, Schedule
  <2>2. MetricsPending /\ Popped(heap, e)[MetricsEvent] = 1
    BY <2>1, PoppedMetrics
  <2>3. CASE i = NoPid
    BY <2>1, <2>2, <2>3 DEF HeapAfterSchedule, MetricsPending
  <2>4. CASE i # NoPid
    <3> DEFINE srv == ServiceEvent(processes[i].id, cx)
    <3>1. i \in DOMAIN processes
      BY <2>4 DEF Decisions, Candidates
    <3>2. processes[i].id \in Services
      BY <3>1 DEF Context, RegistryInv, RegistryConsistent
    <3>3. srv \in Event /\ srv # MetricsEvent
      BY <3>2, EventTyped, TypesOfPipelineEvents
    <3>4. Popped(heap, e) \in [Event -> Nat]
      BY <2>1, PoppedHeap
    <3> HIDE DEF srv
    <3>5. heap'[MetricsEvent] = 1
      BY <2>2, <2>4, <3>3, <3>4, EventTyped DEF HeapAfterSchedule, Push, srv
    <3> QED BY <2>1, <2>2, <3>5 DEF MetricsPending
  <2> QED BY <2>3, <2>4
<1> QED BY <1>1, <1>2 DEF HandleArrival, HandleLockAcquire, IgnoreLockEvent,
                          HandleService, IgnoreService, Pop

LEMMA MetricsDrain ==
    ASSUME Context, DrainInv, NEW e \in Event, HandleMetrics(e)
    PROVE  MetricsPending /\ Measured' /\ ~MetricsPending'
<1>1. Pop(e, "Metrics") /\ heap' = Popped(heap, e) /\ pc' = pc
  BY DEF HandleMetrics
<1>2. MetricsPending /\ IsEmpty(heap')
  BY <1>1, PoppedMetrics
<1> QED BY <1>1, <1>2, EventTyped DEF MetricsPending, Measured, IsEmpty

LEMMA EndTickDrain ==
    ASSUME EndTick PROVE Measured /\ ~MetricsPending /\ pc' # "drain" /\ IsEmpty(heap')
  BY EventTyped DEF EndTick, Measured, MetricsPending, IsEmpty

LEMMA DrainInvariant == Spec => []DrainInv
<1>1. Init => DrainInv
  BY DEF Init, DrainInv, IsEmpty, EmptyHeap
<1>2. Context /\ DrainInv /\ [Next]_vars => DrainInv'
  <2> SUFFICES ASSUME Context, DrainInv, [Next]_vars PROVE DrainInv'
    OBVIOUS
  <2>1. MetricsPending' \/ Measured' => DrainInv'
    BY DEF DrainInv, MetricsPending, Measured
  <2>2. CASE BeginTick
    BY <2>1, <2>2, BeginTickDrain
  <2>3. ASSUME NEW e \in Event,
               \/ HandleArrival(e) \/ HandleLockAcquire(e) \/ IgnoreLockEvent(e)
               \/ HandleSchedule(e) \/ HandleService(e) \/ IgnoreService(e)
        PROVE  DrainInv'
    BY <2>1, <2>3, HandlerDrain
  <2>4. ASSUME NEW e \in Event, HandleMetrics(e) PROVE DrainInv'
    BY <2>1, <2>4, MetricsDrain
  <2>5. CASE EndTick
    BY <2>5, EndTickDrain DEF DrainInv
  <2>6. CASE Terminated \/ UNCHANGED vars
    BY <2>6 DEF Terminated, vars, loopVars, DrainInv, MetricsPending, Measured, IsEmpty
  <2> QED BY <2>2, <2>3, <2>4, <2>5, <2>6 DEF Next
<1> QED BY <1>1, <1>2, ContextInvariant, PTL DEF Spec

-----------------------------------------------------------------------------
(* OnlineMetrics, in every mode.                                           *)

\* The warm-up reset of the tick that is running has been done.
Started == tick > WarmupTicks \/ (tick = WarmupTicks /\ pc = "drain")

CountStart == IF Started THEN WarmupTicks ELSE 0

\* The sums of the rolling window, and one update for every tick.
OnlineCounts ==
    /\ online.tick_count \in Nat /\ online.busy_ticks \in Nat
    /\ online.ring \in [0 .. Window - 1 -> {0, 1}]
    /\ online.window_sum = SumFunction(online.ring)
    /\ online.window_sum <= online.busy_ticks
    /\ online.busy_ticks <= online.tick_count
    /\ online.tick_count = (IF Measured THEN tick + 1 ELSE tick) - CountStart

\* Once the Metrics event is handled the snapshot is that of the processes.
Snapshot ==
    ~MetricsPending => /\ online.current_v = LyapunovV(processes)
                       /\ online.total_arrived = TotalOf("arrival_count")

OnlineInv == OnlineCounts /\ Snapshot

LEMMA RingSums ==
    ASSUME NEW r \in [0 .. Window - 1 -> {0, 1}], NEW s \in 0 .. Window - 1, NEW done \in {0, 1}
    PROVE  /\ SumFunction(r) \in Nat
           /\ SumFunction([r EXCEPT ![s] = done]) = SumFunction(r) - r[s] + done
<1> DEFINE D == 0 .. Window - 1
           q == [r EXCEPT ![s] = done]
<1>1. DOMAIN r = D /\ DOMAIN q = D /\ IsFiniteSet(D)
  BY FS_Interval, OnlineMetricsAssumption
<1>2. /\ \A x \in D : r[x] \in Nat
      /\ \A x \in D : q[x] \in Nat
      /\ q[s] = done /\ \A x \in D \ {s} : q[x] = r[x]
      /\ s \in D
  OBVIOUS
<1> HIDE DEF D, q
<1>3. Summable(r, D) /\ Summable(q, D)
  BY <1>1, <1>2 DEF Summable
<1>4. SumFunctionOnSet(r, D) \in Nat
  BY <1>1, <1>2, SumNatural
<1>5. SumFunctionOnSet(q, D) = SumFunctionOnSet(r, D) + (q[s] - r[s])
  <2>1. s \in D
    BY <1>2
  <2>2. \A y \in D \ {s} : q[y] = r[y]
    BY <1>2
  <2>3. \A f, g : Summable(f, D) /\ Summable(g, D) /\ (\A y \in D \ {s} : g[y] = f[y])
                    => SumFunctionOnSet(g, D) = SumFunctionOnSet(f, D) + (g[s] - f[s])
    BY <2>1, SumChange
  <2> QED BY <1>3, <2>2, <2>3
<1>6. r[s] \in Nat
  BY <1>2
<1>7. SumFunctionOnSet(q, D) = SumFunctionOnSet(r, D) - r[s] + done
  BY <1>2, <1>4, <1>5, <1>6
<1> QED BY <1>1, <1>4, <1>7 DEF SumFunction, q

LEMMA RingResets == SumFunction(OnlineReset.ring) = 0
<1>1. DOMAIN OnlineReset.ring = 0 .. Window - 1 /\ IsFiniteSet(0 .. Window - 1)
  BY FS_Interval, OnlineMetricsAssumption DEF OnlineReset
<1>2. \A x \in 0 .. Window - 1 : OnlineReset.ring[x] = 0
  BY DEF OnlineReset
<1> QED BY <1>1, <1>2, SumZero DEF SumFunction

LEMMA ResetCounts ==
    ASSUME online = OnlineReset, tick = CountStart, ~Measured PROVE OnlineCounts
<1>1. /\ online.tick_count = 0 /\ online.busy_ticks = 0 /\ online.window_sum = 0
      /\ online.ring \in [0 .. Window - 1 -> {0, 1}]
  BY DEF OnlineReset
<1>2. SumFunction(online.ring) = 0
  BY RingResets
<1>3. tick - CountStart = 0
  BY EventLoopAssumption DEF CountStart
<1> QED BY <1>1, <1>2, <1>3 DEF OnlineCounts

LEMMA ResetCountsNext == (online = OnlineReset /\ tick = CountStart /\ ~Measured => OnlineCounts)'
<1>1. online = OnlineReset /\ tick = CountStart /\ ~Measured => OnlineCounts
  BY ResetCounts
<1> QED BY <1>1, PTL

\* What the Metrics handler leaves of every process.
LEMMA MetricsKeeps ==
    ASSUME Context, NEW e \in Event, HandleMetrics(e)
    PROVE  /\ processes' \in Seq(ProcessRecord) /\ Len(processes') = Len(processes)
           /\ DOMAIN processes' = DOMAIN processes
           /\ \A i \in DOMAIN processes :
                 /\ processes'[i].queue_length = processes[i].queue_length
                 /\ \A f \in Counters : processes'[i][f] = processes[i][f]
                 /\ processes'[i] = IF i = last THEN processes[i] ELSE TickIdle(processes[i])
<1> DEFINE after(i) == IF i = last THEN processes[i] ELSE TickIdle(processes[i])
<1>1. processes \in Seq(ProcessRecord)
  BY ContextTypes
<1>2. processes' = [i \in DOMAIN processes |-> after(i)]
  BY DEF HandleMetrics
<1>3. ASSUME NEW i \in DOMAIN processes
      PROVE  /\ after(i) \in ProcessRecord
             /\ after(i).queue_length = processes[i].queue_length
             /\ \A f \in Counters : after(i)[f] = processes[i][f]
  <2>1. processes[i] \in ProcessRecord
    BY <1>1
  <2>2. TickIdle(processes[i]) \in ProcessRecord
    BY <2>1, TickIdleTyped
  <2>3. /\ TickIdle(processes[i]).queue_length = processes[i].queue_length
        /\ \A f \in Counters : TickIdle(processes[i])[f] = processes[i][f]
    BY <2>1 DEF TickIdle, ProcessRecord, Counters
  <2> QED BY <2>1, <2>2, <2>3
<1>4. \A i \in DOMAIN processes : processes'[i] = after(i)
  BY <1>2
<1> QED BY <1>1, <1>2, <1>3, <1>4

\* The update of a tick.
LEMMA MetricsCounts ==
    ASSUME Context, DrainInv, OnlineInv, NEW e \in Event, HandleMetrics(e)
    PROVE  OnlineInv'
<1> DEFINE done  == IF last # NoPid THEN 1 ELSE 0
           count == online.tick_count + 1
           slot  == count % Window
<1>1. /\ online.tick_count \in Nat /\ online.busy_ticks \in Nat
      /\ online.ring \in [0 .. Window - 1 -> {0, 1}]
      /\ online.window_sum = SumFunction(online.ring)
      /\ online.window_sum <= online.busy_ticks
      /\ online.busy_ticks <= online.tick_count
  BY DEF OnlineInv, OnlineCounts
<1>2. MetricsPending /\ ~Measured /\ Measured' /\ ~MetricsPending'
  <2>1. MetricsPending /\ Measured' /\ ~MetricsPending'
    BY MetricsDrain
  <2> QED BY <2>1, EventTyped DEF MetricsPending, Measured, IsEmpty
<1>3. UNCHANGED <<tick, pc>>
  BY DEF HandleMetrics
<1>4. slot \in 0 .. Window - 1
  BY <1>1, OnlineMetricsAssumption
<1>5. done \in {0, 1}
  OBVIOUS
<1>6. /\ online'.tick_count = count
      /\ online'.ring = [online.ring EXCEPT ![slot] = done]
      /\ online'.window_sum = online.window_sum - online.ring[slot] + done
      /\ online'.busy_ticks = online.busy_ticks + done
      /\ online'.current_v = LyapunovV(processes)
      /\ online'.total_arrived = SumOver(processes, "arrival_count")
  BY DEF HandleMetrics, OnlineUpdate
<1> HIDE DEF slot, done
<1>7. /\ SumFunction(online.ring) \in Nat
      /\ SumFunction(online'.ring) = SumFunction(online.ring) - online.ring[slot] + done
  <2>1. online.ring \in [0 .. Window - 1 -> {0, 1}]
    BY <1>1
  <2>2. /\ SumFunction(online.ring) \in Nat
        /\ SumFunction([online.ring EXCEPT ![slot] = done])
             = SumFunction(online.ring) - online.ring[slot] + done
    BY <1>4, <1>5, <2>1, RingSums
  <2> QED BY <1>6, <2>2
<1>8. online'.ring \in [0 .. Window - 1 -> {0, 1}] /\ online.ring[slot] \in {0, 1}
  BY <1>1, <1>4, <1>5, <1>6
<1>9. online'.window_sum = SumFunction(online'.ring)
  BY <1>1, <1>6, <1>7
<1>10. /\ online'.tick_count \in Nat /\ online'.busy_ticks \in Nat
       /\ online'.window_sum <= online'.busy_ticks
       /\ online'.busy_ticks <= online'.tick_count
  <2>1. ASSUME NEW w \in Nat, NEW b \in Nat, NEW t \in Nat, NEW x \in {0, 1}, NEW d \in {0, 1},
               w <= b, b <= t
        PROVE  /\ t + 1 \in Nat /\ b + d \in Nat
               /\ (w - x) + d <= b + d /\ b + d <= t + 1
    BY <2>1
  <2>2. online.window_sum \in Nat
    BY <1>1, <1>7
  <2> QED BY <1>1, <1>5, <1>6, <1>8, <2>1, <2>2
<1>11. online'.tick_count = (IF Measured THEN tick + 1 ELSE tick)' - CountStart'
  <2>1. online.tick_count = tick - CountStart
    BY <1>2 DEF OnlineInv, OnlineCounts
  <2>2. tick \in Nat /\ CountStart \in Nat
    BY ContextTypes, EventLoopAssumption DEF CountStart
  <2>3. CountStart' = CountStart /\ tick' = tick
    BY <1>3 DEF CountStart, Started
  <2>4. count = (tick + 1) - CountStart
    BY <2>1, <2>2
  <2> QED BY <1>2, <1>6, <2>3, <2>4
<1>12. OnlineCounts'
  BY <1>8, <1>9, <1>10, <1>11 DEF OnlineCounts
<1>13. Snapshot'
  <2>1. LyapunovV(processes') = LyapunovV(processes)
    <3>1. /\ DOMAIN processes' = DOMAIN processes
          /\ \A i \in DOMAIN processes : processes'[i].queue_length = processes[i].queue_length
      BY MetricsKeeps
    <3>2. [i \in DOMAIN processes' |-> processes'[i].queue_length * processes'[i].queue_length]
            = [i \in DOMAIN processes |-> processes[i].queue_length * processes[i].queue_length]
      BY <3>1
    <3> QED BY <3>1, <3>2 DEF LyapunovV
  <2>2. SumOver(processes', "arrival_count") = SumOver(processes, "arrival_count")
    <3>1. /\ processes \in Seq(ProcessRecord) /\ processes' \in Seq(ProcessRecord)
          /\ Len(processes') = Len(processes)
      BY ContextTypes, MetricsKeeps
    <3>2. \A i \in DOMAIN processes :
             processes'[i]["arrival_count"] = processes[i]["arrival_count"]
      BY MetricsKeeps DEF Counters
    <3> QED BY <3>1, <3>2, TotalSame
  <2> QED BY <1>6, <2>1, <2>2 DEF Snapshot, TotalOf
<1> QED BY <1>12, <1>13 DEF OnlineInv

LEMMA BeginTickCounts ==
    ASSUME Context, DrainInv, OnlineInv, BeginTick PROVE OnlineInv'
<1>1. MetricsPending' /\ ~Measured' /\ ~Measured
  <2>1. MetricsPending'
    BY BeginTickDrain
  <2> QED BY <2>1, EventTyped DEF BeginTick, MetricsPending, Measured, IsEmpty
<1>2. pc = "tick" /\ pc' = "drain" /\ tick' = tick /\ tick \in Nat
  BY ContextTypes DEF BeginTick
<1>3. CASE tick = WarmupTicks
  <2>1. online' = OnlineReset /\ tick' = CountStart'
    BY <1>2, <1>3 DEF BeginTick, CountStart, Started
  <2> QED BY <1>1, <2>1, ResetCountsNext DEF OnlineInv, Snapshot
<1>4. CASE tick # WarmupTicks
  <2>1. online' = online /\ CountStart' = CountStart
    BY <1>2, <1>4 DEF BeginTick, CountStart, Started
  <2> QED BY <1>1, <1>2, <2>1 DEF OnlineInv, OnlineCounts, Snapshot
<1> QED BY <1>3, <1>4

LEMMA EndTickCounts ==
    ASSUME Context, OnlineInv, EndTick PROVE OnlineInv'
<1>1. Measured /\ ~MetricsPending /\ ~Measured'
  BY EndTickDrain DEF Measured
<1>2. /\ pc = "drain" /\ pc' # "drain" /\ tick' = tick + 1 /\ tick \in Nat
      /\ UNCHANGED <<online, processes>>
  BY ContextTypes DEF EndTick
<1>3. CountStart' = CountStart
  BY <1>2, EventLoopAssumption DEF CountStart, Started
<1> QED BY <1>1, <1>2, <1>3 DEF OnlineInv, OnlineCounts, Snapshot, TotalOf

LEMMA OnlineInvariant == Spec => []OnlineInv
<1>1. Init => OnlineInv
  <2> SUFFICES ASSUME Init PROVE OnlineInv
    OBVIOUS
  <2>1. online = OnlineReset /\ tick = CountStart /\ ~Measured
    BY EventLoopAssumption DEF Init, CountStart, Started, Measured
  <2>2. /\ processes \in Seq(ProcessRecord)
        /\ \A i \in DOMAIN processes : /\ processes[i].queue_length = 0
                                       /\ processes[i]["arrival_count"] = 0
    BY InitTypes DEF Init, NewProcess, TypeOK
  <2>3. SumOver(processes, "arrival_count") = 0
    BY <2>2, TotalZero DEF Counters
  <2>4. LyapunovV(processes) = 0
    <3> DEFINE v == [i \in DOMAIN processes |->
                        processes[i].queue_length * processes[i].queue_length]
               D == {i \in DOMAIN processes : i <= NumProcs}
    <3>1. IsFiniteSet(D)
      <4>1. DOMAIN processes = 1 .. Len(processes) /\ Len(processes) \in Nat
        BY <2>2
      <4>2. D \in SUBSET (1 .. Len(processes))
        BY <4>1
      <4>3. IsFiniteSet(1 .. Len(processes))
        BY <4>1, FS_Interval
      <4> HIDE DEF D
      <4> QED BY <4>2, <4>3, FS_Subset
    <3>2. \A i \in D : v[i] = 0
      BY <2>2
    <3> HIDE DEF v, D
    <3>3. SumFunctionOnSet(v, D) = 0
      BY <3>1, <3>2, SumZero
    <3> QED BY <3>3 DEF LyapunovV, v, D
  <2> QED BY <2>1, <2>3, <2>4, ResetCounts DEF OnlineInv, Snapshot, TotalOf, OnlineReset
<1>2. Context /\ DrainInv /\ OnlineInv /\ [Next]_vars => OnlineInv'
  <2> SUFFICES ASSUME Context, DrainInv, OnlineInv, [Next]_vars PROVE OnlineInv'
    OBVIOUS
  <2>1. CASE BeginTick
    BY <2>1, BeginTickCounts
  <2>2. ASSUME NEW e \in Event,
               \/ HandleArrival(e) \/ HandleLockAcquire(e) \/ IgnoreLockEvent(e)
               \/ HandleSchedule(e) \/ HandleService(e) \/ IgnoreService(e)
        PROVE  OnlineInv'
    <3>1. MetricsPending /\ MetricsPending' /\ ~Measured /\ ~Measured'
      <4>1. MetricsPending /\ MetricsPending'
        BY <2>2, HandlerDrain
      <4> QED BY <4>1, EventTyped DEF MetricsPending, Measured, IsEmpty
    <3>2. UNCHANGED <<tick, pc, online>>
      BY <2>2 DEF HandleArrival, HandleLockAcquire, IgnoreLockEvent, HandleSchedule, Schedule,
                  HandleService, IgnoreService
    <3> QED BY <3>1, <3>2 DEF OnlineInv, OnlineCounts, Snapshot, CountStart, Started
  <2>3. ASSUME NEW e \in Event, HandleMetrics(e) PROVE OnlineInv'
    BY <2>3, MetricsCounts
  <2>4. CASE EndTick
    BY <2>4, EndTickCounts
  <2>5. CASE Terminated \/ UNCHANGED vars
    BY <2>5 DEF Terminated, vars, loopVars, OnlineInv, OnlineCounts, Snapshot, CountStart,
                Started, MetricsPending, Measured, IsEmpty, TotalOf
  <2> QED BY <2>1, <2>2, <2>3, <2>4, <2>5 DEF Next
<1> QED BY <1>1, <1>2, ContextInvariant, DrainInvariant, PTL DEF Spec

(***************************************************************************)
(* In every mode the online snapshot between two ticks is that of the tick *)
(* just completed: one update for every tick since the reset, V(t) of the  *)
(* queues as they are, every arrival counted, and the rolling sum exact    *)
(* however often its window has wrapped.                                   *)
(***************************************************************************)
THEOREM OnlineStaysInStep == Spec => []OnlineAgrees
<1>1. OnlineInv => OnlineAgrees
  <2> SUFFICES ASSUME OnlineInv, BetweenTicks PROVE OnlineAgrees
    BY DEF OnlineAgrees
  <2>1. ~MetricsPending /\ ~Measured /\ CountStart = StatisticsStart
    BY DEF BetweenTicks, MetricsPending, Measured, CountStart, Started, StatisticsStart
  <2> QED BY <2>1 DEF OnlineInv, OnlineCounts, Snapshot, OnlineAgrees
<1> QED BY <1>1, OnlineInvariant, PTL

-----------------------------------------------------------------------------
(* OfflineMetrics, without locks.                                          *)

OfflineRecord == [waits            : Nat,
                  total_wait_sum   : Nat,
                  decision_count   : Nat,
                  context_switches : Nat,
                  last_chosen_pid  : Nat]

\* Nothing is recorded before the reset, and every service and tick after it.
OfflineInv ==
    /\ offline \in OfflineRecord
    /\ IF Started
       THEN /\ offline.waits          = TotalOf("completed_jobs")
            /\ offline.total_wait_sum = TotalOf("total_waiting_time")
            /\ offline.decision_count = online.busy_ticks
       ELSE /\ offline.waits = 0 /\ offline.total_wait_sum = 0
            /\ offline.decision_count = 0

LEMMA RecordWaitsChanges ==
    ASSUME NEW om \in OfflineRecord, NEW n \in Nat, NEW w \in Nat
    PROVE  /\ RecordWaits(om, n, w) \in OfflineRecord
           /\ RecordWaits(om, n, w).waits = om.waits + n
           /\ RecordWaits(om, n, w).total_wait_sum = om.total_wait_sum + w
           /\ RecordWaits(om, n, w).decision_count = om.decision_count
<1>1. om.waits + n \in Nat /\ om.total_wait_sum + w \in Nat
  BY DEF OfflineRecord
<1>2. \A a, b \in Nat :
         LET r == [om EXCEPT !.waits = a, !.total_wait_sum = b]
         IN  /\ r \in OfflineRecord
             /\ r.waits = a /\ r.total_wait_sum = b /\ r.decision_count = om.decision_count
  BY DEF OfflineRecord
<1> QED BY <1>1, <1>2 DEF RecordWaits

LEMMA RecordDecisionChanges ==
    ASSUME NEW om \in OfflineRecord, NEW i \in Nat
    PROVE  /\ RecordDecision(om, i) \in OfflineRecord
           /\ RecordDecision(om, i).waits = om.waits
           /\ RecordDecision(om, i).total_wait_sum = om.total_wait_sum
           /\ RecordDecision(om, i).decision_count
                = om.decision_count + (IF i # NoPid THEN 1 ELSE 0)
<1>1. /\ om.decision_count \in Nat /\ om.decision_count + 1 \in Nat
      /\ om.context_switches \in Nat /\ om.context_switches + 1 \in Nat
  BY DEF OfflineRecord
<1>2. CASE i = NoPid
  BY <1>1, <1>2 DEF RecordDecision
<1>3. CASE i # NoPid
  <2> DEFINE b == IF om.last_chosen_pid \notin {i, NoPid}
                  THEN om.context_switches + 1 ELSE om.context_switches
             a == om.decision_count + 1
  <2>1. a \in Nat /\ b \in Nat
    BY <1>1
  <2>2. RecordDecision(om, i) = [om EXCEPT !.decision_count   = a,
                                           !.context_switches = b,
                                           !.last_chosen_pid  = i]
    BY <1>3 DEF RecordDecision
  <2> HIDE DEF a, b
  <2> DEFINE r == [om EXCEPT !.decision_count = a, !.context_switches = b, !.last_chosen_pid = i]
  <2>3. /\ r \in OfflineRecord /\ r.waits = om.waits
        /\ r.total_wait_sum = om.total_wait_sum /\ r.decision_count = a
    BY <2>1 DEF OfflineRecord
  <2> HIDE DEF r
  <2> QED BY <1>3, <2>2, <2>3 DEF a, r
<1> QED BY <1>2, <1>3

\* Without locks only a Service event, in its handler, completes a job.
LEMMA QueueNonEmpty ==
    ASSUME Context, NEW i \in DOMAIN processes, processes[i].queue_length > 0
    PROVE  processes[i] \in ProcessRecord /\ HasJob(processes[i])
<1>1. processes[i] \in ProcessRecord
  BY ContextTypes
<1>2. processes[i].queue_length = Len(processes[i].jobs) /\ processes[i].jobs \in Seq(Nat)
  BY <1>1 DEF Context, AllSound, Sound, JobsConsistent, ProcessRecord
<1> QED BY <1>1, <1>2 DEF HasJob

LEMMA ServiceCounters ==
    ASSUME NEW p \in ProcessRecord, HasJob(p), NEW at \in Nat
    PROVE  /\ Service(p, at) \in ProcessRecord
           /\ Service(p, at)["completed_jobs"] - p["completed_jobs"] = 1
           /\ Service(p, at)["total_waiting_time"] - p["total_waiting_time"] = ServiceWait(p, at)
           /\ ServiceWait(p, at) \in Nat
<1>1. p.jobs \in Seq(Nat) /\ p.jobs # <<>> /\ p.completed_jobs \in Nat /\ p.total_waiting_time \in Nat
  BY DEF HasJob, ProcessRecord
<1>2. Head(p.jobs) \in Nat
  BY <1>1
<1>3. ServiceWait(p, at) = WaitingTime(Head(p.jobs), at) /\ ServiceWait(p, at) \in Nat
  BY <1>2, WaitingTimeTyped DEF ServiceWait
<1>4. /\ Service(p, at).completed_jobs = p.completed_jobs + 1
      /\ Service(p, at).total_waiting_time = p.total_waiting_time + WaitingTime(Head(p.jobs), at)
  BY DEF Service, ProcessRecord
<1>5. Service(p, at) \in ProcessRecord
  BY ServiceTyped
<1> DEFINE q == Service(p, at)
           w == ServiceWait(p, at)
<1>6. /\ q.completed_jobs = p.completed_jobs + 1
      /\ q.total_waiting_time = p.total_waiting_time + w
      /\ w \in Nat
  BY <1>3, <1>4
<1> HIDE DEF q, w
<1>7. q.completed_jobs - p.completed_jobs = 1 /\ q.total_waiting_time - p.total_waiting_time = w
  BY <1>1, <1>6
<1> QED BY <1>5, <1>6, <1>7 DEF q, w

\* What the Service handler changes.
LEMMA ServiceTotals ==
    ASSUME Context, NEW e \in Event, HandleService(e)
    PROVE  \E w \in Nat :
              /\ TotalOf("completed_jobs")' = TotalOf("completed_jobs") + 1
              /\ TotalOf("total_waiting_time")' = TotalOf("total_waiting_time") + w
              /\ offline' = IF Recording THEN RecordWaits(offline, 1, w) ELSE offline
<1> DEFINE i  == indexOf[e.pid]
           at == tick + (IF e.payload = 1 THEN SwitchCost ELSE 0)
           q  == Service(processes[i], at)
<1>1. i \in DOMAIN processes /\ processes[i].queue_length > 0
  <2>1. e.pid \in Services /\ Known(e.pid) /\ processes[i].queue_length > 0
    BY EventTyped DEF HandleService, Pop, Serviceable
  <2> QED BY <2>1 DEF Context, RegistryInv, RegistryConsistent
<1>2. processes[i] \in ProcessRecord /\ HasJob(processes[i]) /\ processes \in Seq(ProcessRecord)
  BY <1>1, QueueNonEmpty, ContextTypes
<1>3. at \in Nat
  BY ContextTypes, EventLoopAssumption
<1>4. /\ processes' = [processes EXCEPT ![i] = q]
      /\ offline' = IF Recording THEN RecordWaits(offline, 1, ServiceWait(processes[i], at))
                    ELSE offline
  BY DEF HandleService
<1> HIDE DEF i, at
<1>5. /\ q \in ProcessRecord
      /\ q["completed_jobs"] - processes[i]["completed_jobs"] = 1
      /\ q["total_waiting_time"] - processes[i]["total_waiting_time"]
           = ServiceWait(processes[i], at)
      /\ ServiceWait(processes[i], at) \in Nat
  BY <1>2, <1>3, ServiceCounters
<1> HIDE DEF q
<1>6. \A f \in Counters :
         SumOver(processes', f) = SumOver(processes, f) + (q[f] - processes[i][f])
  <2>1. processes \in Seq(ProcessRecord) /\ q \in ProcessRecord
    BY <1>2, <1>5
  <2> QED BY <1>1, <1>4, <2>1, TotalChange
<1> QED BY <1>4, <1>5, <1>6 DEF TotalOf, Counters

\* An arrival changes neither the completed jobs nor their waiting time.
LEMMA ArrivalTotals ==
    ASSUME Context, Context', NEW e \in Event, HandleArrival(e),
           NEW f \in {"completed_jobs", "total_waiting_time"}
    PROVE  TotalOf(f)' = TotalOf(f)
<1> DEFINE ps == Extended(processes, e.pid, NewProcess(e.pid))
           i  == indexOf'[e.pid]
<1>1. e.pid \in Services /\ Register(e.pid)
  BY EventTyped DEF HandleArrival, Pop
<1>2. ps \in Seq(ProcessRecord)
  BY <1>1, RegisterTyped DEF Context, RegistryInv
<1>3. processes' = [ps EXCEPT ![i] = Arrival(ps[i], tick)]
  BY DEF HandleArrival
<1>4. SumOver(ps, f) = TotalOf(f)
  BY <1>1, TotalExtended DEF Counters
<1> HIDE DEF ps, i
<1>5. processes' \in Seq(ProcessRecord) /\ Len(processes') = Len(ps)
  BY <1>2, <1>3 DEF Context, RegistryInv, TypeOK
<1>6. \A j \in DOMAIN ps : processes'[j][f] = ps[j][f]
  <2> SUFFICES ASSUME NEW j \in DOMAIN ps PROVE processes'[j][f] = ps[j][f]
    OBVIOUS
  <2>1. ps[j] \in ProcessRecord
    BY <1>2
  <2>2. Arrival(ps[j], tick)[f] = ps[j][f]
    BY <2>1 DEF Arrival, ProcessRecord
  <2> QED BY <1>3, <2>2
<1>7. SumOver(processes', f) = SumOver(ps, f)
  BY <1>2, <1>5, <1>6, TotalSame
<1> QED BY <1>4, <1>7 DEF TotalOf

\* The warm-up reset starts every total from nothing.
LEMMA WarmupTotals ==
    ASSUME Context, Context', BeginTick, tick = WarmupTicks, NEW f \in Counters
    PROVE  TotalOf(f)' = 0
<1>1. processes \in Seq(ProcessRecord) /\ processes' \in Seq(ProcessRecord)
  BY DEF Context, RegistryInv, TypeOK
<1>2. processes' = [i \in DOMAIN processes |-> WarmupReset(processes[i])]
  BY DEF BeginTick
<1>3. ASSUME NEW i \in DOMAIN processes' PROVE processes'[i][f] = 0
  <2>1. processes[i] \in ProcessRecord /\ i \in DOMAIN processes
    BY <1>1, <1>2
  <2>2. WarmupReset(processes[i])[f] = 0
    BY <2>1 DEF WarmupReset, ProcessRecord, Counters
  <2> QED BY <1>2, <2>1, <2>2
<1>4. SumOver(processes', f) = 0
  BY <1>1, <1>3, TotalZero
<1> QED BY <1>4 DEF TotalOf

LEMMA OfflineStep ==
    ASSUME ~LockMode, Context, Context', DrainInv, OnlineInv, OfflineInv, [Next]_vars
    PROVE  OfflineInv'
<1>1. /\ offline \in OfflineRecord /\ tick \in Nat /\ WarmupTicks \in Nat
      /\ online.busy_ticks \in Nat
  BY ContextTypes, EventLoopAssumption DEF OfflineInv, OnlineInv, OnlineCounts
<1>2. ASSUME Started' = Started, UNCHANGED <<offline, online>>,
             TotalOf("completed_jobs")' = TotalOf("completed_jobs"),
             TotalOf("total_waiting_time")' = TotalOf("total_waiting_time")
      PROVE  OfflineInv'
  BY <1>2 DEF OfflineInv
<1>3. CASE BeginTick
  <2>1. pc = "tick" /\ pc' = "drain" /\ UNCHANGED <<tick, offline>>
    BY <1>3 DEF BeginTick
  <2>2. CASE tick = WarmupTicks
    <3>1. ~Started /\ Started'
      BY <1>1, <2>1, <2>2 DEF Started
    <3>2. online'.busy_ticks = 0
      BY <1>3, <2>2 DEF BeginTick, OnlineReset
    <3>3. TotalOf("completed_jobs")' = 0 /\ TotalOf("total_waiting_time")' = 0
      BY <1>3, <2>2, WarmupTotals DEF Counters
    <3> QED BY <2>1, <3>1, <3>2, <3>3 DEF OfflineInv
  <2>3. CASE tick # WarmupTicks
    <3>1. Started' = Started
      BY <1>1, <2>1, <2>3 DEF Started
    <3>2. UNCHANGED <<online, processes>>
      BY <1>3, <2>3 DEF BeginTick
    <3> QED BY <1>2, <2>1, <3>1, <3>2 DEF TotalOf
  <2> QED BY <2>2, <2>3
<1>4. ASSUME NEW e \in Event, HandleArrival(e) PROVE OfflineInv'
  <2>1. UNCHANGED <<tick, pc, offline, online>>
    BY <1>4 DEF HandleArrival
  <2>2. Started' = Started
    BY <2>1 DEF Started
  <2>3. /\ TotalOf("completed_jobs")' = TotalOf("completed_jobs")
        /\ TotalOf("total_waiting_time")' = TotalOf("total_waiting_time")
    BY <1>4, ArrivalTotals
  <2> QED BY <1>2, <2>1, <2>2, <2>3
<1>5. ASSUME NEW e \in Event, IgnoreLockEvent(e) \/ HandleSchedule(e) \/ IgnoreService(e)
      PROVE  OfflineInv'
  <2>1. UNCHANGED <<tick, pc, offline, online, processes>>
    BY <1>5 DEF IgnoreLockEvent, HandleSchedule, Schedule, IgnoreService
  <2>2. Started' = Started
    BY <2>1 DEF Started
  <2> QED BY <1>2, <2>1, <2>2 DEF TotalOf
<1>6. ASSUME NEW e \in Event, HandleService(e) PROVE OfflineInv'
  <2> PICK w \in Nat :
              /\ TotalOf("completed_jobs")' = TotalOf("completed_jobs") + 1
              /\ TotalOf("total_waiting_time")' = TotalOf("total_waiting_time") + w
              /\ offline' = IF Recording THEN RecordWaits(offline, 1, w) ELSE offline
    BY <1>6, ServiceTotals
  <2>1. UNCHANGED <<tick, pc, online>> /\ pc = "drain"
    BY <1>6 DEF HandleService, Pop
  <2>2. Started' = Started /\ (Started <=> Recording)
    BY <1>1, <2>1 DEF Started, Recording
  <2>3. CASE Recording
    <3>1. /\ offline' \in OfflineRecord
          /\ offline'.waits = offline.waits + 1
          /\ offline'.total_wait_sum = offline.total_wait_sum + w
          /\ offline'.decision_count = offline.decision_count
      <4>1. /\ RecordWaits(offline, 1, w) \in OfflineRecord
            /\ RecordWaits(offline, 1, w).waits = offline.waits + 1
            /\ RecordWaits(offline, 1, w).total_wait_sum = offline.total_wait_sum + w
            /\ RecordWaits(offline, 1, w).decision_count = offline.decision_count
        <5>1. 1 \in Nat /\ offline \in OfflineRecord
          BY <1>1
        <5> QED BY <5>1, RecordWaitsChanges
      <4> QED BY <2>3, <4>1
    <3>2. /\ offline.waits = TotalOf("completed_jobs")
          /\ offline.total_wait_sum = TotalOf("total_waiting_time")
          /\ offline.decision_count = online.busy_ticks
      BY <2>2, <2>3 DEF OfflineInv
    <3> QED BY <2>1, <2>2, <2>3, <3>1, <3>2 DEF OfflineInv
  <2>4. CASE ~Recording
    BY <2>2, <2>4 DEF OfflineInv
  <2> QED BY <2>3, <2>4
<1>7. ASSUME NEW e \in Event, HandleMetrics(e) PROVE OfflineInv'
  <2>1. UNCHANGED <<tick, pc>> /\ pc = "drain"
    BY <1>7 DEF HandleMetrics, Pop
  <2>2. Started' = Started /\ (Started <=> Recording)
    BY <1>1, <2>1 DEF Started, Recording
  <2>3. offline' = IF Recording THEN RecordDecision(offline, last) ELSE offline
    BY <1>7 DEF HandleMetrics
  <2>4. online'.busy_ticks = online.busy_ticks + (IF last # NoPid THEN 1 ELSE 0)
    BY <1>7 DEF HandleMetrics, OnlineUpdate
  <2>5. ASSUME NEW f \in Counters PROVE TotalOf(f)' = TotalOf(f)
    <3>1. /\ processes \in Seq(ProcessRecord) /\ processes' \in Seq(ProcessRecord)
          /\ Len(processes') = Len(processes)
      BY <1>7, ContextTypes, MetricsKeeps
    <3>2. \A i \in DOMAIN processes : processes'[i][f] = processes[i][f]
      BY <1>7, MetricsKeeps
    <3>3. SumOver(processes', f) = SumOver(processes, f)
      BY <3>1, <3>2, TotalSame
    <3> QED BY <3>3 DEF TotalOf
  <2>6. /\ TotalOf("completed_jobs")' = TotalOf("completed_jobs")
        /\ TotalOf("total_waiting_time")' = TotalOf("total_waiting_time")
    BY <2>5 DEF Counters
  <2>7. last \in Nat
    BY ContextTypes
  <2>8. CASE Recording
    <3>1. /\ offline' \in OfflineRecord
          /\ offline'.waits = offline.waits
          /\ offline'.total_wait_sum = offline.total_wait_sum
          /\ offline'.decision_count = offline.decision_count + (IF last # NoPid THEN 1 ELSE 0)
      BY <1>1, <2>3, <2>7, <2>8, RecordDecisionChanges
    <3>2. /\ offline.waits = TotalOf("completed_jobs")
          /\ offline.total_wait_sum = TotalOf("total_waiting_time")
          /\ offline.decision_count = online.busy_ticks
      BY <2>2, <2>8 DEF OfflineInv
    <3> QED BY <2>2, <2>4, <2>6, <2>8, <3>1, <3>2 DEF OfflineInv
  <2>9. CASE ~Recording
    BY <2>2, <2>3, <2>9 DEF OfflineInv
  <2> QED BY <2>8, <2>9
<1>8. CASE EndTick
  <2>1. Started' = Started /\ UNCHANGED <<offline, online, processes>>
    BY <1>1, <1>8 DEF EndTick, Started
  <2> QED BY <1>2, <2>1 DEF TotalOf
<1>9. CASE Terminated \/ UNCHANGED vars
  <2>1. Started' = Started /\ UNCHANGED <<offline, online, processes>>
    BY <1>9 DEF Terminated, vars, loopVars, Started
  <2> QED BY <1>2, <2>1 DEF TotalOf
<1>10. \A e \in Event : ~HandleLockAcquire(e)
  BY DEF HandleLockAcquire
<1> QED BY <1>3, <1>4, <1>5, <1>6, <1>7, <1>8, <1>9, <1>10 DEF Next

LEMMA OfflineInvariant == ASSUME ~LockMode PROVE Spec => []OfflineInv
<1>1. Init => OfflineInv
  BY EventLoopAssumption DEF Init, OfflineInit, OfflineInv, OfflineRecord, Started, NoPid
<1>2. Context /\ Context' /\ DrainInv /\ OnlineInv /\ OfflineInv /\ [Next]_vars => OfflineInv'
  BY OfflineStep
<1> QED BY <1>1, <1>2, ContextInvariant, DrainInvariant, OnlineInvariant, PTL DEF Spec

(***************************************************************************)
(* Without locks the samples of OfflineMetrics after warm-up are exactly   *)
(* the jobs the processes completed since the reset, the services charged  *)
(* with a context switch included, and it recorded every busy tick once.   *)
(***************************************************************************)
THEOREM SamplesAreCompletions == ASSUME ~LockMode PROVE Spec => []OfflineAgrees
<1>1. OfflineInv => OfflineAgrees
  BY DEF OfflineInv, OfflineAgrees, Started
<1> QED BY <1>1, OfflineInvariant, PTL

=============================================================================
