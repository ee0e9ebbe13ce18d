------------------------------ MODULE Process -------------------------------
(***************************************************************************)
(* One simulated process (core/Process.cpp): its job queue and statistics, *)
(* as a record, and each method as an operator that returns the record     *)
(* after the call.                                                         *)
(*                                                                         *)
(* The EWMA rate estimates are left out: they only feed the scores of the  *)
(* schedulers, and the models that use this module let the scheduler       *)
(* choose freely.  Lock state and synchronization debt are kept by         *)
(* EventLoop, the only code that touches them.  Ticks are integers.        *)
(***************************************************************************)
EXTENDS Integers, Sequences, SequencesExt

CONSTANT StarvationThreshold   \* idle ticks before one starvation event

ASSUME StarvationThresholdAssumption == StarvationThreshold \in Nat \ {0}

ProcessRecord ==
    [id                       : Nat,
     queue_length             : Int,
     jobs                     : Seq(Nat),   \* job_arrival_queue_, oldest first
     arrival_count            : Nat,
     completed_jobs           : Nat,
     total_waiting_time       : Nat,
     last_service_time        : Int,
     ticks_since_last_service : Nat,
     max_starvation_ticks     : Nat,
     starvation_events        : Nat]

NewProcess(raw) ==
    [id                       |-> raw,
     queue_length             |-> 0,
     jobs                     |-> <<>>,
     arrival_count            |-> 0,
     completed_jobs           |-> 0,
     total_waiting_time       |-> 0,
     last_service_time        |-> -1,
     ticks_since_last_service |-> 0,
     max_starvation_ticks     |-> 0,
     starvation_events        |-> 0]

\* Fault: the job is put at the front of the deque.
ArrivalAtFront(p, t) ==
    [p EXCEPT !.queue_length  = @ + 1,
              !.arrival_count = @ + 1,
              !.jobs          = <<t>> \o @]

Arrival(p, t) ==
    [p EXCEPT !.queue_length  = @ + 1,
              !.arrival_count = @ + 1,
              !.jobs          = Append(@, t)]

\* How long a job that arrived at tick a has waited at tick t, clamped at 0.
WaitingTime(a, t) == IF t > a THEN t - a ELSE 0

HasJob(p) == p.queue_length > 0 /\ p.jobs # <<>>

\* Fault: queue_length is not decremented.
ServiceKeepsLength(p, t) ==
    IF HasJob(p)
    THEN [p EXCEPT !.jobs                     = Tail(@),
                   !.completed_jobs           = @ + 1,
                   !.total_waiting_time       = @ + WaitingTime(Head(p.jobs), t),
                   !.last_service_time        = t,
                   !.ticks_since_last_service = 0]
    ELSE p

\* service(t): no effect on an empty queue, else the oldest job completes.
Service(p, t) ==
    IF HasJob(p)
    THEN [p EXCEPT !.jobs                     = Tail(@),
                   !.queue_length             = @ - 1,
                   !.completed_jobs           = @ + 1,
                   !.total_waiting_time       = @ + WaitingTime(Head(p.jobs), t),
                   !.last_service_time        = t,
                   !.ticks_since_last_service = 0]
    ELSE p

\* The value service(t) returns.
ServiceWait(p, t) == IF HasJob(p) THEN WaitingTime(Head(p.jobs), t) ELSE 0

\* k calls of service(t) in a row.
ServiceTimes(p, t, k) ==
    LET after[n \in 0 .. k] == IF n = 0 THEN p ELSE Service(after[n - 1], t)
    IN  after[k]

TickIdle(p) ==
    LET since == p.ticks_since_last_service + 1
    IN  [p EXCEPT !.ticks_since_last_service = since,
                  !.max_starvation_ticks     = IF since > @ THEN since ELSE @,
                  !.starvation_events        =
                      IF since = StarvationThreshold /\ p.queue_length > 0
                      THEN @ + 1 ELSE @]

=============================================================================
