----------------------------- MODULE EventQueue -----------------------------
(***************************************************************************)
(* The event heap (core/EventQueue.cpp) and the events it holds            *)
(* (core/Event.hpp).                                                       *)
(*                                                                         *)
(* A heap is a function from events to the number of copies it holds.      *)
(* std::priority_queue promises nothing about the order of equal elements, *)
(* so Tops is the set of events that the next pop() may return.  The       *)
(* timestamp is left out: every push in the program uses the tick that is  *)
(* being drained, so the heap never mixes two timestamps and the loop      *)
(* condition top().timestamp <= tick is "the heap is not empty".           *)
(***************************************************************************)
EXTENDS Integers, Sequences, FiniteSets

CONSTANTS
    Services,   \* raw service ids an event may name
    LockIds     \* lock ids an event may name, those out of range included

ASSUME EventQueueAssumption == /\ Services \subseteq Nat
                               /\ LockIds  \subseteq Nat

Event ==
    [type : {"Arrival"},     pid : Services, payload : {0}] \cup
    [type : {"LockAcquire"}, pid : Services, payload : LockIds] \cup
    [type : {"LockRelease"}, pid : Services, payload : LockIds] \cup
    [type : {"Schedule"},    pid : {0},      payload : {0}] \cup
    [type : {"Service"},     pid : Services, payload : {0, 1}] \cup
    [type : {"Metrics"},     pid : {0},      payload : {0}]

ScheduleEvent == [type |-> "Schedule", pid |-> 0, payload |-> 0]
MetricsEvent  == [type |-> "Metrics",  pid |-> 0, payload |-> 0]

\* makeServiceEvent, with the payload EventLoop::run stores in it afterwards.
ServiceEvent(raw, cx) ==
    [type |-> "Service", pid |-> raw, payload |-> IF cx THEN 1 ELSE 0]

\* Fault: the two last event types exchanged.
RankMetricsFirst(type) ==
    CASE type = "Arrival"     -> 0
      [] type = "LockAcquire" -> 1
      [] type = "LockRelease" -> 2
      [] type = "Schedule"    -> 3
      [] type = "Metrics"     -> 4
      [] type = "Service"     -> 5

\* The integer value of an EventType: the sort key within a tick.
Rank(type) ==
    CASE type = "Arrival"     -> 0
      [] type = "LockAcquire" -> 1
      [] type = "LockRelease" -> 2
      [] type = "Schedule"    -> 3
      [] type = "Service"     -> 4
      [] type = "Metrics"     -> 5

-----------------------------------------------------------------------------

EmptyHeap == [e \in Event |-> 0]

IsHeap(q) == q \in [Event -> Nat]

IsEmpty(q) == \A e \in Event : q[e] = 0

Push(q, e) == [q EXCEPT ![e] = @ + 1]

\* One push for every element of the sequence "batch".
PushAll(q, batch) ==
    [e \in Event |-> q[e] + Cardinality({k \in DOMAIN batch : batch[k] = e})]

\* The events that pop() may return: no event of a lower rank is in the heap.
Tops(q) ==
    {e \in Event : /\ q[e] > 0
                   /\ \A f \in Event : q[f] > 0 => Rank(e.type) <= Rank(f.type)}

\* The heap after pop() has returned e.
Popped(q, e) == [q EXCEPT ![e] = @ - 1]

=============================================================================
